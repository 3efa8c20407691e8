------------------------------ MODULE AddressSpacesProofs ------------------------------
(***************************************************************************)
(* Proofs about KernelHeap, then about AddressSpaces.                      *)
(*                                                                         *)
(* pmm_alloc_page, pmm_free_page, kmalloc and kfree keep MemSound, in      *)
(* which the heap is Tiled, its frames are marked and the count of used    *)
(* memory is that of the marks; and each says which frames and which       *)
(* addresses it gives out or takes back.                                   *)
(*                                                                         *)
(* A process under construction is Kept: what was marked for it is in one  *)
(* of its places or lost.  Each loop of the loaders, of fork, of brk and   *)
(* of the clean-up keeps that (an instance of SequenceLemmas); then each   *)
(* call keeps the invariant IInv, by which the marks, and the addresses    *)
(* that the heap gave out, are divided among the processes, the heap or    *)
(* the pipes, the kernel, and what is leaked.                              *)
(***************************************************************************)
EXTENDS AddressSpaces, FiniteSetTheorems, FunctionTheorems, SequenceTheorems, WellFoundedInduction, TLAPS

Blocks == [at : Nat \ {0}, size : Nat \ {0}, is_free : BOOLEAN]
Span(b) == FrameOf(b.at) .. FrameOf(After(b) - 1)

\* The sizes of frames and headers are positive numbers.
LEMMA Units == /\ PAGE_SIZE \in Nat \ {0} /\ HEADER \in Nat \ {0} /\ HEADER <= PAGE_SIZE
               /\ SLACK \in Nat
  BY UnitAssumption DEF UnitAssumption

\* An address is in its frame.
LEMMA FrameOfNat ==
    ASSUME NEW a \in Nat
    PROVE  /\ FrameOf(a) \in Nat
           /\ FrameOf(a) * PAGE_SIZE <= a
           /\ a < (FrameOf(a) + 1) * PAGE_SIZE
  BY Units, Z3 DEF FrameOf

\* A product grows with its factor.
LEMMA TimesMono ==
    ASSUME NEW P \in Nat \ {0}, NEW x \in Int, NEW y \in Int, x <= y
    PROVE  x * P <= y * P
  BY Z3

\* An address in a row of frames is in one of them.
LEMMA FrameBounds ==
    ASSUME NEW a \in Nat, NEW f \in Nat, NEW n \in Nat, f * PAGE_SIZE <= a, a < (f + n) * PAGE_SIZE
    PROVE  FrameOf(a) \in f .. f + n - 1
<1>1. f <= FrameOf(a)
  <2>1. CASE FrameOf(a) + 1 <= f
    <3>1. (FrameOf(a) + 1) * PAGE_SIZE <= f * PAGE_SIZE
      BY <2>1, Units, FrameOfNat, TimesMono
    <3> QED
      BY <3>1, FrameOfNat, Units
  <2> QED
    BY <2>1, FrameOfNat
<1>2. FrameOf(a) < f + n
  <2>2. f + n \in Int /\ FrameOf(a) \in Int
    BY FrameOfNat
  <2>1. CASE f + n <= FrameOf(a)
    <3>1. (f + n) * PAGE_SIZE <= FrameOf(a) * PAGE_SIZE
      BY <2>1, <2>2, Units, TimesMono
    <3> QED
      BY <3>1, FrameOfNat, Units
  <2> QED
    BY <2>1, FrameOfNat
<1> QED
  BY <1>1, <1>2, FrameOfNat

\* Later addresses are not in earlier frames.
LEMMA FrameMono ==
    ASSUME NEW a \in Nat, NEW b \in Nat, a <= b
    PROVE  FrameOf(a) <= FrameOf(b)
<1>1. CASE FrameOf(b) + 1 <= FrameOf(a)
  <2>1. (FrameOf(b) + 1) * PAGE_SIZE <= FrameOf(a) * PAGE_SIZE
    BY <1>1, Units, FrameOfNat, TimesMono
  <2> QED
    BY <2>1, FrameOfNat, Units
<1> QED
  BY <1>1, FrameOfNat

\* Frames are met one after another as addresses grow.
LEMMA FrameNext ==
    ASSUME NEW a \in Nat \ {0}
    PROVE  FrameOf(a) <= FrameOf(a - 1) + 1
<1>1. a - 1 \in Nat /\ a < (FrameOf(a - 1) + 1) * PAGE_SIZE + 1
  BY FrameOfNat, Units
<1>2. (FrameOf(a - 1) + 2) * PAGE_SIZE = (FrameOf(a - 1) + 1) * PAGE_SIZE + PAGE_SIZE
  BY <1>1, FrameOfNat, Units
<1>3. a < (FrameOf(a - 1) + 2) * PAGE_SIZE
  BY <1>1, <1>2, FrameOfNat, Units
<1>4. FrameOf(a - 1) * PAGE_SIZE <= a
  BY <1>1, FrameOfNat, Units
<1> QED
  BY <1>1, <1>3, <1>4, FrameOfNat, FrameBounds

\* The frames of two blocks side by side are those of the block they make.
LEMMA SpanJoin ==
    ASSUME NEW b \in Blocks, NEW c \in Blocks, NEW d \in Blocks, After(b) = c.at,
           d.at = b.at, d.size = b.size + HEADER + c.size
    PROVE  Span(d) = Span(b) \cup Span(c) /\ After(d) = After(c)
<1> DEFINE p == FrameOf(b.at)
           q == FrameOf(c.at - 1)
           r == FrameOf(c.at)
           s == FrameOf(After(c) - 1)
<1>1. /\ b.at \in Nat /\ c.at \in Nat \ {0} /\ c.at - 1 \in Nat /\ After(c) - 1 \in Nat
      /\ b.at <= c.at - 1 /\ c.at <= After(c) - 1 /\ After(d) = After(c)
  BY Units DEF Blocks, After
<1>2. p \in Nat /\ q \in Nat /\ r \in Nat /\ s \in Nat
  BY <1>1, FrameOfNat
<1>3. p <= q /\ q <= r /\ r <= s /\ r <= q + 1
  BY <1>1, FrameMono, FrameNext
<1>4. Span(d) = p .. s /\ Span(b) = p .. q /\ Span(c) = r .. s
  BY <1>1 DEF Span
<1> HIDE DEF p, q, r, s
<1> QED
  BY <1>1, <1>2, <1>3, <1>4

\* Min of a set of numbers is its least.
LEMMA MinIn ==
    ASSUME NEW S \in SUBSET Nat, S # {}
    PROVE  Min(S) \in S /\ \A x \in S : Min(S) <= x
<1> DEFINE R == OpToRel(<, Nat)
<1>1. IsWellFoundedOn(R, Nat)
  BY NatLessThanWellFounded
<1> HIDE DEF R
<1>2. PICK x \in S : \A y \in S : ~(<<y, x>> \in R)
  BY <1>1, WFMin
<1>3. \A y \in S : ~(y < x)
  BY <1>2 DEF R, OpToRel
<1>4. \A y \in S : x <= y
  BY <1>3
<1>5. \E z \in S : \A y \in S : z =< y
  BY <1>4
<1> QED
  BY <1>5, Zenon DEF Min

-----------------------------------------------------------------------------
(* The sum of the sizes of a list *)

SumOf(h) == FoldLeft(LAMBDA sum, b : sum + HEADER + b.size, 0, h)

AddBlock(c, sum, b) == sum + HEADER + b.size
SumIsNat(c, h, i, sum) == sum \in Nat
Sums == INSTANCE SequenceLemmas WITH Body <- AddBlock, Kept <- SumIsNat

\* The sums of the first blocks of a list.
SumsOf(h, f) ==
    /\ f[0] = 0
    /\ \A i \in 0 .. Len(h) - 1 : f[i + 1] = f[i] + HEADER + h[i + 1].size
    /\ SumOf(h) = f[Len(h)]

\* The sum that Tiled folds is the last of the sums of the first blocks.
LEMMA SumRun ==
    ASSUME NEW h \in Seq(Blocks)
    PROVE  \E f : SumsOf(h, f)
<1>1. SumOf(h) = Sums!Fold(0, 0, h)
  BY Zenon DEF SumOf, AddBlock, Sums!Fold, Sums!MapThenFoldSet, Sums!Largest,
     FoldLeft, MapThenFoldSet, Max
<1>2. DOMAIN h = 1 .. Len(h) /\ Len(h) \in Nat
  OBVIOUS
<1>3. PICK f : Sums!Run(0, 0, h, Len(h), f) /\ Sums!Fold(0, 0, h) = f[Len(h)]
  BY <1>2, Sums!FoldRun
<1>4. SumsOf(h, f)
  BY <1>1, <1>3 DEF SumsOf, Sums!Run, AddBlock
<1> QED
  BY <1>4

\* All these sums are numbers.
LEMMA SumsNat ==
    ASSUME NEW h \in Seq(Blocks), NEW f, SumsOf(h, f)
    PROVE  \A i \in 0 .. Len(h) : f[i] \in Nat
<1> DEFINE S == {i \in Nat : i <= Len(h) => f[i] \in Nat}
<1>1. 0 \in S
  BY DEF SumsOf
<1>2. ASSUME NEW i \in Nat, i \in S PROVE i + 1 \in S
  <2>1. CASE i + 1 <= Len(h)
    <3>1. i \in 0 .. Len(h) - 1 /\ f[i] \in Nat
      BY <1>2, <2>1
    <3>2. f[i + 1] = f[i] + HEADER + h[i + 1].size /\ h[i + 1] \in Blocks
      BY <2>1, <3>1 DEF SumsOf
    <3>3. f[i + 1] \in Nat
      <4> DEFINE x == f[i]
                 y == h[i + 1].size
                 z == f[i + 1]
      <4>1. x \in Nat /\ y \in Nat /\ HEADER \in Nat /\ z = x + HEADER + y
        BY <3>1, <3>2, Units DEF Blocks
      <4> HIDE DEF x, y, z
      <4>2. z \in Nat
        BY <4>1
      <4> QED
        BY <4>2 DEF z
    <3> QED
      BY <3>3
  <2> QED
    BY <2>1
<1>3. Nat \subseteq S
  <2> HIDE DEF S
  <2> QED
    BY <1>1, <1>2, Sums!SetInduction
<1> QED
  BY <1>3

\* The sum depends on the sizes alone.
LEMMA SumSame ==
    ASSUME NEW g \in Seq(Blocks), NEW h \in Seq(Blocks), Len(g) = Len(h),
           \A i \in 1 .. Len(h) : g[i].size = h[i].size
    PROVE  SumOf(g) = SumOf(h)
<1>1. PICK e : SumsOf(g, e)
  BY SumRun
<1>2. PICK f : SumsOf(h, f)
  BY SumRun
<1> DEFINE S == {i \in Nat : i <= Len(h) => e[i] = f[i]}
<1>3. 0 \in S
  BY <1>1, <1>2 DEF SumsOf
<1>4. ASSUME NEW i \in Nat, i \in S PROVE i + 1 \in S
  <2>1. CASE i + 1 <= Len(h)
    <3>1. i \in 0 .. Len(h) - 1 /\ e[i] = f[i] /\ i + 1 \in 1 .. Len(h)
      BY <1>4, <2>1
    <3>2. e[i + 1] = f[i + 1]
      BY <1>1, <1>2, <3>1 DEF SumsOf
    <3> QED
      BY <3>2
  <2> QED
    BY <2>1
<1>5. Nat \subseteq S
  <2> HIDE DEF S
  <2> QED
    BY <1>3, <1>4, Sums!SetInduction
<1> QED
  BY <1>1, <1>2, <1>5 DEF SumsOf

\* One block more adds its header and its size.
LEMMA SumAppend ==
    ASSUME NEW h \in Seq(Blocks), NEW b \in Blocks
    PROVE  SumOf(Append(h, b)) = SumOf(h) + HEADER + b.size
<1> DEFINE g == Append(h, b)
<1>0. g \in Seq(Blocks) /\ Len(g) = Len(h) + 1 /\ Len(h) \in Nat /\ g[Len(h) + 1] = b
      /\ \A i \in 1 .. Len(h) : g[i] = h[i]
  OBVIOUS
<1> HIDE DEF g
<1>1. PICK e : SumsOf(g, e)
  BY <1>0, SumRun
<1>2. PICK f : SumsOf(h, f)
  BY SumRun
<1> DEFINE S == {i \in Nat : i <= Len(h) => e[i] = f[i]}
<1>3. 0 \in S
  BY <1>1, <1>2 DEF SumsOf
<1>4. ASSUME NEW i \in Nat, i \in S PROVE i + 1 \in S
  <2>1. CASE i + 1 <= Len(h)
    <3>1. i \in 0 .. Len(h) - 1 /\ e[i] = f[i] /\ i + 1 \in 1 .. Len(h) /\ i \in 0 .. Len(g) - 1
      BY <1>0, <1>4, <2>1
    <3>2. e[i + 1] = f[i + 1]
      BY <1>0, <1>1, <1>2, <3>1 DEF SumsOf
    <3> QED
      BY <3>2
  <2> QED
    BY <2>1
<1>5. Nat \subseteq S
  <2> HIDE DEF S
  <2> QED
    BY <1>3, <1>4, Sums!SetInduction
<1>6. e[Len(h)] = SumOf(h)
  BY <1>0, <1>2, <1>5 DEF SumsOf
<1>7. Len(h) \in 0 .. Len(g) - 1
  BY <1>0
<1>8. SumOf(g) = e[Len(h)] + HEADER + b.size
  BY <1>0, <1>1, <1>7 DEF SumsOf
<1> QED
  BY <1>6, <1>8 DEF g

\* One block of a list made two, side by side.
SplitIn(h, i, g) ==
    /\ g \in Seq(Blocks) /\ Len(g) = Len(h) + 1
    /\ \A j \in 1 .. i - 1 : g[j] = h[j]
    /\ \A j \in i + 1 .. Len(h) : g[j + 1] = h[j]
    /\ g[i].at = h[i].at /\ After(g[i]) = g[i + 1].at
    /\ h[i].size = g[i].size + HEADER + g[i + 1].size

\* A block that is split in two takes as much room as before.
LEMMA SumSplit ==
    ASSUME NEW h \in Seq(Blocks), NEW i \in 1 .. Len(h), NEW g, SplitIn(h, i, g)
    PROVE  SumOf(g) = SumOf(h)
<1>0. g \in Seq(Blocks) /\ Len(g) = Len(h) + 1 /\ Len(h) \in Nat
  BY DEF SplitIn
<1>1. PICK e : SumsOf(g, e)
  BY <1>0, SumRun
<1>2. PICK f : SumsOf(h, f)
  BY SumRun
<1>3. /\ \A j \in 0 .. Len(h) : f[j] \in Nat
      /\ \A j \in 0 .. Len(g) : e[j] \in Nat
  BY <1>0, <1>1, <1>2, SumsNat
<1> DEFINE S == {j \in Nat : /\ j < i => e[j] = f[j]
                             /\ i <= j /\ j <= Len(h) => e[j + 1] = f[j]}
<1>4. 0 \in S
  BY <1>1, <1>2 DEF SumsOf
<1>5. ASSUME NEW j \in Nat, j \in S PROVE j + 1 \in S
  <2>1. CASE j + 1 < i
    <3>1. j \in 0 .. Len(h) - 1 /\ j \in 0 .. Len(g) - 1 /\ e[j] = f[j] /\ j + 1 \in 1 .. i - 1
      BY <1>0, <1>5, <2>1
    <3>2. g[j + 1] = h[j + 1]
      BY <3>1 DEF SplitIn
    <3>3. e[j + 1] = f[j + 1]
      BY <1>1, <1>2, <3>1, <3>2 DEF SumsOf
    <3> QED
      BY <3>3, <2>1
  <2>2. CASE j + 1 = i
    <3>1. j \in 0 .. Len(h) - 1 /\ j \in 0 .. Len(g) - 1 /\ j + 1 \in 0 .. Len(g) - 1 /\ e[j] = f[j]
      BY <1>0, <1>5, <2>2
    <3>8. e[j + 1] = e[j] + HEADER + g[i].size
      BY <1>1, <2>2, <3>1 DEF SumsOf
    <3>9. e[j + 1 + 1] = e[j + 1] + HEADER + g[j + 1 + 1].size
      BY <1>1, <3>1 DEF SumsOf
    <3>2. e[j + 2] = e[j + 1] + HEADER + g[i + 1].size
      <4>1. j + 1 + 1 = j + 2 /\ i + 1 = j + 2
        BY <2>2
      <4> QED
        BY <3>9, <4>1
    <3>3. f[j + 1] = f[j] + HEADER + h[i].size
      BY <1>2, <2>2, <3>1 DEF SumsOf
    <3>4. h[i].size = g[i].size + HEADER + g[i + 1].size
      BY DEF SplitIn
    <3>5. g[i].size \in Nat /\ g[i + 1].size \in Nat
      <4>1. i \in 1 .. Len(g) /\ i + 1 \in 1 .. Len(g)
        BY <1>0
      <4>2. g[i] \in Blocks /\ g[i + 1] \in Blocks
        BY <1>0, <4>1, ElementOfSeq
      <4> QED
        BY <4>2 DEF Blocks
    <3>6. f[j] \in Nat
      BY <1>3, <3>1
    <3>7. e[j + 2] = f[j + 1]
      <4>1. e[j + 1] = f[j] + HEADER + g[i].size
        BY <3>1, <3>8
      <4>2. h[i].size \in Nat
        <5>1. h[i] \in Blocks
          BY ElementOfSeq
        <5> QED
          BY <5>1 DEF Blocks
      <4>3. HEADER \in Nat
        BY Units
      <4> DEFINE x == g[i].size
                 y == g[i + 1].size
                 z == h[i].size
                 a == f[j]
                 b == e[j + 1]
                 c == e[j + 2]
                 d == f[j + 1]
      <4>4. x \in Nat /\ y \in Nat /\ z \in Nat /\ a \in Nat
        BY <3>5, <3>6, <4>2
      <4>5. b = a + HEADER + x /\ c = b + HEADER + y /\ z = x + HEADER + y /\ d = a + HEADER + z
        BY <3>2, <3>3, <3>4, <4>1
      <4> HIDE DEF x, y, z, a, b, c, d
      <4>6. c = d
        BY <4>3, <4>4, <4>5
      <4> QED
        BY <4>6 DEF c, d
    <3> QED
      BY <3>7, <2>2
  <2>3. CASE i < j + 1 /\ j + 1 <= Len(h)
    <3>1. j \in 0 .. Len(h) - 1 /\ j + 1 \in 0 .. Len(g) - 1 /\ e[j + 1] = f[j] /\ j + 1 \in i + 1 .. Len(h)
      BY <1>0, <1>5, <2>3
    <3>2. g[j + 1 + 1] = h[j + 1]
      BY <3>1 DEF SplitIn
    <3>4. /\ e[j + 1 + 1] = e[j + 1] + HEADER + g[j + 1 + 1].size
          /\ f[j + 1] = f[j] + HEADER + h[j + 1].size
      BY <1>1, <1>2, <3>1 DEF SumsOf
    <3>3. e[j + 1 + 1] = f[j + 1]
      BY <3>1, <3>2, <3>4
    <3> QED
      BY <3>3, <2>3
  <2>4. CASE Len(h) < j + 1
    BY <2>4
  <2> QED
    BY <2>1, <2>2, <2>3, <2>4
<1>6. Nat \subseteq S
  <2> HIDE DEF S
  <2> QED
    BY <1>4, <1>5, Sums!SetInduction
<1>7. e[Len(h) + 1] = f[Len(h)]
  BY <1>0, <1>6
<1> QED
  BY <1>0, <1>1, <1>2, <1>7 DEF SumsOf

-----------------------------------------------------------------------------
(* Lists of blocks *)

Off(b, c) == After(b) <= c.at \/ After(c) <= b.at
FramesUnder(h) == UNION {Span(b) : b \in ToSet(h)}
TakenIn(h) == {b.at : b \in {c \in ToSet(h) : ~c.is_free}}
AllApart(h) == \A i, j \in DOMAIN h : i # j => Off(h[i], h[j])
Settled(b, c) == After(b) = c.at => ~(b.is_free /\ c.is_free)
AllSettled(h) == \A i \in DOMAIN h : i > 1 => Settled(h[i - 1], h[i])

\* Tiled in three named parts.
LEMMA TiledParts ==
    ASSUME NEW mem, mem.heap \in Seq(Blocks)
    PROVE  Tiled(mem) <=> /\ AllApart(mem.heap)
                          /\ SumOf(mem.heap) = PAGE_SIZE * Cardinality(FramesUnder(mem.heap))
                          /\ AllSettled(mem.heap)
<1>1. HeapFrames(mem) = FramesUnder(mem.heap)
  BY DEF HeapFrames, FramesUnder, Span
<1>2. SumOf(mem.heap) = FoldLeft(LAMBDA sum, b : sum + HEADER + b.size, 0, mem.heap)
  BY Zenon DEF SumOf
<1>3. \A i \in DOMAIN mem.heap : mem.heap[i].size > 0
  <2>1. ASSUME NEW i \in DOMAIN mem.heap PROVE mem.heap[i].size > 0
    <3>1. mem.heap[i] \in Blocks
      BY <2>1, ElementOfSeq, LenProperties
    <3> QED
      BY <3>1 DEF Blocks
  <2> QED
    BY <2>1
<1> DEFINE A == \A i, j \in DOMAIN mem.heap :
              i # j => After(mem.heap[i]) <= mem.heap[j].at \/ After(mem.heap[j]) <= mem.heap[i].at
           B == \A i \in DOMAIN mem.heap :
              /\ mem.heap[i].size > 0
              /\ i > 1 /\ After(mem.heap[i - 1]) = mem.heap[i].at =>
                    ~(mem.heap[i - 1].is_free /\ mem.heap[i].is_free)
<1>4. A <=> AllApart(mem.heap)
  BY DEF AllApart, Off
<1>5. B <=> AllSettled(mem.heap)
  BY <1>3 DEF AllSettled, Settled
<1>6. Tiled(mem) <=> A /\ SumOf(mem.heap) = PAGE_SIZE * Cardinality(HeapFrames(mem)) /\ B
  BY <1>2, Zenon DEF Tiled
<1> QED
  BY <1>1, <1>4, <1>5, <1>6

\* The frames and the taken addresses of a list with one block more.
LEMMA UnderAppend ==
    ASSUME NEW h \in Seq(Blocks), NEW b \in Blocks
    PROVE  /\ FramesUnder(Append(h, b)) = FramesUnder(h) \cup Span(b)
           /\ TakenIn(Append(h, b)) = TakenIn(h) \cup (IF b.is_free THEN {} ELSE {b.at})
           /\ Append(h, b) \in Seq(Blocks)
<1>1. ToSet(Append(h, b)) = ToSet(h) \cup {b}
  <2> DEFINE g == Append(h, b)
  <2>1. /\ Len(h) \in Nat /\ DOMAIN h = 1 .. Len(h) /\ DOMAIN g = 1 .. Len(h) + 1
        /\ g[Len(h) + 1] = b /\ \A i \in 1 .. Len(h) : g[i] = h[i]
    OBVIOUS
  <2> HIDE DEF g
  <2>2. 1 .. Len(h) + 1 = (1 .. Len(h)) \cup {Len(h) + 1}
    BY <2>1
  <2>3. {g[i] : i \in 1 .. Len(h) + 1} = {h[i] : i \in 1 .. Len(h)} \cup {b}
    BY <2>1, <2>2
  <2> QED
    BY <2>1, <2>3 DEF ToSet, g
<1> QED
  BY <1>1 DEF FramesUnder, TakenIn

\* A list that is not empty is its front and its last block.
LEMMA FrontLast ==
    ASSUME NEW h \in Seq(Blocks), Len(h) > 0
    PROVE  /\ Front(h) \in Seq(Blocks) /\ Last(h) \in Blocks
           /\ h = Append(Front(h), Last(h))
           /\ Len(Front(h)) = Len(h) - 1 /\ Last(h) = h[Len(h)]
           /\ \A i \in 1 .. Len(h) - 1 : Front(h)[i] = h[i]
<1>1. Len(h) \in Nat \ {0} /\ \A i \in 1 .. Len(h) : h[i] \in Blocks
  BY EmptySeq, ElementOfSeq
<1>2. Last(h) = h[Len(h)] /\ Last(h) \in Blocks
  BY <1>1 DEF Last
<1>3. Front(h) = SubSeq(h, 1, Len(h) - 1)
  BY DEF Front
<1>4. /\ Front(h) \in Seq(Blocks) /\ Len(Front(h)) = Len(h) - 1
      /\ \A i \in 1 .. Len(h) - 1 : Front(h)[i] = h[i]
  <2>1. \A i \in 1 .. Len(h) - 1 : h[i] \in Blocks
    BY <1>1
  <2>2. 1 \in Int /\ Len(h) - 1 \in Int
    BY <1>1
  <2>3. /\ SubSeq(h, 1, Len(h) - 1) \in Seq(Blocks)
        /\ Len(SubSeq(h, 1, Len(h) - 1)) = IF 1 <= Len(h) - 1 THEN Len(h) - 1 - 1 + 1 ELSE 0
        /\ \A i \in 1 .. Len(h) - 1 - 1 + 1 : SubSeq(h, 1, Len(h) - 1)[i] = h[1 + i - 1]
    BY <2>1, <2>2, SubSeqProperties
  <2>4. Len(SubSeq(h, 1, Len(h) - 1)) = Len(h) - 1
    <3>1. CASE 1 <= Len(h) - 1
      BY <1>1, <2>3, <3>1
    <3>2. CASE Len(h) = 1
      BY <2>3, <3>2
    <3>3. 1 <= Len(h) - 1 \/ Len(h) = 1
      <4> DEFINE n == Len(h)
      <4>1. n \in Nat \ {0}
        BY <1>1
      <4> HIDE DEF n
      <4>2. 1 <= n - 1 \/ n = 1
        BY <4>1
      <4> QED
        BY <4>2 DEF n
    <3> QED
      BY <3>1, <3>2, <3>3
  <2>5. ASSUME NEW i \in 1 .. Len(h) - 1 PROVE Front(h)[i] = h[i]
    <3>1. i \in 1 .. Len(h) - 1 - 1 + 1 /\ 1 + i - 1 = i
      BY <1>1
    <3> QED
      BY <2>3, <1>3, <3>1
  <2> QED
    BY <1>3, <2>3, <2>4, <2>5
<1>5. Append(Front(h), Last(h)) \in Seq(Blocks)
      /\ Len(Append(Front(h), Last(h))) = Len(h)
      /\ \A i \in 1 .. Len(h) : Append(Front(h), Last(h))[i] = h[i]
  BY <1>1, <1>2, <1>4
<1>6. h = Append(Front(h), Last(h))
  BY <1>5, SeqEqual
<1> QED
  BY <1>2, <1>4, <1>6

-----------------------------------------------------------------------------
(* kfree *)

JoinTo(c, done, b) == Join(done, b)

\* What the loop has made of the first i blocks of the list h.
Joined(c, h, i, done) ==
    /\ done \in Seq(Blocks)
    /\ SumOf(done) = SumOf(SubSeq(h, 1, i))
    /\ FramesUnder(done) = FramesUnder(SubSeq(h, 1, i))
    /\ TakenIn(done) = TakenIn(SubSeq(h, 1, i))
    /\ AllApart(done) /\ AllSettled(done)
    /\ \A k \in DOMAIN done : \A j \in i + 1 .. Len(h) : Off(done[k], h[j])

Joins == INSTANCE SequenceLemmas WITH Body <- JoinTo, Kept <- Joined

\* A block that is off all others can be appended.
LEMMA ApartAppend ==
    ASSUME NEW h \in Seq(Blocks), NEW b \in Blocks, AllApart(h),
           \A k \in DOMAIN h : Off(h[k], b)
    PROVE  AllApart(Append(h, b))
<1> DEFINE g == Append(h, b)
<1>1. /\ DOMAIN h = 1 .. Len(h) /\ DOMAIN g = 1 .. Len(h) + 1 /\ Len(h) \in Nat
      /\ g[Len(h) + 1] = b /\ \A i \in 1 .. Len(h) : g[i] = h[i]
  OBVIOUS
<1> HIDE DEF g
<1>2. ASSUME NEW i \in DOMAIN g, NEW j \in DOMAIN g, i # j
      PROVE  Off(g[i], g[j])
  <2>1. CASE i \in 1 .. Len(h) /\ j \in 1 .. Len(h)
    BY <1>1, <1>2, <2>1 DEF AllApart
  <2>2. CASE i = Len(h) + 1 /\ j \in 1 .. Len(h)
    BY <1>1, <2>2 DEF Off
  <2>3. CASE i \in 1 .. Len(h) /\ j = Len(h) + 1
    BY <1>1, <2>3
  <2> QED
    BY <1>1, <1>2, <2>1, <2>2, <2>3
<1> QED
  BY <1>2 DEF AllApart, g

\* A block that is settled with the last one can be appended.
LEMMA SettledAppend ==
    ASSUME NEW h \in Seq(Blocks), NEW b \in Blocks, AllSettled(h),
           Len(h) > 0 => Settled(h[Len(h)], b)
    PROVE  AllSettled(Append(h, b))
<1> DEFINE g == Append(h, b)
           n == Len(h)
<1>1. /\ DOMAIN h = 1 .. n /\ DOMAIN g = 1 .. n + 1 /\ n \in Nat
      /\ g[n + 1] = b /\ \A i \in 1 .. n : g[i] = h[i]
  OBVIOUS
<1>2. n > 0 => Settled(h[n], b)
  OBVIOUS
<1> HIDE DEF g, n
<1>3. ASSUME NEW i \in DOMAIN g, i > 1
      PROVE  Settled(g[i - 1], g[i])
  <2>1. CASE i \in 1 .. n
    <3>1. i - 1 \in 1 .. n
      BY <1>1, <1>3, <2>1
    <3>2. Settled(h[i - 1], h[i])
      BY <1>1, <1>3, <2>1 DEF AllSettled
    <3> QED
      BY <1>1, <2>1, <3>1, <3>2
  <2>2. CASE i = n + 1
    <3>1. i - 1 = n /\ n \in 1 .. n /\ n > 0
      BY <1>1, <1>3, <2>2
    <3> QED
      BY <1>1, <1>2, <2>2, <3>1
  <2> QED
    BY <1>1, <1>3, <2>1, <2>2
<1> QED
  BY <1>3 DEF AllSettled, g

\* What a block is off, neighbours that make it are both off, and back.
LEMMA OffJoin ==
    ASSUME NEW b \in Blocks, NEW c \in Blocks, NEW d \in Blocks, NEW x \in Blocks,
           After(b) = c.at, d.at = b.at, d.size = b.size + HEADER + c.size
    PROVE  /\ Off(b, x) /\ Off(c, x) <=> Off(d, x)
           /\ Off(x, b) /\ Off(x, c) <=> Off(x, d)
           /\ Off(b, c)
<1>1. /\ b.at \in Nat /\ c.at \in Nat /\ x.at \in Nat /\ b.size \in Nat /\ c.size \in Nat
      /\ x.size \in Nat /\ HEADER \in Nat \ {0}
  BY Units DEF Blocks
<1>2. /\ After(b) = b.at + HEADER + b.size /\ After(c) = c.at + HEADER + c.size
      /\ After(x) = x.at + HEADER + x.size /\ After(d) = b.at + HEADER + b.size + HEADER + c.size
  BY <1>1 DEF After
<1>3. After(b) = c.at /\ d.at = b.at
  OBVIOUS
<1> DEFINE ba == b.at
           bs == b.size
           ca == c.at
           cs == c.size
           xa == x.at
           xs == x.size
<1>4. /\ Off(b, x) <=> ba + HEADER + bs <= xa \/ xa + HEADER + xs <= ba
      /\ Off(c, x) <=> ca + HEADER + cs <= xa \/ xa + HEADER + xs <= ca
      /\ Off(d, x) <=> ba + HEADER + bs + HEADER + cs <= xa \/ xa + HEADER + xs <= ba
      /\ Off(b, c) <=> ba + HEADER + bs <= ca \/ ca + HEADER + cs <= ba
      /\ Off(x, b) <=> Off(b, x)
      /\ Off(x, c) <=> Off(c, x)
      /\ Off(x, d) <=> Off(d, x)
  BY <1>2, <1>3 DEF Off
<1>5. /\ ba \in Nat /\ bs \in Nat /\ ca \in Nat /\ cs \in Nat /\ xa \in Nat /\ xs \in Nat
      /\ HEADER \in Nat \ {0} /\ ba + HEADER + bs = ca
  BY <1>1, <1>2, <1>3
<1> HIDE DEF ba, bs, ca, cs, xa, xs
<1>6. /\ /\ ba + HEADER + bs <= xa \/ xa + HEADER + xs <= ba
         /\ ca + HEADER + cs <= xa \/ xa + HEADER + xs <= ca
         <=> ba + HEADER + bs + HEADER + cs <= xa \/ xa + HEADER + xs <= ba
      /\ ba + HEADER + bs <= ca
  BY <1>5
<1> QED
  BY <1>4, <1>6

\* The first i + 1 blocks are the first i and one more.
LEMMA PrefixNext ==
    ASSUME NEW h \in Seq(Blocks), NEW i \in 0 .. Len(h) - 1
    PROVE  /\ SubSeq(h, 1, i) \in Seq(Blocks)
           /\ SubSeq(h, 1, i + 1) = Append(SubSeq(h, 1, i), h[i + 1])
           /\ h[i + 1] \in Blocks
<1> DEFINE s == SubSeq(h, 1, i)
           t == SubSeq(h, 1, i + 1)
           u == Append(s, h[i + 1])
<1>1. Len(h) \in Nat /\ i \in Int /\ i + 1 \in 1 .. Len(h) /\ \A j \in 1 .. Len(h) : h[j] \in Blocks
  BY ElementOfSeq
<1>2. s \in Seq(Blocks) /\ Len(s) = i /\ \A j \in 1 .. i : s[j] = h[j]
  <2>1. \A j \in 1 .. i : h[j] \in Blocks
    BY <1>1
  <2>2. s \in Seq(Blocks) /\ \A j \in 1 .. i - 1 + 1 : s[j] = h[1 + j - 1]
    BY <1>1, <2>1, SubSeqProperties
  <2>3. Len(s) = IF 1 <= i THEN i - 1 + 1 ELSE 0
    BY <1>1, <2>1, SubSeqProperties
  <2>4. Len(s) = i
    BY <1>1, <2>3
  <2>5. i - 1 + 1 = i /\ \A j \in 1 .. i : 1 + j - 1 = j
    BY <1>1
  <2> QED
    BY <2>2, <2>4, <2>5
<1>3. t \in Seq(Blocks) /\ Len(t) = i + 1 /\ \A j \in 1 .. i + 1 : t[j] = h[j]
  <2>1. \A j \in 1 .. i + 1 : h[j] \in Blocks
    BY <1>1
  <2>2. t \in Seq(Blocks) /\ \A j \in 1 .. (i + 1) - 1 + 1 : t[j] = h[1 + j - 1]
    BY <1>1, <2>1, SubSeqProperties
  <2>3. Len(t) = IF 1 <= i + 1 THEN (i + 1) - 1 + 1 ELSE 0
    BY <1>1, <2>1, SubSeqProperties
  <2>4. Len(t) = i + 1
    BY <1>1, <2>3
  <2>5. (i + 1) - 1 + 1 = i + 1 /\ \A j \in 1 .. i + 1 : 1 + j - 1 = j
    BY <1>1
  <2> QED
    BY <2>2, <2>4, <2>5
<1> HIDE DEF s, t
<1>4. u \in Seq(Blocks) /\ Len(u) = i + 1 /\ \A j \in 1 .. i + 1 : u[j] = h[j]
  <2>1. h[i + 1] \in Blocks
    BY <1>1
  <2>2. u \in Seq(Blocks) /\ Len(u) = Len(s) + 1 /\ u[Len(s) + 1] = h[i + 1]
        /\ \A j \in 1 .. Len(s) : u[j] = s[j]
    BY <1>2, <2>1, AppendProperties
  <2> QED
    BY <1>1, <1>2, <2>2
<1>5. t = u
  BY <1>3, <1>4, SeqEqual
<1> QED
  BY <1>1, <1>2, <1>5 DEF s, t

\* What the front of a list and its last block have to do with each other.
LEMMA FrontParts ==
    ASSUME NEW h \in Seq(Blocks), Len(h) > 0, AllApart(h), AllSettled(h)
    PROVE  /\ AllApart(Front(h)) /\ AllSettled(Front(h))
           /\ \A k \in DOMAIN Front(h) : k \in DOMAIN h /\ Front(h)[k] = h[k] /\ Off(h[k], Last(h))
           /\ Len(Front(h)) > 0 => Settled(Front(h)[Len(Front(h))], Last(h))
           /\ SumOf(h) = SumOf(Front(h)) + HEADER + Last(h).size
           /\ FramesUnder(h) = FramesUnder(Front(h)) \cup Span(Last(h))
           /\ TakenIn(h) = TakenIn(Front(h)) \cup (IF Last(h).is_free THEN {} ELSE {Last(h).at})
<1> DEFINE p == Front(h)
           n == Len(h)
<1>1. /\ p \in Seq(Blocks) /\ Last(h) \in Blocks /\ h = Append(p, Last(h))
      /\ Len(p) = n - 1 /\ Last(h) = h[n] /\ \A i \in 1 .. n - 1 : p[i] = h[i]
  BY FrontLast
<1>2. n \in Nat /\ n > 0 /\ DOMAIN h = 1 .. n /\ DOMAIN p = 1 .. n - 1
  BY <1>1, LenProperties
<1>3. /\ SumOf(h) = SumOf(p) + HEADER + Last(h).size
      /\ FramesUnder(h) = FramesUnder(p) \cup Span(Last(h))
      /\ TakenIn(h) = TakenIn(p) \cup (IF Last(h).is_free THEN {} ELSE {Last(h).at})
  BY <1>1, SumAppend, UnderAppend
<1> HIDE DEF p, n
<1>4. AllApart(p)
  BY <1>1, <1>2 DEF AllApart
<1>5. ASSUME NEW i \in DOMAIN p, i > 1 PROVE Settled(p[i - 1], p[i])
  <2>1. i \in 1 .. n - 1 /\ i - 1 \in 1 .. n - 1 /\ i \in 1 .. n
    BY <1>2, <1>5
  <2>2. Settled(h[i - 1], h[i])
    BY <1>2, <1>5, <2>1 DEF AllSettled
  <2> QED
    BY <1>1, <2>1, <2>2
<1>6. ASSUME NEW k \in DOMAIN p PROVE k \in DOMAIN h /\ p[k] = h[k] /\ Off(h[k], Last(h))
  <2>1. k \in 1 .. n /\ n \in 1 .. n /\ k # n
    BY <1>2, <1>6
  <2> QED
    BY <1>1, <1>2, <1>6, <2>1 DEF AllApart
<1>7. ASSUME Len(p) > 0 PROVE Settled(p[Len(p)], Last(h))
  <2>1. n \in 1 .. n /\ n > 1 /\ n - 1 \in 1 .. n - 1
    BY <1>1, <1>2, <1>7
  <2>2. Settled(h[n - 1], h[n])
    BY <1>2, <2>1 DEF AllSettled
  <2> QED
    BY <1>1, <2>1, <2>2
<1>8. AllSettled(p)
  BY <1>5 DEF AllSettled
<1> QED
  BY <1>3, <1>4, <1>6, <1>7, <1>8 DEF p

\* One turn of kfree's loop: the list made so far covers the blocks seen so far.
LEMMA JoinStep ==
    ASSUME NEW h \in Seq(Blocks), AllApart(h), NEW i \in 0 .. Len(h) - 1,
           NEW c, NEW done, Joined(c, h, i, done)
    PROVE  Joined(c, h, i + 1, JoinTo(c, done, h[i + 1]))
<1> DEFINE b == h[i + 1]
           s == SubSeq(h, 1, i)
           t == SubSeq(h, 1, i + 1)
<1>1. s \in Seq(Blocks) /\ t = Append(s, b) /\ b \in Blocks
  BY PrefixNext
<1>2. /\ SumOf(t) = SumOf(s) + HEADER + b.size
      /\ FramesUnder(t) = FramesUnder(s) \cup Span(b)
      /\ TakenIn(t) = TakenIn(s) \cup (IF b.is_free THEN {} ELSE {b.at})
  BY <1>1, SumAppend, UnderAppend
<1>3. /\ done \in Seq(Blocks) /\ SumOf(done) = SumOf(s) /\ FramesUnder(done) = FramesUnder(s)
      /\ TakenIn(done) = TakenIn(s) /\ AllApart(done) /\ AllSettled(done)
      /\ \A k \in DOMAIN done : \A j \in i + 1 .. Len(h) : Off(done[k], h[j])
  BY DEF Joined
<1>4. /\ Len(h) \in Nat /\ DOMAIN h = 1 .. Len(h) /\ i + 1 \in 1 .. Len(h)
      /\ \A j \in 1 .. Len(h) : h[j] \in Blocks
      /\ i + 1 \in i + 1 .. Len(h)
      /\ \A j \in i + 1 + 1 .. Len(h) : j \in i + 1 .. Len(h) /\ j \in 1 .. Len(h) /\ j # i + 1
  BY ElementOfSeq
<1>5. /\ Len(done) \in Nat /\ DOMAIN done = 1 .. Len(done)
      /\ \A k \in DOMAIN done : done[k] \in Blocks
  BY <1>3, ElementOfSeq, LenProperties
<1>6. \A j \in i + 1 + 1 .. Len(h) : h[j] \in Blocks /\ Off(b, h[j])
  BY <1>4 DEF AllApart
<1> HIDE DEF b, s, t
<1>7. CASE Len(done) > 0 /\ Last(done).is_free /\ b.is_free /\ After(Last(done)) = b.at
  <2> DEFINE p == Front(done)
             l == Last(done)
             d == Block(l.at, l.size + HEADER + b.size, TRUE)
  <2>1. p \in Seq(Blocks) /\ l \in Blocks /\ Last(done) = done[Len(done)] /\ Len(done) \in DOMAIN done
    BY <1>3, <1>5, <1>7, FrontLast
  <2>2. /\ d \in Blocks /\ d.at = l.at /\ d.size = l.size + HEADER + b.size /\ d.is_free
        /\ After(l) = b.at /\ l.is_free /\ b.is_free
    <3> DEFINE ls == l.size
               bs == b.size
               ds == ls + HEADER + bs
    <3>1. l.at \in Nat \ {0} /\ ls \in Nat \ {0} /\ bs \in Nat \ {0}
      BY <1>1, <2>1 DEF Blocks
    <3>2. ds \in Nat \ {0}
      <4> HIDE DEF ls, bs
      <4> QED
        BY <3>1, Units
    <3>3. d = [at |-> l.at, size |-> ds, is_free |-> TRUE]
      BY DEF Block
    <3> HIDE DEF d
    <3>4. d.at = l.at /\ d.size = l.size + HEADER + b.size /\ d.is_free
      BY <3>3
    <3> HIDE DEF ds
    <3>5. d \in Blocks
      BY <3>1, <3>2, <3>3 DEF Blocks
    <3> QED
      BY <1>7, <3>4, <3>5
  <2>3. /\ AllApart(p) /\ AllSettled(p)
        /\ \A k \in DOMAIN p : k \in DOMAIN done /\ p[k] = done[k] /\ Off(done[k], l)
        /\ Len(p) > 0 => Settled(p[Len(p)], l)
        /\ SumOf(done) = SumOf(p) + HEADER + l.size
        /\ FramesUnder(done) = FramesUnder(p) \cup Span(l)
        /\ TakenIn(done) = TakenIn(p) \cup (IF l.is_free THEN {} ELSE {l.at})
    BY <1>3, <1>7, FrontParts
  <2> DEFINE g == Append(p, d)
  <2>4. JoinTo(c, done, b) = g
    <3>1. done # <<>>
      BY <1>7, EmptySeq
    <3> QED
      BY <1>7, <3>1 DEF JoinTo, Join
  <2> HIDE DEF p, l, d
  <2>5. /\ g \in Seq(Blocks) /\ SumOf(g) = SumOf(p) + HEADER + d.size
        /\ FramesUnder(g) = FramesUnder(p) \cup Span(d)
        /\ TakenIn(g) = TakenIn(p) \cup (IF d.is_free THEN {} ELSE {d.at})
    BY <2>1, <2>2, SumAppend, UnderAppend
  <2>6. Span(d) = Span(l) \cup Span(b)
    BY <1>1, <2>1, <2>2, SpanJoin
  <2>7. SumOf(g) = SumOf(t)
    <3> DEFINE x == SumOf(p)
               ls == l.size
               bs == b.size
               y == SumOf(g)
               z == SumOf(t)
    <3>1. PICK f : SumsOf(p, f)
      BY <2>1, SumRun
    <3>2. x \in Nat
      BY <2>1, <3>1, SumsNat DEF SumsOf
    <3>3. ls \in Nat /\ bs \in Nat /\ HEADER \in Nat
      BY <1>1, <2>1, Units DEF Blocks
    <3>4. y = x + HEADER + (ls + HEADER + bs) /\ z = (x + HEADER + ls) + HEADER + bs
      BY <1>2, <1>3, <2>2, <2>3, <2>5
    <3> HIDE DEF x, ls, bs, y, z
    <3>5. y = z
      BY <3>2, <3>3, <3>4
    <3> QED
      BY <3>5 DEF y, z
  <2>8. FramesUnder(g) = FramesUnder(t) /\ TakenIn(g) = TakenIn(t)
    BY <1>2, <1>3, <2>2, <2>3, <2>5, <2>6
  <2>9. AllApart(g)
    <3>1. ASSUME NEW k \in DOMAIN p PROVE Off(p[k], d)
      <4>1. p[k] \in Blocks /\ Off(p[k], l) /\ Off(p[k], b)
        BY <1>4, <1>3, <1>5, <2>3, <3>1 DEF b
      <4> QED
        BY <1>1, <2>1, <2>2, <4>1, OffJoin
    <3> QED
      BY <2>1, <2>2, <2>3, <3>1, ApartAppend
  <2>10. AllSettled(g)
    <3>1. ASSUME Len(p) > 0 PROVE Settled(p[Len(p)], d)
      BY <2>2, <2>3, <3>1 DEF Settled
    <3> QED
      BY <2>1, <2>2, <2>3, <3>1, SettledAppend
  <2>11. ASSUME NEW k \in DOMAIN g, NEW j \in i + 1 + 1 .. Len(h)
         PROVE  Off(g[k], h[j])
    <3>1. /\ DOMAIN p = 1 .. Len(p) /\ DOMAIN g = 1 .. Len(p) + 1 /\ Len(p) \in Nat
          /\ g[Len(p) + 1] = d /\ \A x \in 1 .. Len(p) : g[x] = p[x]
      BY <2>1, <2>2
    <3>2. h[j] \in Blocks /\ Off(b, h[j]) /\ j \in i + 1 .. Len(h)
      BY <1>4, <1>6, <2>11
    <3>3. CASE k \in DOMAIN p
      BY <1>3, <2>3, <3>1, <3>2, <3>3
    <3>4. CASE k = Len(p) + 1
      <4>1. Off(l, h[j])
        BY <1>3, <2>1, <3>2 DEF l
      <4>2. Off(d, h[j])
        BY <1>1, <2>1, <2>2, <3>2, <4>1, OffJoin
      <4> QED
        BY <3>1, <3>4, <4>2
    <3> QED
      BY <2>11, <3>1, <3>3, <3>4
  <2> HIDE DEF g
  <2>12. Joined(c, h, i + 1, g)
    BY <2>5, <2>7, <2>8, <2>9, <2>10, <2>11 DEF Joined, t
  <2> QED
    BY <2>4, <2>12 DEF b
<1>8. CASE ~(Len(done) > 0 /\ Last(done).is_free /\ b.is_free /\ After(Last(done)) = b.at)
  <2> DEFINE g == Append(done, b)
  <2>1. JoinTo(c, done, b) = g
    <3>1. done = <<>> <=> ~(Len(done) > 0)
      BY <1>3, <1>5, EmptySeq
    <3> QED
      BY <1>8, <3>1 DEF JoinTo, Join
  <2>2. /\ g \in Seq(Blocks) /\ SumOf(g) = SumOf(done) + HEADER + b.size
        /\ FramesUnder(g) = FramesUnder(done) \cup Span(b)
        /\ TakenIn(g) = TakenIn(done) \cup (IF b.is_free THEN {} ELSE {b.at})
    BY <1>1, <1>3, SumAppend, UnderAppend
  <2>3. SumOf(g) = SumOf(t) /\ FramesUnder(g) = FramesUnder(t) /\ TakenIn(g) = TakenIn(t)
    BY <1>2, <1>3, <2>2
  <2>4. AllApart(g)
    <3>1. \A k \in DOMAIN done : Off(done[k], b)
      BY <1>3, <1>4 DEF b
    <3> QED
      BY <1>1, <1>3, <3>1, ApartAppend
  <2>5. AllSettled(g)
    <3>1. ASSUME Len(done) > 0 PROVE Settled(done[Len(done)], b)
      <4>1. Last(done) = done[Len(done)]
        BY DEF Last
      <4> QED
        BY <1>8, <3>1, <4>1 DEF Settled
    <3> QED
      BY <1>1, <1>3, <3>1, SettledAppend
  <2>6. ASSUME NEW k \in DOMAIN g, NEW j \in i + 1 + 1 .. Len(h)
        PROVE  Off(g[k], h[j])
    <3>1. /\ DOMAIN g = 1 .. Len(done) + 1
          /\ g[Len(done) + 1] = b /\ \A x \in 1 .. Len(done) : g[x] = done[x]
      BY <1>1, <1>3
    <3>2. Off(b, h[j]) /\ j \in i + 1 .. Len(h)
      BY <1>4, <1>6, <2>6
    <3>3. CASE k \in DOMAIN done
      BY <1>3, <1>5, <3>1, <3>2, <3>3
    <3>4. CASE k = Len(done) + 1
      BY <3>1, <3>2, <3>4
    <3> QED
      BY <1>5, <2>6, <3>1, <3>3, <3>4
  <2> HIDE DEF g
  <2>7. Joined(c, h, i + 1, g)
    BY <2>2, <2>3, <2>4, <2>5, <2>6 DEF Joined, t
  <2> QED
    BY <2>1, <2>7 DEF b
<1> QED
  BY <1>7, <1>8

\* kfree marks one block and joins: what is taken loses it, the rest is as it was.
Marking(h, at) == [i \in DOMAIN h |-> IF h[i].at = at THEN [h[i] EXCEPT !.is_free = TRUE] ELSE h[i]]

\* Marking a block free changes only which addresses are taken.
LEMMA MarkingParts ==
    ASSUME NEW h \in Seq(Blocks), NEW at, AllApart(h)
    PROVE  /\ Marking(h, at) \in Seq(Blocks) /\ Len(Marking(h, at)) = Len(h)
           /\ SumOf(Marking(h, at)) = SumOf(h)
           /\ FramesUnder(Marking(h, at)) = FramesUnder(h)
           /\ TakenIn(Marking(h, at)) = TakenIn(h) \ {at}
           /\ AllApart(Marking(h, at))
<1> DEFINE g == Marking(h, at)
<1>1. Len(h) \in Nat /\ DOMAIN h = 1 .. Len(h) /\ \A i \in 1 .. Len(h) : h[i] \in Blocks
  BY ElementOfSeq, LenProperties
<1>2. DOMAIN g = 1 .. Len(h)
  BY <1>1 DEF Marking
<1>3. \A i \in 1 .. Len(h) :
         /\ g[i] \in Blocks /\ g[i].at = h[i].at /\ g[i].size = h[i].size
         /\ g[i].is_free = (h[i].is_free \/ h[i].at = at)
  <2>1. ASSUME NEW i \in 1 .. Len(h)
        PROVE  /\ g[i] \in Blocks /\ g[i].at = h[i].at /\ g[i].size = h[i].size
               /\ g[i].is_free = (h[i].is_free \/ h[i].at = at)
    <3>1. g[i] = IF h[i].at = at THEN [h[i] EXCEPT !.is_free = TRUE] ELSE h[i]
      BY <1>1 DEF Marking
    <3>2. h[i] \in Blocks
      BY <1>1
    <3> HIDE DEF g
    <3> QED
      BY <3>1, <3>2 DEF Blocks
  <2> QED
    BY <2>1
<1> HIDE DEF g
<1>4. g \in Seq(Blocks) /\ Len(g) = Len(h)
  <2>1. g \in [1 .. Len(h) -> Blocks]
    <3>1. g = [i \in 1 .. Len(h) |-> g[i]]
      BY <1>1, Zenon DEF Marking, g
    <3> QED
      BY <1>3, <3>1
  <2> QED
    BY <1>1, <1>2, <2>1
<1>5. SumOf(g) = SumOf(h)
  BY <1>3, <1>4, SumSame
<1>6. \A i \in 1 .. Len(h) : Span(g[i]) = Span(h[i]) /\ After(g[i]) = After(h[i])
  BY <1>3 DEF Span, After
<1>7. ToSet(g) = {g[i] : i \in 1 .. Len(h)} /\ ToSet(h) = {h[i] : i \in 1 .. Len(h)}
  BY <1>1, <1>2 DEF ToSet
<1>8. FramesUnder(g) = FramesUnder(h)
  <2>1. FramesUnder(g) = UNION {Span(g[i]) : i \in 1 .. Len(h)}
    BY <1>7 DEF FramesUnder
  <2>2. FramesUnder(h) = UNION {Span(h[i]) : i \in 1 .. Len(h)}
    BY <1>7 DEF FramesUnder
  <2> QED
    BY <1>6, <2>1, <2>2
<1>9. TakenIn(g) = TakenIn(h) \ {at}
  <2>1. \A x : x \in TakenIn(g) <=> \E i \in 1 .. Len(h) : ~g[i].is_free /\ x = g[i].at
    BY <1>7 DEF TakenIn
  <2>2. \A x : x \in TakenIn(h) <=> \E i \in 1 .. Len(h) : ~h[i].is_free /\ x = h[i].at
    BY <1>7 DEF TakenIn
  <2>3. \A x : x \in TakenIn(g) <=> x \in TakenIn(h) /\ x # at
    <3>1. \A i \in 1 .. Len(h) : g[i].at = h[i].at /\ (~g[i].is_free <=> ~h[i].is_free /\ h[i].at # at)
      BY <1>3
    <3>2. ASSUME NEW x, x \in TakenIn(g) PROVE x \in TakenIn(h) /\ x # at
      <4>1. PICK i \in 1 .. Len(h) : ~g[i].is_free /\ x = g[i].at
        BY <2>1, <3>2
      <4> QED
        BY <2>2, <3>1, <4>1
    <3>3. ASSUME NEW x, x \in TakenIn(h), x # at PROVE x \in TakenIn(g)
      <4>1. PICK i \in 1 .. Len(h) : ~h[i].is_free /\ x = h[i].at
        BY <2>2, <3>3
      <4> QED
        BY <2>1, <3>1, <3>3, <4>1
    <3> QED
      BY <3>2, <3>3
  <2> QED
    BY <2>3
<1>10. AllApart(g)
  BY <1>1, <1>2, <1>3, <1>6 DEF AllApart, Off
<1> QED
  BY <1>4, <1>5, <1>8, <1>9, <1>10 DEF g

\* kfree's loop: the same frames and addresses, and no two free neighbours left.
LEMMA JoinAll ==
    ASSUME NEW h \in Seq(Blocks), AllApart(h)
    PROVE  /\ FoldLeft(Join, <<>>, h) \in Seq(Blocks)
           /\ SumOf(FoldLeft(Join, <<>>, h)) = SumOf(h)
           /\ FramesUnder(FoldLeft(Join, <<>>, h)) = FramesUnder(h)
           /\ TakenIn(FoldLeft(Join, <<>>, h)) = TakenIn(h)
           /\ AllApart(FoldLeft(Join, <<>>, h)) /\ AllSettled(FoldLeft(Join, <<>>, h))
<1>1. FoldLeft(Join, <<>>, h) = Joins!Fold(0, <<>>, h)
  BY Zenon DEF JoinTo, Joins!Fold, Joins!MapThenFoldSet, Joins!Largest,
     FoldLeft, MapThenFoldSet, Max
<1>2. DOMAIN h = 1 .. Len(h) /\ Len(h) \in Nat
  OBVIOUS
<1>3. Joined(0, h, 0, <<>>)
  <2>1. SubSeq(h, 1, 0) = <<>>
    BY SubSeqEmpty
  <2>2. <<>> \in Seq(Blocks) /\ DOMAIN <<>> = {}
    OBVIOUS
  <2>3. AllApart(<<>>) /\ AllSettled(<<>>)
    BY <2>2 DEF AllApart, AllSettled
  <2> QED
    BY <2>1, <2>2, <2>3 DEF Joined
<1>4. \A i \in 0 .. Len(h) - 1 : \A done :
         Joined(0, h, i, done) => Joined(0, h, i + 1, JoinTo(0, done, h[i + 1]))
  BY JoinStep
<1>5. Joined(0, h, Len(h), Joins!Fold(0, <<>>, h))
  BY <1>2, <1>3, <1>4, Joins!LoopRule
<1>6. SubSeq(h, 1, Len(h)) = h
  BY SubSeqFull
<1> QED
  BY <1>1, <1>5, <1>6 DEF Joined

-----------------------------------------------------------------------------
(* The memory *)

Memories == [bitmap : SUBSET Frames, used : Nat, heap : Seq(Blocks)]
MemSound(mem) ==
    /\ mem \in Memories
    /\ mem.used = Cardinality(mem.bitmap)
    /\ HeapFrames(mem) \subseteq mem.bitmap
    /\ Tiled(mem)
Taken(mem) == TakenIn(mem.heap)

\* There are finitely many frames.
LEMMA FinitelyMany == ASSUME NEW S \in SUBSET Frames PROVE IsFiniteSet(S) /\ Cardinality(S) \in Nat
  BY FramesAssumption, FS_Subset, FS_CardinalityType DEF FramesAssumption

\* The frames of the heap are those under its list.
LEMMA HeapFramesUnder == ASSUME NEW mem PROVE HeapFrames(mem) = FramesUnder(mem.heap)
  BY DEF HeapFrames, FramesUnder, Span

\* Sound memory with the same heap and other frames marked.
LEMMA OtherFrames ==
    ASSUME NEW mem, MemSound(mem), NEW new \in Memories, new.heap = mem.heap,
           new.used = Cardinality(new.bitmap), HeapFrames(mem) \subseteq new.bitmap
    PROVE  /\ MemSound(new)
           /\ HeapFrames(new) = HeapFrames(mem) /\ Taken(new) = Taken(mem)
<1>1. HeapFrames(new) = HeapFrames(mem) /\ Taken(new) = Taken(mem)
  BY HeapFramesUnder DEF Taken
<1>2. Tiled(new)
  BY TiledParts DEF MemSound, Memories
<1> QED
  BY <1>1, <1>2 DEF MemSound

\* pmm_alloc_page marks one frame that was not marked, or there is none.
LEMMA AllocSound ==
    ASSUME NEW mem, MemSound(mem), NEW a, a = pmm_alloc_page(mem)
    PROVE  /\ MemSound(a.m) /\ a.m.heap = mem.heap /\ a.frame \in Frames \cup {0}
           /\ HeapFrames(a.m) = HeapFrames(mem) /\ Taken(a.m) = Taken(mem)
           /\ a.frame \notin mem.bitmap
           /\ a.m.bitmap = mem.bitmap \cup ({a.frame} \ {0})
           /\ a.frame = 0 => a.m = mem /\ Unmarked(mem) = {}
<1>0. Frames \subseteq Nat \ {0} /\ IsFiniteSet(Frames) /\ mem.bitmap \subseteq Frames
  BY FramesAssumption DEF FramesAssumption, MemSound, Memories
<1>1. CASE Unmarked(mem) = {}
  <2>1. a = [m |-> mem, frame |-> 0]
    BY <1>1 DEF pmm_alloc_page
  <2>2. a.m = mem /\ a.frame = 0
    BY <2>1
  <2> QED
    BY <1>0, <1>1, <2>2
<1>2. CASE Unmarked(mem) # {}
  <2> DEFINE f == Min(Unmarked(mem))
  <2>1. f \in Frames \ mem.bitmap
    <3>1. Unmarked(mem) \in SUBSET Nat
      BY <1>0 DEF Unmarked
    <3>2. f \in Unmarked(mem)
      BY <1>2, <3>1, MinIn
    <3> QED
      BY <3>2 DEF Unmarked
  <2>2. a = [m |-> Marked(mem, {f}), frame |-> f]
    BY <1>2 DEF pmm_alloc_page
  <2> HIDE DEF f
  <2>3. a.m = Marked(mem, {f}) /\ a.frame = f
    BY <2>2
  <2>4. Cardinality(mem.bitmap \cup {f}) = Cardinality(mem.bitmap) + Cardinality({f})
    BY <1>0, <2>1, FinitelyMany, FS_AddElement, FS_Singleton
  <2>5. /\ a.m \in Memories /\ a.m.heap = mem.heap /\ a.m.bitmap = mem.bitmap \cup {f}
        /\ a.m.used = Cardinality(a.m.bitmap)
    <3>1. mem \in Memories /\ mem.bitmap \cup {f} \in SUBSET Frames
          /\ Cardinality(mem.bitmap \cup {f}) \in Nat /\ mem.used = Cardinality(mem.bitmap)
      BY <1>0, <2>1, FinitelyMany DEF MemSound
    <3>2. a.m = [mem EXCEPT !.bitmap = mem.bitmap \cup {f}, !.used = Cardinality(mem.bitmap \cup {f})]
      BY <2>3, <2>4, <3>1 DEF Marked
    <3> QED
      BY <3>1, <3>2 DEF Memories
  <2>6. HeapFrames(mem) \subseteq a.m.bitmap
    BY <2>5 DEF MemSound
  <2> QED
    BY <1>0, <2>1, <2>3, <2>5, <2>6, OtherFrames
<1> QED
  BY <1>1, <1>2

\* pmm_free_page takes the mark off.
LEMMA FreeSound ==
    ASSUME NEW mem, MemSound(mem), NEW f \in mem.bitmap \ HeapFrames(mem),
           NEW new, new = pmm_free_page(mem, f)
    PROVE  /\ MemSound(new) /\ new.heap = mem.heap /\ new.bitmap = mem.bitmap \ {f}
           /\ HeapFrames(new) = HeapFrames(mem) /\ Taken(new) = Taken(mem)
<1>0. mem.bitmap \subseteq Frames
  BY DEF MemSound, Memories
<1>1. f \in Frames
  BY <1>0
<1>2. new = [mem EXCEPT !.bitmap = mem.bitmap \ {f}, !.used = mem.used - 1]
  BY <1>1 DEF pmm_free_page
<1>3. Cardinality(mem.bitmap \ {f}) = mem.used - 1
  BY <1>0, FinitelyMany, FS_RemoveElement DEF MemSound
<1>4. mem \in Memories /\ mem.bitmap \ {f} \in SUBSET Frames /\ mem.used - 1 \in Nat
  BY <1>0, <1>3, FinitelyMany DEF MemSound
<1>5. /\ new \in Memories /\ new.heap = mem.heap /\ new.bitmap = mem.bitmap \ {f}
      /\ new.used = Cardinality(new.bitmap)
  BY <1>2, <1>3, <1>4 DEF Memories
<1>6. HeapFrames(mem) \subseteq new.bitmap
  BY <1>5 DEF MemSound
<1> QED
  BY <1>5, <1>6, OtherFrames

\* kfree: one block is not taken any more, and nothing else has changed.
THEOREM KfreeSound ==
    ASSUME NEW mem, MemSound(mem), NEW at, NEW new, new = kfree(mem, at)
    PROVE  /\ MemSound(new) /\ new.bitmap = mem.bitmap
           /\ HeapFrames(new) = HeapFrames(mem) /\ Taken(new) = Taken(mem) \ {at}
<1> DEFINE h == mem.heap
           g == Marking(h, at)
           j == FoldLeft(Join, <<>>, g)
<1>1. new = [mem EXCEPT !.heap = j]
  BY Zenon DEF kfree, Marking
<1>2. h \in Seq(Blocks) /\ mem \in Memories
  BY DEF MemSound, Memories
<1>3. AllApart(h) /\ SumOf(h) = PAGE_SIZE * Cardinality(FramesUnder(h))
  BY <1>2, TiledParts DEF MemSound
<1>4. /\ g \in Seq(Blocks) /\ SumOf(g) = SumOf(h) /\ FramesUnder(g) = FramesUnder(h)
      /\ TakenIn(g) = TakenIn(h) \ {at} /\ AllApart(g)
  BY <1>2, <1>3, MarkingParts
<1> HIDE DEF g
<1>5. /\ j \in Seq(Blocks) /\ SumOf(j) = SumOf(h) /\ FramesUnder(j) = FramesUnder(h)
      /\ TakenIn(j) = TakenIn(h) \ {at} /\ AllApart(j) /\ AllSettled(j)
  BY <1>4, JoinAll
<1> HIDE DEF j
<1>6. /\ new \in Memories /\ new.heap = j /\ new.bitmap = mem.bitmap /\ new.used = mem.used
  BY <1>1, <1>2, <1>5 DEF Memories
<1>7. HeapFrames(new) = HeapFrames(mem) /\ Taken(new) = Taken(mem) \ {at}
  BY <1>5, <1>6, HeapFramesUnder DEF Taken
<1>8. Tiled(new)
  BY <1>3, <1>5, <1>6, TiledParts
<1> QED
  BY <1>6, <1>7, <1>8 DEF MemSound

-----------------------------------------------------------------------------
(* kmalloc *)

\* A block of the list replaced by others.
Spliced(h, i, s) == SubSeq(h, 1, i - 1) \o s \o SubSeq(h, i + 1, Len(h))

IsSplice(h, i, s, g) ==
    /\ g \in Seq(Blocks) /\ Len(g) = Len(h) - 1 + Len(s)
    /\ \A j \in 1 .. i - 1 : g[j] = h[j]
    /\ \A j \in 1 .. Len(s) : g[i - 1 + j] = s[j]
    /\ \A j \in i + 1 .. Len(h) : g[j - 1 + Len(s)] = h[j]

\* A list with one block replaced, place by place.
LEMMA SplicedIs ==
    ASSUME NEW h \in Seq(Blocks), NEW i \in 1 .. Len(h), NEW s \in Seq(Blocks),
           NEW g, g = Spliced(h, i, s)
    PROVE  IsSplice(h, i, s, g)
<1> DEFINE n == Len(h)
           l == Len(s)
           p == SubSeq(h, 1, i - 1)
           q == SubSeq(h, i + 1, n)
           ps == p \o s
<1>1. n \in Nat /\ l \in Nat /\ i \in 1 .. n /\ \A j \in 1 .. n : h[j] \in Blocks
  BY ElementOfSeq
<1> HIDE DEF n, l
<1>2. p \in Seq(Blocks) /\ Len(p) = i - 1 /\ \A j \in 1 .. i - 1 : p[j] = h[j]
  <2>1. i - 1 \in Int /\ \A j \in 1 .. i - 1 : h[j] \in Blocks
    BY <1>1
  <2>2. p \in Seq(Blocks) /\ \A j \in 1 .. (i - 1) - 1 + 1 : p[j] = h[1 + j - 1]
    BY <2>1, SubSeqProperties
  <2>3. Len(p) = IF 1 <= i - 1 THEN (i - 1) - 1 + 1 ELSE 0
    BY <2>1, SubSeqProperties
  <2> HIDE DEF p
  <2>4. Len(p) = i - 1
    BY <1>1, <2>3
  <2>5. (i - 1) - 1 + 1 = i - 1 /\ \A j \in 1 .. i - 1 : 1 + j - 1 = j
    BY <1>1
  <2> QED
    BY <2>2, <2>4, <2>5
<1>3. q \in Seq(Blocks) /\ Len(q) = n - i /\ \A j \in 1 .. n - i : q[j] = h[i + j]
  <2>1. i + 1 \in Int /\ n \in Int /\ \A j \in i + 1 .. n : h[j] \in Blocks
    BY <1>1
  <2>2. q \in Seq(Blocks) /\ \A j \in 1 .. n - (i + 1) + 1 : q[j] = h[(i + 1) + j - 1]
    BY <2>1, SubSeqProperties
  <2>3. Len(q) = IF i + 1 <= n THEN n - (i + 1) + 1 ELSE 0
    BY <2>1, SubSeqProperties
  <2> HIDE DEF q
  <2>4. Len(q) = n - i
    BY <1>1, <2>3
  <2>5. n - (i + 1) + 1 = n - i /\ \A j \in 1 .. n - i : (i + 1) + j - 1 = i + j
    BY <1>1
  <2> QED
    BY <2>2, <2>4, <2>5
<1>4. /\ ps \in Seq(Blocks) /\ Len(ps) = (i - 1) + l
      /\ \A j \in 1 .. (i - 1) + l : ps[j] = IF j <= i - 1 THEN p[j] ELSE s[j - (i - 1)]
  BY <1>2, ConcatProperties DEF l
<1>5. g = ps \o q
  BY DEF Spliced, n
<1> HIDE DEF p, q, ps
<1>6. /\ g \in Seq(Blocks) /\ Len(g) = ((i - 1) + l) + (n - i)
      /\ \A j \in 1 .. ((i - 1) + l) + (n - i) :
            g[j] = IF j <= (i - 1) + l THEN ps[j] ELSE q[j - ((i - 1) + l)]
  <2>1. /\ ps \o q \in Seq(Blocks) /\ Len(ps \o q) = Len(ps) + Len(q)
        /\ \A j \in 1 .. Len(ps) + Len(q) :
              (ps \o q)[j] = IF j <= Len(ps) THEN ps[j] ELSE q[j - Len(ps)]
    BY <1>3, <1>4, ConcatProperties
  <2>2. Len(ps) = (i - 1) + l /\ Len(q) = n - i
    BY <1>3, <1>4
  <2> QED
    BY <1>5, <2>1, <2>2, Zenon
<1>7. ASSUME NEW j \in 1 .. i - 1 PROVE g[j] = h[j]
  <2>1. j \in 1 .. (i - 1) + l /\ j \in 1 .. ((i - 1) + l) + (n - i) /\ j <= i - 1 /\ j <= (i - 1) + l
    BY <1>1, <1>7
  <2> QED
    BY <1>2, <1>4, <1>6, <2>1
<1>8. ASSUME NEW j \in 1 .. l PROVE g[i - 1 + j] = s[j]
  <2> DEFINE k == i - 1 + j
  <2>1. k \in 1 .. (i - 1) + l /\ k \in 1 .. ((i - 1) + l) + (n - i) /\ ~(k <= i - 1) /\ k <= (i - 1) + l
        /\ k - (i - 1) = j
    BY <1>1, <1>8
  <2> HIDE DEF k
  <2>2. g[k] = s[j]
    BY <1>4, <1>6, <2>1
  <2> QED
    BY <2>2 DEF k
<1>9. ASSUME NEW j \in i + 1 .. n PROVE g[j - 1 + l] = h[j]
  <2> DEFINE k == j - 1 + l
             x == k - ((i - 1) + l)
  <2>1. k \in 1 .. ((i - 1) + l) + (n - i) /\ ~(k <= (i - 1) + l) /\ x \in 1 .. n - i /\ i + x = j
    BY <1>1, <1>9
  <2>2. g[k] = q[x]
    <3> HIDE DEF k
    <3> QED
      BY <1>6, <2>1
  <2> HIDE DEF k, x
  <2>3. g[k] = h[j]
    BY <1>3, <2>1, <2>2
  <2> QED
    BY <2>3 DEF k
<1>10. Len(g) = n - 1 + l
  BY <1>1, <1>6
<1> QED
  BY <1>6, <1>7, <1>8, <1>9, <1>10 DEF n, l, IsSplice

\* Two blocks that are off each other have two addresses.
LEMMA AtApart ==
    ASSUME NEW b \in Blocks, NEW c \in Blocks, Off(b, c)
    PROVE  b.at # c.at
<1> DEFINE ba == b.at
           bs == b.size
           ca == c.at
           cs == c.size
<1>1. ba \in Nat /\ bs \in Nat /\ ca \in Nat /\ cs \in Nat /\ HEADER \in Nat \ {0}
  BY Units DEF Blocks
<1>2. ba + HEADER + bs <= ca \/ ca + HEADER + cs <= ba
  BY DEF Off, After
<1> HIDE DEF ba, bs, ca, cs
<1>3. ba # ca
  BY <1>1, <1>2
<1> QED
  BY <1>3 DEF ba, ca

\* A free block of a list is taken as it is.
Retake(h, i, g) ==
    /\ g \in Seq(Blocks) /\ Len(g) = Len(h) /\ h[i].is_free /\ ~g[i].is_free
    /\ g[i].at = h[i].at /\ g[i].size = h[i].size
    /\ \A j \in 1 .. Len(h) : j # i => g[j] = h[j]

\* A free block is taken whole: the rest of the heap is as it was.
LEMMA RetakeParts ==
    ASSUME NEW h \in Seq(Blocks), AllApart(h), AllSettled(h), NEW i \in 1 .. Len(h),
           NEW g, Retake(h, i, g)
    PROVE  /\ SumOf(g) = SumOf(h) /\ FramesUnder(g) = FramesUnder(h)
           /\ TakenIn(g) = TakenIn(h) \cup {h[i].at}
           /\ AllApart(g) /\ AllSettled(g)
<1> DEFINE n == Len(h)
<1>1. /\ n \in Nat /\ i \in 1 .. n /\ DOMAIN h = 1 .. n /\ DOMAIN g = 1 .. n
      /\ g \in Seq(Blocks) /\ Len(g) = n
  BY LenProperties DEF Retake
<1>2. /\ \A j \in 1 .. n : j # i => g[j] = h[j]
      /\ h[i].is_free /\ ~g[i].is_free /\ g[i].at = h[i].at /\ g[i].size = h[i].size
  BY DEF Retake
<1>3. \A j \in 1 .. n : g[j].at = h[j].at /\ g[j].size = h[j].size /\ (g[j].is_free => h[j].is_free)
  BY <1>2
<1>4. SumOf(g) = SumOf(h)
  BY <1>1, <1>3, SumSame
<1> HIDE DEF n
<1>5. \A j \in 1 .. n : Span(g[j]) = Span(h[j]) /\ After(g[j]) = After(h[j])
  BY <1>3 DEF Span, After
<1>6. ToSet(g) = {g[j] : j \in 1 .. n} /\ ToSet(h) = {h[j] : j \in 1 .. n}
  BY <1>1 DEF ToSet
<1>7. FramesUnder(g) = FramesUnder(h)
  <2>1. FramesUnder(g) = UNION {Span(g[j]) : j \in 1 .. n}
    BY <1>6 DEF FramesUnder
  <2>2. FramesUnder(h) = UNION {Span(h[j]) : j \in 1 .. n}
    BY <1>6 DEF FramesUnder
  <2> QED
    BY <1>5, <2>1, <2>2
<1>8. TakenIn(g) = TakenIn(h) \cup {h[i].at}
  <2>1. \A x : x \in TakenIn(g) <=> \E j \in 1 .. n : ~g[j].is_free /\ x = g[j].at
    BY <1>6 DEF TakenIn
  <2>2. \A x : x \in TakenIn(h) <=> \E j \in 1 .. n : ~h[j].is_free /\ x = h[j].at
    BY <1>6 DEF TakenIn
  <2>3. ASSUME NEW x \in TakenIn(g) PROVE x \in TakenIn(h) \cup {h[i].at}
    BY <1>2, <1>3, <2>1, <2>2
  <2>4. ASSUME NEW x \in TakenIn(h) PROVE x \in TakenIn(g)
    BY <1>3, <2>1, <2>2
  <2>5. h[i].at \in TakenIn(g)
    BY <1>1, <1>2, <2>1
  <2> QED
    BY <2>3, <2>4, <2>5
<1>9. AllApart(g)
  BY <1>1, <1>3, <1>5 DEF AllApart, Off
<1>10. ASSUME NEW j \in DOMAIN g, j > 1 PROVE Settled(g[j - 1], g[j])
  <2>1. j \in 1 .. n /\ j - 1 \in 1 .. n
    BY <1>1, <1>10
  <2>2. Settled(h[j - 1], h[j])
    BY <1>1, <1>10 DEF AllSettled
  <2> QED
    BY <1>3, <1>5, <2>1, <2>2 DEF Settled
<1>11. AllSettled(g)
  BY <1>10 DEF AllSettled
<1> QED
  BY <1>4, <1>7, <1>8, <1>9, <1>11

\* A free block of a list is split and its first part taken.
SplitParts(h, i, g) == SplitIn(h, i, g) /\ h[i].is_free /\ ~g[i].is_free /\ g[i + 1].is_free

\* A free block is taken and split: the rest of the heap is as it was.
LEMMA SplitKeeps ==
    ASSUME NEW h \in Seq(Blocks), AllApart(h), AllSettled(h), NEW i \in 1 .. Len(h),
           NEW g, SplitParts(h, i, g)
    PROVE  /\ SumOf(g) = SumOf(h) /\ FramesUnder(g) = FramesUnder(h)
           /\ TakenIn(g) = TakenIn(h) \cup {h[i].at}
           /\ AllApart(g) /\ AllSettled(g)
<1> DEFINE n == Len(h)
           b == g[i]
           c == g[i + 1]
           d == h[i]
           old(j) == IF j <= i THEN j ELSE j - 1
<1>1. SumOf(g) = SumOf(h)
  BY SumSplit DEF SplitParts
<1>2. /\ n \in Nat /\ i \in 1 .. n /\ DOMAIN h = 1 .. n /\ DOMAIN g = 1 .. n + 1
      /\ g \in Seq(Blocks) /\ Len(g) = n + 1
      /\ \A j \in 1 .. i - 1 : g[j] = h[j]
      /\ \A j \in i + 1 .. n : g[j + 1] = h[j]
  BY LenProperties DEF SplitParts, SplitIn
<1>3. /\ \A j \in 1 .. n : h[j] \in Blocks
      /\ \A j \in 1 .. n + 1 : g[j] \in Blocks
  BY <1>2, ElementOfSeq
<1>4. i + 1 \in 1 .. n + 1 /\ i \in 1 .. n + 1
  BY <1>2
<1>5. /\ b \in Blocks /\ c \in Blocks /\ d \in Blocks /\ After(b) = c.at /\ d.at = b.at
      /\ d.size = b.size + HEADER + c.size /\ ~b.is_free /\ c.is_free /\ d.is_free
  BY <1>2, <1>3, <1>4 DEF SplitParts, SplitIn
<1>6. Span(d) = Span(b) \cup Span(c) /\ After(d) = After(c)
  BY <1>5, SpanJoin
<1>7. ASSUME NEW j \in 1 .. n + 1, j # i, j # i + 1
      PROVE  old(j) \in 1 .. n /\ old(j) # i /\ g[j] = h[old(j)]
  <2>1. CASE j < i
    BY <1>2, <1>7, <2>1
  <2>2. CASE j > i + 1
    <3>1. j - 1 \in i + 1 .. n /\ (j - 1) + 1 = j /\ ~(j <= i)
      BY <1>2, <1>7, <2>2
    <3>2. g[(j - 1) + 1] = h[j - 1]
      BY <1>2, <3>1
    <3> QED
      BY <1>2, <3>1, <3>2
  <2> QED
    BY <1>2, <1>7, <2>1, <2>2
<1>8. ASSUME NEW k \in 1 .. n, k # i
      PROVE  \E j \in 1 .. n + 1 : j # i /\ j # i + 1 /\ g[j] = h[k]
  <2>1. CASE k < i
    <3>1. k \in 1 .. i - 1 /\ k \in 1 .. n + 1 /\ k # i + 1
      BY <1>2, <1>8, <2>1
    <3> QED
      BY <1>2, <1>8, <3>1
  <2>2. CASE k > i
    <3>1. k \in i + 1 .. n /\ k + 1 \in 1 .. n + 1 /\ k + 1 # i /\ k + 1 # i + 1
      BY <1>2, <1>8, <2>2
    <3> QED
      BY <1>2, <3>1
  <2> QED
    BY <1>2, <1>8, <2>1, <2>2
<1>9. ToSet(g) = {g[j] : j \in 1 .. n + 1} /\ ToSet(h) = {h[j] : j \in 1 .. n}
  BY <1>2 DEF ToSet
<1> DEFINE others == {h[j] : j \in {k \in 1 .. n : k # i}}
<1>11. ToSet(h) = others \cup {d}
  BY <1>2, <1>9
<1>12. ToSet(g) = others \cup {b, c}
  <2>1. ASSUME NEW x \in ToSet(g) PROVE x \in others \cup {b, c}
    <3>1. PICK j \in 1 .. n + 1 : x = g[j]
      BY <1>9, <2>1
    <3>2. CASE j # i /\ j # i + 1
      <4>1. old(j) \in 1 .. n /\ old(j) # i /\ x = h[old(j)]
        BY <1>7, <3>1, <3>2
      <4> HIDE DEF old
      <4> QED
        BY <4>1
    <3> QED
      BY <3>1, <3>2
  <2>2. ASSUME NEW x \in others PROVE x \in ToSet(g)
    <3>1. PICK k \in 1 .. n : k # i /\ x = h[k]
      BY <2>2
    <3> QED
      BY <1>8, <1>9, <3>1
  <2>3. b \in ToSet(g) /\ c \in ToSet(g)
    BY <1>4, <1>9
  <2> QED
    BY <2>1, <2>2, <2>3
<1> HIDE DEF n, b, c, d, others
<1>13. FramesUnder(g) = FramesUnder(h)
  BY <1>6, <1>11, <1>12 DEF FramesUnder
<1>14. TakenIn(g) = TakenIn(h) \cup {d.at}
  BY <1>5, <1>11, <1>12 DEF TakenIn
<1>15. ASSUME NEW j \in 1 .. n + 1, j # i, j # i + 1 PROVE Off(b, g[j]) /\ Off(c, g[j])
  <2>1. /\ old(j) \in 1 .. n /\ old(j) # i /\ g[j] = h[old(j)]
    BY <1>7, <1>15
  <2>2. Off(d, h[old(j)])
    <3> HIDE DEF old
    <3> QED
      BY <1>2, <2>1 DEF AllApart, d
  <2>3. Off(d, g[j]) /\ g[j] \in Blocks
    BY <1>3, <1>15, <2>1, <2>2
  <2> QED
    BY <1>5, <2>3, OffJoin
<1>16. Off(b, c)
  BY <1>5, OffJoin
<1>17. ASSUME NEW j \in DOMAIN g, NEW k \in DOMAIN g, j # k PROVE Off(g[j], g[k])
  <2>1. CASE j # i /\ j # i + 1 /\ k # i /\ k # i + 1
    <3>1. old(j) \in 1 .. n /\ g[j] = h[old(j)] /\ old(k) \in 1 .. n /\ g[k] = h[old(k)]
      BY <1>2, <1>7, <1>17, <2>1
    <3>2. old(j) # old(k)
      BY <1>2, <1>17, <2>1
    <3> HIDE DEF old
    <3> QED
      BY <1>2, <3>1, <3>2 DEF AllApart
  <2>2. CASE (j = i \/ j = i + 1) /\ k # i /\ k # i + 1
    BY <1>2, <1>15, <1>17, <2>2 DEF b, c
  <2>3. CASE (k = i \/ k = i + 1) /\ j # i /\ j # i + 1
    <3>1. Off(g[k], g[j])
      BY <1>2, <1>15, <1>17, <2>3 DEF b, c
    <3> QED
      BY <3>1 DEF Off
  <2>4. CASE (k = i \/ k = i + 1) /\ (j = i \/ j = i + 1)
    BY <1>16, <1>17, <2>4 DEF Off, b, c
  <2> QED
    BY <2>1, <2>2, <2>3, <2>4
<1>18. ASSUME NEW j \in DOMAIN g, j > 1 PROVE Settled(g[j - 1], g[j])
  <2>0. j \in 1 .. n + 1 /\ j - 1 \in 1 .. n + 1
    BY <1>2, <1>18
  <2>1. CASE j < i
    <3>1. j \in 1 .. n /\ j \in 1 .. i - 1 /\ j - 1 \in 1 .. i - 1
      BY <1>2, <1>18, <2>1
    <3>2. Settled(h[j - 1], h[j])
      BY <1>2, <1>18, <3>1 DEF AllSettled
    <3> QED
      BY <1>2, <3>1, <3>2
  <2>2. CASE j = i
    BY <1>5, <2>2 DEF Settled, b
  <2>3. CASE j = i + 1
    <3>1. j - 1 = i
      BY <1>2, <2>3
    <3> QED
      BY <1>5, <3>1 DEF Settled, b
  <2>4. CASE j = i + 2
    <3>1. j - 1 = i + 1 /\ i + 1 \in 1 .. n /\ i + 1 \in i + 1 .. n /\ (i + 1) + 1 = j /\ (i + 1) - 1 = i /\ i + 1 > 1
      BY <1>2, <2>0, <2>4
    <3>2. Settled(d, h[i + 1])
      BY <1>2, <3>1 DEF AllSettled, d
    <3>3. g[j] = h[i + 1]
      BY <1>2, <3>1
    <3>4. g[j - 1] = c
      BY <3>1 DEF c
    <3> QED
      BY <1>5, <1>6, <3>2, <3>3, <3>4 DEF Settled
  <2>5. CASE j > i + 2
    <3>1. /\ j - 1 \in 1 .. n /\ j - 1 > 1 /\ j - 1 \in i + 1 .. n /\ (j - 1) + 1 = j
          /\ (j - 1) - 1 \in i + 1 .. n /\ ((j - 1) - 1) + 1 = j - 1
      BY <1>2, <2>0, <2>5
    <3>2. Settled(h[(j - 1) - 1], h[j - 1])
      BY <1>2, <3>1 DEF AllSettled
    <3>3. g[j] = h[j - 1] /\ g[j - 1] = h[(j - 1) - 1]
      BY <1>2, <3>1
    <3> QED
      BY <3>2, <3>3
  <2> QED
    BY <1>2, <2>0, <2>1, <2>2, <2>3, <2>4, <2>5
<1>19. AllApart(g) /\ AllSettled(g)
  BY <1>17, <1>18 DEF AllApart, AllSettled
<1> QED
  BY <1>1, <1>13, <1>14, <1>19 DEF d

\* The frames that kmalloc asks for hold the block.
LEMMA RowHolds ==
    ASSUME NEW size \in Nat \ {0}, NEW n, n = (size + HEADER + PAGE_SIZE - 1) \div PAGE_SIZE
    PROVE  n \in Nat \ {0} /\ n * PAGE_SIZE \in Nat /\ size + HEADER <= n * PAGE_SIZE
<1> DEFINE a == size + HEADER + PAGE_SIZE - 1
<1>1. PAGE_SIZE \in Nat \ {0} /\ HEADER \in Nat \ {0} /\ size \in Nat \ {0}
  BY Units
<1>2. a \in Nat
  BY <1>1
<1>3. n = FrameOf(a)
  BY DEF FrameOf
<1>4. n \in Nat /\ a < (n + 1) * PAGE_SIZE
  BY <1>2, <1>3, FrameOfNat
<1>5. (n + 1) * PAGE_SIZE = n * PAGE_SIZE + PAGE_SIZE /\ n * PAGE_SIZE \in Nat
  BY <1>1, <1>4, Z3
<1> DEFINE x == n * PAGE_SIZE
<1>6. x \in Nat /\ a < x + PAGE_SIZE /\ (n = 0 => x = 0)
  BY <1>1, <1>4, <1>5
<1>7. size + HEADER <= x /\ x # 0
  <2> HIDE DEF x
  <2> QED
    BY <1>1, <1>6
<1> QED
  BY <1>4, <1>5, <1>6, <1>7

\* A split leaves one block that is taken, or one and a free one behind it.
LEMMA SplitIs ==
    ASSUME NEW b \in Blocks, NEW size \in Nat \ {0}
    PROVE  \/ /\ Split(b, size) = <<Block(b.at, b.size, FALSE)>>
              /\ Block(b.at, b.size, FALSE) \in Blocks
           \/ \E c, d \in Blocks :
                 /\ Split(b, size) = <<c, d>> /\ ~c.is_free /\ d.is_free
                 /\ c.at = b.at /\ After(c) = d.at /\ b.size = c.size + HEADER + d.size
<1>1. b.at \in Nat \ {0} /\ b.size \in Nat \ {0} /\ SLACK \in Nat /\ HEADER \in Nat \ {0}
  BY Units DEF Blocks
<1>2. CASE b.size > size + HEADER + SLACK
  <2> DEFINE c == Block(b.at, size, FALSE)
             d == Block(b.at + HEADER + size, b.size - size - HEADER, TRUE)
             ba == b.at
             bs == b.size
  <2>1. /\ ba + HEADER + size \in Nat \ {0} /\ bs - size - HEADER \in Nat \ {0}
        /\ bs = size + HEADER + (bs - size - HEADER)
    <3>1. ba \in Nat \ {0} /\ bs \in Nat \ {0} /\ bs > size + HEADER + SLACK
      BY <1>1, <1>2
    <3> HIDE DEF ba, bs
    <3> QED
      BY <1>1, <3>1
  <2>2. c \in Blocks /\ d \in Blocks
    BY <1>1, <2>1 DEF Block, Blocks
  <2>3. /\ c.at = b.at /\ c.size = size /\ ~c.is_free /\ d.is_free
        /\ d.at = b.at + HEADER + size /\ d.size = b.size - size - HEADER
    BY DEF Block
  <2>4. Split(b, size) = <<c, d>>
    BY <1>2 DEF Split
  <2> HIDE DEF c, d
  <2>5. After(c) = d.at
    BY <2>3 DEF After
  <2>6. b.size = c.size + HEADER + d.size
    BY <2>1, <2>3
  <2> QED
    BY <2>2, <2>3, <2>4, <2>5, <2>6
<1>3. CASE ~(b.size > size + HEADER + SLACK)
  <2>1. Block(b.at, b.size, FALSE) \in Blocks
    BY <1>1 DEF Block, Blocks
  <2> QED
    BY <1>3, <2>1 DEF Split
<1> QED
  BY <1>2, <1>3

\* What kmalloc makes of a list, seen from the list alone.
Given(h, g, frames, at) ==
    /\ g \in Seq(Blocks) /\ AllApart(g) /\ AllSettled(g)
    /\ SumOf(g) = SumOf(h) + PAGE_SIZE * Cardinality(frames)
    /\ FramesUnder(g) = FramesUnder(h) \cup frames
    /\ TakenIn(g) = TakenIn(h) \cup {at} /\ at \notin TakenIn(h)

\* The sum of a list is a number.
LEMMA SumIsNumber == ASSUME NEW h \in Seq(Blocks) PROVE SumOf(h) \in Nat
<1>1. PICK f : SumsOf(h, f)
  BY SumRun
<1> QED
  BY <1>1, SumsNat, SMTT(30) DEF SumsOf

\* What kmalloc puts in the place of a block that just fits.
LEMMA OneForOne ==
    ASSUME NEW h \in Seq(Blocks), NEW i \in 1 .. Len(h), NEW c \in Blocks,
           h[i].is_free, ~c.is_free, c.at = h[i].at, c.size = h[i].size
    PROVE  Retake(h, i, Spliced(h, i, <<c>>))
<1> DEFINE s == <<c>>
           g == Spliced(h, i, s)
           n == Len(h)
<1>1. s \in Seq(Blocks) /\ Len(s) = 1 /\ s[1] = c
  OBVIOUS
<1> HIDE DEF s
<1>2. /\ g \in Seq(Blocks) /\ Len(g) = n - 1 + Len(s)
      /\ \A j \in 1 .. i - 1 : g[j] = h[j]
      /\ \A j \in 1 .. Len(s) : g[i - 1 + j] = s[j]
      /\ \A j \in i + 1 .. n : g[j - 1 + Len(s)] = h[j]
  <2>1. IsSplice(h, i, s, g)
    <3>1. \A x : x = Spliced(h, i, s) => IsSplice(h, i, s, x)
      BY <1>1, SplicedIs
    <3> QED
      BY <3>1
  <2> HIDE DEF g
  <2> QED
    BY <2>1 DEF IsSplice
<1>3. n \in Nat /\ i \in 1 .. n
  OBVIOUS
<1> HIDE DEF g, n
<1>4. /\ Len(g) = n - 1 + 1 /\ g[i - 1 + 1] = c
      /\ \A j \in i + 1 .. n : g[j - 1 + 1] = h[j]
  BY <1>1, <1>2
<1>5. /\ n - 1 + 1 = n /\ i - 1 + 1 = i
      /\ \A j \in i + 1 .. n : j - 1 + 1 = j
      /\ \A j \in 1 .. n : j # i => j \in 1 .. i - 1 \/ j \in i + 1 .. n
  BY <1>3
<1>6. g[i] = c /\ Len(g) = n /\ \A j \in 1 .. n : j # i => g[j] = h[j]
  BY <1>2, <1>4, <1>5
<1>7. Retake(h, i, g)
  BY <1>2, <1>6 DEF Retake, n
<1> QED
  BY <1>7 DEF g, s

\* What kmalloc puts in the place of a block that is larger.
LEMMA TwoForOne ==
    ASSUME NEW h \in Seq(Blocks), NEW i \in 1 .. Len(h), NEW c \in Blocks, NEW d \in Blocks,
           h[i].is_free, ~c.is_free, d.is_free, c.at = h[i].at, After(c) = d.at,
           h[i].size = c.size + HEADER + d.size
    PROVE  SplitParts(h, i, Spliced(h, i, <<c, d>>))
<1> DEFINE s == <<c, d>>
           g == Spliced(h, i, s)
           n == Len(h)
<1>1. s \in Seq(Blocks) /\ Len(s) = 2 /\ s[1] = c /\ s[2] = d
  OBVIOUS
<1> HIDE DEF s
<1>2. /\ g \in Seq(Blocks) /\ Len(g) = n - 1 + Len(s)
      /\ \A j \in 1 .. i - 1 : g[j] = h[j]
      /\ \A j \in 1 .. Len(s) : g[i - 1 + j] = s[j]
      /\ \A j \in i + 1 .. n : g[j - 1 + Len(s)] = h[j]
  <2>1. IsSplice(h, i, s, g)
    <3>1. \A x : x = Spliced(h, i, s) => IsSplice(h, i, s, x)
      BY <1>1, SplicedIs
    <3> QED
      BY <3>1
  <2> HIDE DEF g
  <2> QED
    BY <2>1 DEF IsSplice
<1>3. n \in Nat /\ i \in 1 .. n
  OBVIOUS
<1> HIDE DEF g, n
<1>4. /\ Len(g) = n - 1 + 2 /\ g[i - 1 + 1] = c /\ g[i - 1 + 2] = d
      /\ \A j \in i + 1 .. n : g[j - 1 + 2] = h[j]
  BY <1>1, <1>2
<1>5. /\ n - 1 + 2 = n + 1 /\ i - 1 + 1 = i /\ i - 1 + 2 = i + 1
      /\ \A j \in i + 1 .. n : j - 1 + 2 = j + 1
  BY <1>3
<1>6. g[i] = c /\ g[i + 1] = d /\ Len(g) = n + 1 /\ \A j \in i + 1 .. n : g[j + 1] = h[j]
  BY <1>4, <1>5
<1>7. SplitParts(h, i, g)
  BY <1>2, <1>6 DEF SplitParts, SplitIn, n
<1> QED
  BY <1>7 DEF g, s

\* kmalloc with a free block that fits: its address is taken, no frame is.
LEMMA FitGiven ==
    ASSUME NEW h \in Seq(Blocks), AllApart(h), AllSettled(h), NEW i \in 1 .. Len(h), h[i].is_free,
           NEW size \in Nat \ {0}, NEW g, g = Spliced(h, i, Split(h[i], size))
    PROVE  Given(h, g, {}, h[i].at)
<1> DEFINE b == h[i]
           s == Split(b, size)
<1>1. b \in Blocks /\ b.is_free
  BY ElementOfSeq
<1>2. h[i].at \notin TakenIn(h)
  <2>1. SUFFICES ASSUME NEW j \in DOMAIN h, ~h[j].is_free, h[j].at = b.at PROVE FALSE
    BY DEF TakenIn, ToSet
  <2>2. DOMAIN h = 1 .. Len(h) /\ h[j] \in Blocks
    BY ElementOfSeq, LenProperties
  <2>3. j # i
    BY <2>1, <1>1
  <2>4. Off(h[j], b)
    BY <2>2, <2>3 DEF AllApart
  <2> QED
    BY <1>1, <2>1, <2>2, <2>4, AtApart
<1>3. PAGE_SIZE * Cardinality({}) = 0
  BY FS_EmptySet, Units
<1>4. SumOf(h) \in Nat
  BY SumIsNumber
<1>5. CASE s = <<Block(b.at, b.size, FALSE)>> /\ Block(b.at, b.size, FALSE) \in Blocks
  <2> DEFINE c == Block(b.at, b.size, FALSE)
  <2>1. c.at = b.at /\ c.size = b.size /\ ~c.is_free /\ c \in Blocks /\ g = Spliced(h, i, <<c>>)
    BY <1>5 DEF Block
  <2> HIDE DEF c, s
  <2>2. Retake(h, i, g)
    BY <1>1, <2>1, OneForOne
  <2>3. /\ SumOf(g) = SumOf(h) /\ FramesUnder(g) = FramesUnder(h)
        /\ TakenIn(g) = TakenIn(h) \cup {h[i].at}
        /\ AllApart(g) /\ AllSettled(g) /\ g \in Seq(Blocks)
    BY <2>2, RetakeParts DEF Retake
  <2> QED
    BY <1>2, <1>3, <1>4, <2>3 DEF Given
<1>6. ASSUME NEW c \in Blocks, NEW d \in Blocks, s = <<c, d>>, ~c.is_free, d.is_free,
             c.at = b.at, After(c) = d.at, b.size = c.size + HEADER + d.size
      PROVE  Given(h, g, {}, h[i].at)
  <2>1. g = Spliced(h, i, <<c, d>>)
    BY <1>6
  <2>2. SplitParts(h, i, g)
    BY <1>1, <1>6, <2>1, TwoForOne
  <2>3. /\ SumOf(g) = SumOf(h) /\ FramesUnder(g) = FramesUnder(h)
        /\ TakenIn(g) = TakenIn(h) \cup {h[i].at}
        /\ AllApart(g) /\ AllSettled(g)
    BY <2>2, SplitKeeps
  <2>4. g \in Seq(Blocks)
    BY <2>2 DEF SplitParts, SplitIn
  <2> QED
    BY <1>2, <1>3, <1>4, <2>3, <2>4 DEF Given
<1>7. \/ s = <<Block(b.at, b.size, FALSE)>> /\ Block(b.at, b.size, FALSE) \in Blocks
      \/ \E c, d \in Blocks :
            /\ s = <<c, d>> /\ ~c.is_free /\ d.is_free
            /\ c.at = b.at /\ After(c) = d.at /\ b.size = c.size + HEADER + d.size
  BY <1>1, SplitIs
<1> QED
  BY <1>5, <1>6, <1>7, Zenon

\* Blocks in different frames are off each other.
LEMMA OffBySpan ==
    ASSUME NEW b \in Blocks, NEW c \in Blocks, Span(b) \cap Span(c) = {}
    PROVE  Off(b, c)
<1>1. /\ b.at \in Nat /\ c.at \in Nat /\ After(b) - 1 \in Nat /\ After(c) - 1 \in Nat
      /\ b.at <= After(b) - 1 /\ c.at <= After(c) - 1
  BY Units DEF Blocks, After
<1>2. /\ FrameOf(b.at) \in Nat /\ FrameOf(c.at) \in Nat
      /\ FrameOf(After(b) - 1) \in Nat /\ FrameOf(After(c) - 1) \in Nat
      /\ FrameOf(b.at) <= FrameOf(After(b) - 1) /\ FrameOf(c.at) <= FrameOf(After(c) - 1)
  BY <1>1, FrameOfNat, FrameMono
<1> DEFINE ba == b.at
           bz == After(b)
           ca == c.at
           cz == After(c)
<1>3. ASSUME b.at <= c.at, c.at <= After(b) - 1 PROVE FALSE
  <2>1. FrameOf(b.at) <= FrameOf(c.at) /\ FrameOf(c.at) <= FrameOf(After(b) - 1)
    BY <1>1, <1>3, FrameMono
  <2>2. FrameOf(c.at) \in Span(b) /\ FrameOf(c.at) \in Span(c)
    BY <1>2, <2>1 DEF Span
  <2> QED
    BY <2>2
<1>4. ASSUME c.at <= b.at, b.at <= After(c) - 1 PROVE FALSE
  <2>1. FrameOf(c.at) <= FrameOf(b.at) /\ FrameOf(b.at) <= FrameOf(After(c) - 1)
    BY <1>1, <1>4, FrameMono
  <2>2. FrameOf(b.at) \in Span(b) /\ FrameOf(b.at) \in Span(c)
    BY <1>2, <2>1 DEF Span
  <2> QED
    BY <2>2
<1>5. /\ ba \in Nat /\ ca \in Nat /\ bz \in Int /\ cz \in Int
      /\ ~(ba <= ca /\ ca <= bz - 1) /\ ~(ca <= ba /\ ba <= cz - 1)
  BY <1>1, <1>3, <1>4, Units DEF Blocks, After
<1> HIDE DEF ba, bz, ca, cz
<1>6. bz <= ca \/ cz <= ba
  BY <1>5
<1> QED
  BY <1>6 DEF Off, ba, bz, ca, cz

\* A block that fills frames in a row.
Filling(start, n) == Block(start * PAGE_SIZE, (n * PAGE_SIZE) - HEADER, FALSE)

\* The block that fills a row of new frames.
LEMMA FillingIs ==
    ASSUME NEW start \in Nat \ {0}, NEW n \in Nat \ {0}, HEADER < n * PAGE_SIZE,
           NEW b, b = Filling(start, n)
    PROVE  /\ b \in Blocks /\ ~b.is_free
           /\ b.at = start * PAGE_SIZE
           /\ HEADER + b.size = n * PAGE_SIZE
           /\ Span(b) = start .. start + n - 1
<1> DEFINE P == PAGE_SIZE
           x == start * P
           y == n * P
           z == start + n - 1
<1>1. P \in Nat \ {0} /\ HEADER \in Nat \ {0}
  BY Units
<1>2. x \in Nat \ {0} /\ y \in Nat \ {0}
  BY <1>1, Z3
<1>3. z \in Nat \ {0} /\ (start + 1) * P = x + P /\ (start + n) * P = x + y /\ (z + 1) * P = z * P + P
      /\ z + 1 = start + n /\ z * P \in Nat
  BY <1>1, Z3
<1>4. b = Block(x, y - HEADER, FALSE) /\ HEADER < y
  BY DEF Filling
<1> HIDE DEF P, x, y, z
<1>5. y - HEADER \in Nat \ {0} /\ HEADER + (y - HEADER) = y
  BY <1>1, <1>2, <1>4
<1>6. b.at = x /\ b.size = y - HEADER /\ ~b.is_free /\ b \in Blocks
  BY <1>2, <1>4, <1>5 DEF Block, Blocks
<1>7. After(b) = x + y
  <2>1. x + HEADER + (y - HEADER) = x + y
    BY <1>1, <1>2
  <2> QED
    BY <1>6, <2>1 DEF After
<1>8. FrameOf(x) = start
  <2>1. start * P <= x /\ x < (start + 1) * P
    BY <1>1, <1>2, <1>3 DEF x
  <2>2. FrameOf(x) \in start .. start + 1 - 1
    BY <1>2, <2>1, FrameBounds DEF P
  <2> QED
    BY <2>2
<1>9. FrameOf(x + y - 1) = z
  <2>1. x + y - 1 \in Nat /\ x + y - 1 < (z + 1) * P /\ z * P <= x + y - 1
    BY <1>1, <1>2, <1>3
  <2>2. FrameOf(x + y - 1) \in z .. z + 1 - 1
    BY <1>3, <2>1, FrameBounds DEF P
  <2> QED
    BY <1>3, <2>2
<1>10. Span(b) = start .. z
  <2>1. After(b) - 1 = x + y - 1
    BY <1>2, <1>7
  <2>2. FrameOf(b.at) = start
    BY <1>6, <1>8
  <2>3. FrameOf(After(b) - 1) = z
    BY <1>9, <2>1
  <2> QED
    BY <2>2, <2>3 DEF Span
<1>11. ~b.is_free /\ b \in Blocks /\ b.at = x /\ HEADER + b.size = y
  BY <1>5, <1>6
<1>12. /\ b.at = start * PAGE_SIZE /\ HEADER + b.size = n * PAGE_SIZE
       /\ Span(b) = start .. start + n - 1
  BY <1>10, <1>11, Zenon DEF x, y, z, P
<1> QED
  BY <1>11, <1>12, Zenon

\* A block is put behind the list.
Put(h, b, g) ==
    /\ g \in Seq(Blocks) /\ AllApart(g) /\ AllSettled(g)
    /\ SumOf(g) = SumOf(h) + HEADER + b.size
    /\ FramesUnder(g) = FramesUnder(h) \cup Span(b)
    /\ TakenIn(g) = TakenIn(h) \cup {b.at} /\ b.at \notin TakenIn(h)

\* A block in frames the list has nothing in is put behind it, and may be split.
LEMMA AppendGiven ==
    ASSUME NEW h \in Seq(Blocks), AllApart(h), AllSettled(h), NEW b \in Blocks, ~b.is_free,
           Span(b) \cap FramesUnder(h) = {}, NEW g, g = Append(h, b)
    PROVE  Put(h, b, g)
<1>1. /\ DOMAIN h = 1 .. Len(h)
      /\ \A k \in DOMAIN h : h[k] \in Blocks /\ Span(h[k]) \subseteq FramesUnder(h)
  BY ElementOfSeq, LenProperties DEF FramesUnder, ToSet
<1>2. ASSUME NEW k \in DOMAIN h PROVE Off(h[k], b) /\ h[k].at # b.at
  <2>1. h[k] \in Blocks /\ Span(h[k]) \cap Span(b) = {}
    BY <1>1, <1>2
  <2> QED
    BY <2>1, OffBySpan, AtApart
<1>3. AllApart(g)
  BY <1>2, ApartAppend
<1>4. AllSettled(g)
  <2>1. \A x : Settled(x, b)
    BY DEF Settled
  <2> QED
    BY <2>1, SettledAppend
<1>5. b.at \notin TakenIn(h)
  BY <1>2 DEF TakenIn, ToSet
<1> QED
  BY <1>3, <1>4, <1>5, SumAppend, UnderAppend DEF Put

\* New frames behind the list as two blocks.
LEMMA SplitAppend ==
    ASSUME NEW h \in Seq(Blocks), AllApart(h), AllSettled(h),
           NEW b \in Blocks, NEW c \in Blocks, NEW d \in Blocks, ~c.is_free, d.is_free,
           Span(b) \cap FramesUnder(h) = {},
           After(c) = d.at, b.at = c.at, b.size = c.size + HEADER + d.size,
           NEW g, g = Append(Append(h, c), d)
    PROVE  Put(h, b, g)
<1> DEFINE e == Append(h, c)
<1>1. Span(b) = Span(c) \cup Span(d)
  BY SpanJoin
<1>2. /\ e \in Seq(Blocks) /\ AllApart(e) /\ AllSettled(e)
      /\ SumOf(e) = SumOf(h) + HEADER + c.size
      /\ FramesUnder(e) = FramesUnder(h) \cup Span(c)
      /\ TakenIn(e) = TakenIn(h) \cup {c.at} /\ c.at \notin TakenIn(h)
  <2>1. Span(c) \cap FramesUnder(h) = {}
    BY <1>1
  <2> HIDE DEF e
  <2>2. \A x : x = Append(h, c) => Put(h, c, x)
    BY <2>1, AppendGiven
  <2> QED
    BY <2>2 DEF e, Put
<1>3. /\ Len(h) \in Nat /\ DOMAIN e = 1 .. Len(h) + 1 /\ Len(e) = Len(h) + 1 /\ e[Len(h) + 1] = c
      /\ DOMAIN h = 1 .. Len(h) /\ \A k \in 1 .. Len(h) : e[k] = h[k]
  OBVIOUS
<1> HIDE DEF e
<1>4. Off(c, d)
  BY OffJoin
<1>5. ASSUME NEW k \in DOMAIN e PROVE Off(e[k], d)
  <2>1. CASE k = Len(h) + 1
    BY <1>3, <1>4, <2>1
  <2>2. CASE k \in 1 .. Len(h)
    <3>1. h[k] \in Blocks /\ Span(h[k]) \subseteq FramesUnder(h)
      BY <1>3, <2>2, ElementOfSeq DEF FramesUnder, ToSet
    <3>2. Span(h[k]) \cap Span(d) = {}
      BY <1>1, <3>1
    <3> QED
      BY <1>3, <2>2, <3>1, <3>2, OffBySpan
  <2> QED
    BY <1>3, <1>5, <2>1, <2>2
<1>6. g = Append(e, d)
  BY DEF e
<1>7. AllApart(g)
  BY <1>2, <1>5, <1>6, ApartAppend
<1>8. AllSettled(g)
  <2>1. Settled(e[Len(e)], d)
    BY <1>3 DEF Settled
  <2> QED
    BY <1>2, <1>6, <2>1, SettledAppend
<1>9. SumOf(g) = SumOf(e) + HEADER + d.size
  BY <1>2, <1>6, SumAppend
<1>10. SumOf(g) = SumOf(h) + HEADER + b.size
  <2> DEFINE x == SumOf(h)
             y == c.size
             z == d.size
             w == b.size
  <2>1. /\ x \in Nat /\ y \in Nat /\ z \in Nat /\ HEADER \in Nat /\ w = y + HEADER + z
    BY SumIsNumber, Units DEF Blocks
  <2>2. SumOf(g) = x + HEADER + y + HEADER + z
    BY <1>2, <1>9
  <2> HIDE DEF x, y, z, w
  <2>3. x + HEADER + y + HEADER + z = x + HEADER + w
    BY <2>1
  <2> QED
    BY <2>2, <2>3 DEF x, w
<1>11. /\ g \in Seq(Blocks) /\ FramesUnder(g) = FramesUnder(e) \cup Span(d)
       /\ TakenIn(g) = TakenIn(e)
  BY <1>2, <1>6, UnderAppend
<1> QED
  BY <1>1, <1>2, <1>7, <1>8, <1>10, <1>11 DEF Put

\* Lists of blocks are joined in any order.
LEMMA BlocksAssociate ==
    ASSUME NEW h \in Seq(Blocks), NEW s \in Seq(Blocks), NEW t \in Seq(Blocks)
    PROVE  (h \o s) \o t = h \o (s \o t)
  BY ConcatAssociative

\* Two blocks as a list.
LEMMA PairIsConcat ==
    ASSUME NEW c \in Blocks, NEW d \in Blocks
    PROVE  <<c>> \in Seq(Blocks) /\ <<d>> \in Seq(Blocks) /\ <<c, d>> = <<c>> \o <<d>>
<1> DEFINE s == <<c>>
           t == <<d>>
           e == <<c, d>>
           u == s \o t
<1>1. /\ s \in Seq(Blocks) /\ Len(s) = 1 /\ s[1] = c
      /\ t \in Seq(Blocks) /\ Len(t) = 1 /\ t[1] = d
      /\ e \in Seq(Blocks) /\ Len(e) = 2 /\ e[1] = c /\ e[2] = d
  OBVIOUS
<1> HIDE DEF s, t, e
<1>2. /\ u \in Seq(Blocks) /\ Len(u) = Len(s) + Len(t)
      /\ \A i \in 1 .. Len(s) + Len(t) : u[i] = IF i <= Len(s) THEN s[i] ELSE t[i - Len(s)]
  BY <1>1, ConcatProperties
<1> HIDE DEF u
<1>3. Len(u) = 2 /\ u[1] = c /\ u[2] = d
  BY <1>1, <1>2
<1>4. \A i \in 1 .. Len(e) : e[i] = u[i]
  <2>1. \A i \in 1 .. 2 : i = 1 \/ i = 2
    OBVIOUS
  <2> QED
    BY <1>1, <1>3, <2>1
<1>5. e = u
  BY <1>1, <1>2, <1>3, <1>4, SeqEqual
<1> QED
  BY <1>1, <1>5 DEF s, t, e, u

\* kmalloc with a row of new frames: their address is taken, and they are the heap's.
LEMMA NewRowGiven ==
    ASSUME NEW h \in Seq(Blocks), AllApart(h), AllSettled(h), NEW size \in Nat \ {0},
           NEW start \in Nat \ {0}, NEW n \in Nat \ {0}, size + HEADER <= n * PAGE_SIZE,
           start .. start + n - 1 \cap FramesUnder(h) = {},
           NEW g, g = h \o Split(Filling(start, n), size)
    PROVE  Given(h, g, start .. start + n - 1, start * PAGE_SIZE)
<1> DEFINE b == Filling(start, n)
           rows == start .. start + n - 1
<1>1. HEADER < n * PAGE_SIZE
  <2>1. HEADER \in Nat /\ n * PAGE_SIZE \in Nat
    BY Units
  <2> DEFINE y == n * PAGE_SIZE
  <2>2. y \in Nat /\ size + HEADER <= y
    BY <2>1
  <2> HIDE DEF y
  <2>3. HEADER < y
    BY <2>1, <2>2
  <2> QED
    BY <2>3 DEF y
<1>2. /\ b \in Blocks /\ ~b.is_free /\ b.at = start * PAGE_SIZE
      /\ HEADER + b.size = n * PAGE_SIZE /\ Span(b) = rows
  BY <1>1, FillingIs
<1>3. PAGE_SIZE * Cardinality(rows) = HEADER + b.size
  <2>1. Cardinality(rows) = n
    <3>1. start \in Int /\ start + n - 1 \in Int /\ ~(start > start + n - 1)
          /\ (start + n - 1) - start + 1 = n
      OBVIOUS
    <3> QED
      BY <3>1, FS_Interval
  <2>2. PAGE_SIZE * n = n * PAGE_SIZE
    BY Units, Z3
  <2> QED
    BY <1>2, <2>1, <2>2
<1>4. SUFFICES Put(h, b, g)
  <2>1. SumOf(h) \in Nat /\ HEADER \in Nat /\ b.size \in Nat
    BY <1>2, SumIsNumber, Units DEF Blocks
  <2>2. SumOf(h) + HEADER + b.size = SumOf(h) + (HEADER + b.size)
    BY <2>1
  <2> HIDE DEF b, rows
  <2> QED
    BY <1>2, <1>3, <2>2 DEF Given, Put, rows
<1>5. g = h \o Split(b, size)
  OBVIOUS
<1>6. Span(b) \cap FramesUnder(h) = {}
  BY <1>2
<1> HIDE DEF b, rows
<1>7. CASE Split(b, size) = <<Block(b.at, b.size, FALSE)>> /\ Block(b.at, b.size, FALSE) \in Blocks
  <2> DEFINE c == Block(b.at, b.size, FALSE)
  <2>1. c.at = b.at /\ c.size = b.size /\ ~c.is_free /\ c \in Blocks
    BY <1>7 DEF Block
  <2>2. Span(c) = Span(b)
    BY <2>1 DEF Span, After
  <2>3. g = h \o <<c>>
    BY <1>5, <1>7
  <2> HIDE DEF c
  <2>4. g = Append(h, c)
    BY <2>1, <2>3, AppendIsConcat
  <2>5. Put(h, c, g)
    BY <1>6, <2>1, <2>2, <2>4, AppendGiven
  <2> QED
    BY <2>1, <2>2, <2>5 DEF Put
<1>8. ASSUME NEW c \in Blocks, NEW d \in Blocks, Split(b, size) = <<c, d>>, ~c.is_free, d.is_free,
             c.at = b.at, After(c) = d.at, b.size = c.size + HEADER + d.size
      PROVE  Put(h, b, g)
  <2>1. g = h \o <<c, d>>
    BY <1>5, <1>8
  <2>2. g = Append(Append(h, c), d)
    <3> DEFINE s == <<c>>
               t == <<d>>
    <3>1. s \in Seq(Blocks) /\ t \in Seq(Blocks) /\ <<c, d>> = s \o t
      BY PairIsConcat
    <3>2. h \o s = Append(h, c) /\ Append(h, c) \in Seq(Blocks)
      BY AppendIsConcat, AppendProperties
    <3>3. Append(h, c) \o t = Append(Append(h, c), d)
      BY <3>2, AppendIsConcat
    <3> HIDE DEF s, t
    <3>4. (h \o s) \o t = h \o (s \o t)
      BY <3>1, BlocksAssociate
    <3> QED
      BY <2>1, <3>1, <3>2, <3>3, <3>4, Zenon
  <2> QED
    BY <1>2, <1>6, <1>8, <2>2, SplitAppend
<1>9. \/ /\ Split(b, size) = <<Block(b.at, b.size, FALSE)>>
         /\ Block(b.at, b.size, FALSE) \in Blocks
      \/ \E c, d \in Blocks :
            /\ Split(b, size) = <<c, d>> /\ ~c.is_free /\ d.is_free
            /\ c.at = b.at /\ After(c) = d.at /\ b.size = c.size + HEADER + d.size
  BY <1>2, SplitIs
<1> QED
  BY <1>7, <1>8, <1>9, Zenon

\* Memory with the list that kmalloc makes.
LEMMA GivenSound ==
    ASSUME NEW mem, MemSound(mem), NEW new \in Memories, NEW frames \in SUBSET Frames, NEW at,
           frames \cap mem.bitmap = {}, new.bitmap = mem.bitmap \cup frames,
           new.used = Cardinality(new.bitmap), Given(mem.heap, new.heap, frames, at)
    PROVE  /\ MemSound(new) /\ HeapFrames(new) = HeapFrames(mem) \cup frames
           /\ Taken(new) = Taken(mem) \cup {at} /\ at \notin Taken(mem)
<1> DEFINE h == mem.heap
           g == new.heap
           old == FramesUnder(h)
<1>1. /\ h \in Seq(Blocks) /\ g \in Seq(Blocks) /\ old \subseteq mem.bitmap /\ mem.bitmap \subseteq Frames
      /\ HeapFrames(mem) = old /\ HeapFrames(new) = FramesUnder(g)
  BY HeapFramesUnder DEF MemSound, Memories
<1>2. /\ AllApart(g) /\ AllSettled(g)
      /\ SumOf(g) = SumOf(h) + PAGE_SIZE * Cardinality(frames)
      /\ FramesUnder(g) = old \cup frames
      /\ TakenIn(g) = TakenIn(h) \cup {at} /\ at \notin TakenIn(h)
  BY DEF Given
<1>3. SumOf(h) = PAGE_SIZE * Cardinality(old)
  BY <1>1, TiledParts DEF MemSound
<1>4. /\ IsFiniteSet(old) /\ Cardinality(old) \in Nat /\ IsFiniteSet(frames) /\ Cardinality(frames) \in Nat
      /\ old \cap frames = {}
  BY <1>1, FinitelyMany
<1>5. Cardinality(old \cup frames) = Cardinality(old) + Cardinality(frames)
  <2>1. Cardinality(old \cup frames) =
           Cardinality(old) + Cardinality(frames) - Cardinality(old \cap frames)
    BY <1>4, FS_Union
  <2>2. Cardinality(old \cap frames) = 0
    BY <1>4, FS_EmptySet
  <2> QED
    BY <1>4, <2>1, <2>2
<1>6. SumOf(g) = PAGE_SIZE * Cardinality(FramesUnder(g))
  <2> DEFINE x == Cardinality(old)
             y == Cardinality(frames)
  <2>1. PAGE_SIZE \in Nat /\ x \in Nat /\ y \in Nat
    BY <1>4, Units
  <2>2. SumOf(g) = PAGE_SIZE * x + PAGE_SIZE * y
    BY <1>2, <1>3
  <2>3. Cardinality(FramesUnder(g)) = x + y
    BY <1>2, <1>5
  <2> HIDE DEF x, y
  <2>4. PAGE_SIZE * x + PAGE_SIZE * y = PAGE_SIZE * (x + y)
    BY <2>1, Z3
  <2> QED
    BY <2>2, <2>3, <2>4
<1>7. Tiled(new)
  BY <1>1, <1>2, <1>6, TiledParts
<1>8. HeapFrames(new) \subseteq new.bitmap
  BY <1>1, <1>2
<1> QED
  BY <1>1, <1>2, <1>7, <1>8 DEF MemSound, Taken

\* kmalloc: the address of one block more is taken, in frames the heap had or in
\* frames that were not marked; or there is none and nothing has changed.
KmallocIs(mem, k) ==
    /\ MemSound(k.m) /\ k.at \in Nat
    /\ mem.bitmap \subseteq k.m.bitmap
    /\ HeapFrames(k.m) = HeapFrames(mem) \cup (k.m.bitmap \ mem.bitmap)
    /\ Taken(k.m) = Taken(mem) \cup ({k.at} \ {0})
    /\ k.at \notin Taken(mem)
    /\ k.at = 0 => k.m = mem

\* kmalloc keeps the heap tiled and the count right, gives out an address that was
\* not taken, and takes for the heap only frames that were not marked.
THEOREM KmallocSound ==
    ASSUME NEW mem, MemSound(mem), NEW size \in Nat \ {0}, NEW k, k = kmalloc(mem, size)
    PROVE  KmallocIs(mem, k)
<1> DEFINE h == mem.heap
           fits == {i \in DOMAIN h : h[i].is_free /\ h[i].size >= size}
           i == Min(fits)
           n == (size + HEADER + PAGE_SIZE - 1) \div PAGE_SIZE
           rows == Rows(mem, n)
           start == Min(rows)
           new == Split(Block(start * PAGE_SIZE, (n * PAGE_SIZE) - HEADER, FALSE), size)
<1>1. /\ mem \in Memories /\ h \in Seq(Blocks) /\ mem.bitmap \subseteq Frames
      /\ mem.used = Cardinality(mem.bitmap) /\ HeapFrames(mem) \subseteq mem.bitmap
      /\ AllApart(h) /\ AllSettled(h) /\ DOMAIN h = 1 .. Len(h)
  BY TiledParts, LenProperties DEF MemSound, Memories
<1>2. k = IF fits # {}
          THEN [m |-> [mem EXCEPT !.heap = SubSeq(h, 1, i - 1) \o Split(h[i], size)
                                           \o SubSeq(h, i + 1, Len(h))],
                at |-> h[i].at]
          ELSE IF rows = {} THEN [m |-> mem, at |-> 0]
          ELSE [m |-> [Marked(mem, start .. start + n - 1) EXCEPT
                          !.heap = Marked(mem, start .. start + n - 1).heap \o new],
                at |-> start * PAGE_SIZE]
  BY Zenon DEF kmalloc
<1>3. 0 \notin Taken(mem)
  <2>1. \A b \in ToSet(h) : b \in Blocks
    BY <1>1, ElementOfSeq DEF ToSet
  <2> QED
    BY <2>1 DEF Taken, TakenIn, Blocks
<1>4. CASE fits # {}
  <2> DEFINE g == Spliced(h, i, Split(h[i], size))
  <2>1. i \in fits
    <3>1. fits \in SUBSET Nat
      BY <1>1
    <3> HIDE DEF fits
    <3> QED
      BY <1>4, <3>1, MinIn
  <2>2. k = [m |-> [mem EXCEPT !.heap = g], at |-> h[i].at]
    BY <1>2, <1>4, Zenon DEF Spliced
  <2>3. i \in 1 .. Len(h) /\ h[i].is_free
    BY <1>1, <2>1
  <2> HIDE DEF i, fits
  <2>4. h[i].at \in Nat \ {0}
    <3>1. h[i] \in Blocks
      BY <1>1, <2>3, ElementOfSeq
    <3> QED
      BY <3>1 DEF Blocks
  <2>5. Given(h, g, {}, h[i].at)
    BY <1>1, <2>3, FitGiven
  <2> HIDE DEF g
  <2>6. /\ k.m \in Memories /\ k.m.heap = g /\ k.m.bitmap = mem.bitmap \cup {}
        /\ k.m.used = Cardinality(k.m.bitmap) /\ k.at = h[i].at
    <3> DEFINE at == h[i].at
    <3>1. mem \in Memories /\ g \in Seq(Blocks) /\ mem.used = Cardinality(mem.bitmap)
      BY <1>1, <2>5 DEF Given
    <3>2. k = [m |-> [mem EXCEPT !.heap = g], at |-> at]
      BY <2>2
    <3> HIDE DEF at
    <3>3. k.at = at /\ k.m = [mem EXCEPT !.heap = g]
      BY <3>2
    <3>4. k.m \in Memories /\ k.m.heap = g /\ k.m.bitmap = mem.bitmap /\ k.m.used = mem.used
      BY <3>1, <3>3 DEF Memories
    <3> QED
      BY <3>1, <3>3, <3>4 DEF at
  <2>7. /\ MemSound(k.m) /\ HeapFrames(k.m) = HeapFrames(mem) \cup {}
        /\ Taken(k.m) = Taken(mem) \cup {k.at} /\ k.at \notin Taken(mem)
    <3>1. Given(mem.heap, k.m.heap, {}, k.at) /\ {} \in SUBSET Frames /\ {} \cap mem.bitmap = {}
      BY <2>5, <2>6
    <3> QED
      BY <2>6, <3>1, GivenSound
  <2> QED
    BY <2>4, <2>6, <2>7 DEF KmallocIs
<1>5. CASE fits = {} /\ rows = {}
  <2>1. k.m = mem /\ k.at = 0
    <3>1. k = [m |-> mem, at |-> 0]
      BY <1>2, <1>5, Zenon
    <3> QED
      BY <3>1
  <2> QED
    BY <1>3, <2>1 DEF KmallocIs
<1>6. CASE fits = {} /\ rows # {}
  <2> DEFINE g == h \o new
             row == start .. start + n - 1
             marked == Marked(mem, row)
             at == start * PAGE_SIZE
  <2>1. /\ n \in Nat \ {0} /\ size + HEADER <= n * PAGE_SIZE
    BY RowHolds
  <2> HIDE DEF n
  <2>2. start \in Frames /\ row \subseteq Unmarked(mem) /\ start \in Nat \ {0}
    <3>1. rows \in SUBSET Nat
      BY FramesAssumption DEF Rows, FramesAssumption
    <3>2. start \in rows
      <4> HIDE DEF rows
      <4> QED
        BY <1>6, <3>1, MinIn
    <3> QED
      BY <3>2, FramesAssumption DEF Rows, FramesAssumption
  <2>3. k = [m |-> [marked EXCEPT !.heap = marked.heap \o new], at |-> at]
    BY <1>2, <1>6, Zenon
  <2>4. new = Split(Filling(start, n), size)
    BY DEF Filling
  <2> HIDE DEF start, new, rows
  <2>5. row \in SUBSET Frames /\ row \cap mem.bitmap = {} /\ row \cap FramesUnder(h) = {}
    BY <1>1, <2>2, HeapFramesUnder DEF Unmarked
  <2>6. Given(h, g, row, at)
    BY <1>1, <2>1, <2>2, <2>4, <2>5, NewRowGiven
  <2>7. at \in Nat \ {0}
    BY <2>2, Units, Z3
  <2> HIDE DEF row, at
  <2>8. Cardinality(mem.bitmap \cup row) = Cardinality(mem.bitmap) + Cardinality(row)
    <3>1. /\ IsFiniteSet(mem.bitmap) /\ IsFiniteSet(row)
          /\ Cardinality(mem.bitmap) \in Nat /\ Cardinality(row) \in Nat
      BY <1>1, <2>5, FinitelyMany
    <3>2. Cardinality(mem.bitmap \cup row) =
             Cardinality(mem.bitmap) + Cardinality(row) - Cardinality(mem.bitmap \cap row)
      BY <3>1, FS_Union
    <3>3. Cardinality(mem.bitmap \cap row) = 0
      <4>1. mem.bitmap \cap row = {}
        BY <2>5
      <4> QED
        BY <4>1, FS_EmptySet
    <3> QED
      BY <3>1, <3>2, <3>3
  <2>9. marked = [mem EXCEPT !.bitmap = mem.bitmap \cup row, !.used = Cardinality(mem.bitmap \cup row)]
    BY <1>1, <2>8 DEF Marked
  <2>10. /\ mem.bitmap \cup row \in SUBSET Frames /\ Cardinality(mem.bitmap \cup row) \in Nat
    BY <1>1, <2>5, FinitelyMany
  <2> HIDE DEF marked
  <2>11. /\ marked \in Memories /\ marked.bitmap = mem.bitmap \cup row
         /\ marked.used = Cardinality(mem.bitmap \cup row) /\ marked.heap = h
    <3> DEFINE b == mem.bitmap \cup row
               u == Cardinality(b)
    <3>1. mem \in Memories /\ b \in SUBSET Frames /\ u \in Nat
      BY <1>1, <2>10
    <3>2. marked = [mem EXCEPT !.bitmap = b, !.used = u]
      BY <2>9
    <3> HIDE DEF b, u
    <3>3. marked \in Memories /\ marked.bitmap = b /\ marked.used = u /\ marked.heap = h
      BY <3>1, <3>2 DEF Memories
    <3> QED
      BY <3>3 DEF b, u
  <2>12. /\ k.m \in Memories /\ k.m.heap = g /\ k.m.bitmap = mem.bitmap \cup row
         /\ k.m.used = Cardinality(k.m.bitmap) /\ k.at = at
    <3>1. k = [m |-> [marked EXCEPT !.heap = g], at |-> at]
      BY <2>3, <2>11, Zenon
    <3>2. g \in Seq(Blocks)
      BY <2>6 DEF Given
    <3> HIDE DEF g
    <3>3. k.m = [marked EXCEPT !.heap = g] /\ k.at = at
      BY <3>1
    <3>4. k.m \in Memories /\ k.m.bitmap = marked.bitmap /\ k.m.used = marked.used /\ k.m.heap = g
      <4> DEFINE grown == k.m
      <4>1. marked \in Memories /\ g \in Seq(Blocks) /\ grown = [marked EXCEPT !.heap = g]
        BY <2>11, <3>2, <3>3
      <4> HIDE DEF g, grown
      <4>2. grown \in Memories /\ grown.bitmap = marked.bitmap /\ grown.used = marked.used /\ grown.heap = g
        BY <4>1 DEF Memories
      <4> QED
        BY <4>2 DEF grown
    <3> QED
      BY <2>11, <3>3, <3>4
  <2>13. /\ MemSound(k.m) /\ HeapFrames(k.m) = HeapFrames(mem) \cup row
         /\ Taken(k.m) = Taken(mem) \cup {at} /\ at \notin Taken(mem)
    <3>1. Given(mem.heap, k.m.heap, row, k.at)
      BY <2>6, <2>12
    <3>2. /\ k.m \in Memories /\ k.m.bitmap = mem.bitmap \cup row /\ row \in SUBSET Frames
          /\ k.m.used = Cardinality(k.m.bitmap) /\ row \cap mem.bitmap = {}
      BY <2>5, <2>12
    <3>3. /\ MemSound(k.m) /\ HeapFrames(k.m) = HeapFrames(mem) \cup row
          /\ Taken(k.m) = Taken(mem) \cup {k.at} /\ k.at \notin Taken(mem)
      BY <3>1, <3>2, GivenSound
    <3>4. k.at = at
      BY <2>12
    <3> QED
      BY <3>3, <3>4
  <2>14. k.m.bitmap \ mem.bitmap = row
    BY <2>5, <2>12
  <2> QED
    BY <2>7, <2>12, <2>13, <2>14 DEF KmallocIs
<1> QED
  BY <1>4, <1>5, <1>6

-----------------------------------------------------------------------------
(* Processes *)

Drafts == [pd : Frames \cup {0}, table : [Indices -> Frames \cup {0}],
           page : [Pages -> Frames \cup {0}], kernel_stack : Frames \cup {0}, block : Nat,
           heap_start : 0 .. 2 * Entries, heap_end : 0 .. 2 * Entries]
Drafting == [m : Memories, t : Drafts, short : BOOLEAN]

PdAt == <<"pd", 0>>
StackAt == <<"stack", 0>>
TableAt(i) == <<"table", i>>
PageAt(v) == <<"page", v>>

\* The places of a process one by one.
LEMMA Cells ==
    ASSUME NEW t
    PROVE  /\ FrameIn(t, PdAt) = t.pd /\ FrameIn(t, StackAt) = t.kernel_stack
           /\ \A i : FrameIn(t, TableAt(i)) = t.table[i]
           /\ \A v : FrameIn(t, PageAt(v)) = t.page[v]
<1>1. FrameIn(t, PdAt) = t.pd
  BY DEF FrameIn, PdAt
<1>2. FrameIn(t, StackAt) = t.kernel_stack
  BY DEF FrameIn, StackAt
<1>3. ASSUME NEW i PROVE FrameIn(t, TableAt(i)) = t.table[i]
  BY DEF FrameIn, TableAt
<1>4. ASSUME NEW v PROVE FrameIn(t, PageAt(v)) = t.page[v]
  BY DEF FrameIn, PageAt
<1> QED
  BY <1>1, <1>2, <1>3, <1>4

\* All the places there are.
LEMMA PlacesAre ==
    /\ PdAt \in Places /\ StackAt \in Places
    /\ \A i \in Indices : TableAt(i) \in Places
    /\ \A v \in Pages : PageAt(v) \in Places
    /\ \A x \in Places : \/ x = PdAt \/ x = StackAt
                         \/ \E i \in Indices : x = TableAt(i)
                         \/ \E v \in Pages : x = PageAt(v)
  BY DEF Places, PdAt, StackAt, TableAt, PageAt

\* No place is two.
LEMMA PlacesApart ==
    /\ PdAt # StackAt
    /\ \A i : TableAt(i) # PdAt /\ TableAt(i) # StackAt
    /\ \A v : PageAt(v) # PdAt /\ PageAt(v) # StackAt
    /\ \A i, v : TableAt(i) # PageAt(v)
    /\ \A i, j : TableAt(i) = TableAt(j) => i = j
    /\ \A v, w : PageAt(v) = PageAt(w) => v = w
  BY DEF PdAt, StackAt, TableAt, PageAt

\* The frames of a process are what is in its places.
LEMMA FramesOfPlaces ==
    ASSUME NEW t
    PROVE  FramesOf(t) = {FrameIn(t, x) : x \in Places} \ {0}
<1>1. ASSUME NEW f \in FramesOf(t) PROVE \E x \in Places : f = FrameIn(t, x)
  BY <1>1, Cells, PlacesAre DEF FramesOf
<1>2. ASSUME NEW x \in Places, FrameIn(t, x) # 0 PROVE FrameIn(t, x) \in FramesOf(t)
  BY <1>2, Cells, PlacesAre DEF FramesOf
<1>3. 0 \notin FramesOf(t)
  BY DEF FramesOf
<1> QED
  BY <1>1, <1>2, <1>3

\* One place of a process has another frame, and nothing else has changed.
Carries(t, new) == /\ new.block = t.block /\ new.heap_start = t.heap_start
                   /\ new.heap_end = t.heap_end
PutIn(t, x, f, new) ==
    /\ new \in Drafts /\ Carries(t, new)
    /\ \A y \in Places : FrameIn(new, y) = IF y = x THEN f ELSE FrameIn(t, y)

\* A new directory changes one place.
LEMMA PutPd ==
    ASSUME NEW t, NEW new \in Drafts, Carries(t, new), new.table = t.table, new.page = t.page,
           new.kernel_stack = t.kernel_stack
    PROVE  PutIn(t, PdAt, new.pd, new)
<1>1. ASSUME NEW y \in Places PROVE FrameIn(new, y) = IF y = PdAt THEN new.pd ELSE FrameIn(t, y)
  <2>1. CASE y = PdAt
    BY <2>1, Cells
  <2>2. CASE y = StackAt
    BY <2>2, Cells, PlacesApart
  <2>3. ASSUME NEW i \in Indices, y = TableAt(i) PROVE FrameIn(new, y) = IF y = PdAt THEN new.pd ELSE FrameIn(t, y)
    BY <2>3, Cells, PlacesApart
  <2>4. ASSUME NEW v \in Pages, y = PageAt(v) PROVE FrameIn(new, y) = IF y = PdAt THEN new.pd ELSE FrameIn(t, y)
    BY <2>4, Cells, PlacesApart
  <2> QED
    BY <1>1, <2>1, <2>2, <2>3, <2>4, PlacesAre
<1> QED
  BY <1>1 DEF PutIn

\* A new kernel stack changes one place.
LEMMA PutStack ==
    ASSUME NEW t, NEW new, new.table = t.table, new.page = t.page, new.pd = t.pd
    PROVE  \A y \in Places : FrameIn(new, y) = IF y = StackAt THEN new.kernel_stack ELSE FrameIn(t, y)
<1>1. ASSUME NEW y \in Places
      PROVE  FrameIn(new, y) = IF y = StackAt THEN new.kernel_stack ELSE FrameIn(t, y)
  <2>1. CASE y = PdAt
    BY <2>1, Cells, PlacesApart
  <2>2. CASE y = StackAt
    BY <2>2, Cells
  <2>3. ASSUME NEW i \in Indices, y = TableAt(i)
        PROVE  FrameIn(new, y) = IF y = StackAt THEN new.kernel_stack ELSE FrameIn(t, y)
    BY <2>3, Cells, PlacesApart
  <2>4. ASSUME NEW v \in Pages, y = PageAt(v)
        PROVE  FrameIn(new, y) = IF y = StackAt THEN new.kernel_stack ELSE FrameIn(t, y)
    BY <2>4, Cells, PlacesApart
  <2> QED
    BY <1>1, <2>1, <2>2, <2>3, <2>4, PlacesAre
<1> QED
  BY <1>1

\* A new table changes one place.
LEMMA PutTable ==
    ASSUME NEW t \in Drafts, NEW i \in Indices, NEW f \in Frames \cup {0},
           NEW new, new = [t EXCEPT !.table[i] = f]
    PROVE  PutIn(t, TableAt(i), f, new) /\ new.page = t.page /\ new.pd = t.pd
<1>1. /\ new \in Drafts /\ new.pd = t.pd /\ new.kernel_stack = t.kernel_stack /\ new.page = t.page
      /\ Carries(t, new) /\ new.table = [t.table EXCEPT ![i] = f] /\ t.table \in [Indices -> Frames \cup {0}]
  BY DEF Drafts, Carries
<1>2. new.table[i] = f /\ \A j \in Indices : j # i => new.table[j] = t.table[j]
  BY <1>1
<1>3. ASSUME NEW y \in Places
      PROVE  FrameIn(new, y) = IF y = TableAt(i) THEN f ELSE FrameIn(t, y)
  <2>1. CASE y = PdAt
    <3>1. FrameIn(new, y) = new.pd /\ FrameIn(t, y) = t.pd /\ y # TableAt(i)
      BY <2>1, Cells, PlacesApart
    <3>2. FrameIn(new, y) = FrameIn(t, y)
      BY <1>1, <3>1, Zenon
    <3> QED
      BY <3>1, <3>2, Zenon
  <2>2. CASE y = StackAt
    <3>1. FrameIn(new, y) = new.kernel_stack /\ FrameIn(t, y) = t.kernel_stack /\ y # TableAt(i)
      BY <2>2, Cells, PlacesApart
    <3>2. FrameIn(new, y) = FrameIn(t, y)
      BY <1>1, <3>1, Zenon
    <3> QED
      BY <3>1, <3>2, Zenon
  <2>3. ASSUME NEW j \in Indices, y = TableAt(j)
        PROVE  FrameIn(new, y) = IF y = TableAt(i) THEN f ELSE FrameIn(t, y)
    <3>1. FrameIn(new, y) = new.table[j] /\ FrameIn(t, y) = t.table[j] /\ (y = TableAt(i) <=> j = i)
      BY <2>3, Cells, PlacesApart
    <3>2. j = i => FrameIn(new, y) = f
      BY <1>2, <3>1
    <3>3. j # i => FrameIn(new, y) = FrameIn(t, y)
      BY <1>2, <2>3, <3>1
    <3> QED
      BY <3>1, <3>2, <3>3, Zenon
  <2>4. ASSUME NEW v \in Pages, y = PageAt(v)
        PROVE  FrameIn(new, y) = IF y = TableAt(i) THEN f ELSE FrameIn(t, y)
    <3>1. FrameIn(new, y) = new.page[v] /\ FrameIn(t, y) = t.page[v] /\ y # TableAt(i)
      BY <2>4, Cells, PlacesApart
    <3>2. FrameIn(new, y) = FrameIn(t, y)
      BY <1>1, <3>1, Zenon
    <3> QED
      BY <3>1, <3>2, Zenon
  <2> QED
    BY <1>3, <2>1, <2>2, <2>3, <2>4, PlacesAre
<1> QED
  BY <1>1, <1>3 DEF PutIn

\* A new page changes one place.
LEMMA PutPage ==
    ASSUME NEW t \in Drafts, NEW v \in Pages, NEW f \in Frames \cup {0},
           NEW new, new = [t EXCEPT !.page[v] = f]
    PROVE  /\ PutIn(t, PageAt(v), f, new) /\ new.table = t.table /\ new.pd = t.pd
           /\ new.page[v] = f /\ \A w \in Pages : w # v => new.page[w] = t.page[w]
<1>1. /\ new \in Drafts /\ new.pd = t.pd /\ new.kernel_stack = t.kernel_stack /\ new.table = t.table
      /\ Carries(t, new) /\ new.page = [t.page EXCEPT ![v] = f] /\ t.page \in [Pages -> Frames \cup {0}]
  BY DEF Drafts, Carries
<1>2. new.page[v] = f /\ \A w \in Pages : w # v => new.page[w] = t.page[w]
  BY <1>1
<1>3. ASSUME NEW y \in Places
      PROVE  FrameIn(new, y) = IF y = PageAt(v) THEN f ELSE FrameIn(t, y)
  <2>1. CASE y = PdAt
    <3>1. FrameIn(new, y) = new.pd /\ FrameIn(t, y) = t.pd /\ y # PageAt(v)
      BY <2>1, Cells, PlacesApart
    <3>2. FrameIn(new, y) = FrameIn(t, y)
      BY <1>1, <3>1, Zenon
    <3> QED
      BY <3>1, <3>2, Zenon
  <2>2. CASE y = StackAt
    <3>1. FrameIn(new, y) = new.kernel_stack /\ FrameIn(t, y) = t.kernel_stack /\ y # PageAt(v)
      BY <2>2, Cells, PlacesApart
    <3>2. FrameIn(new, y) = FrameIn(t, y)
      BY <1>1, <3>1, Zenon
    <3> QED
      BY <3>1, <3>2, Zenon
  <2>3. ASSUME NEW j \in Indices, y = TableAt(j)
        PROVE  FrameIn(new, y) = IF y = PageAt(v) THEN f ELSE FrameIn(t, y)
    <3>1. FrameIn(new, y) = new.table[j] /\ FrameIn(t, y) = t.table[j] /\ y # PageAt(v)
      BY <2>3, Cells, PlacesApart
    <3>2. FrameIn(new, y) = FrameIn(t, y)
      BY <1>1, <3>1, Zenon
    <3> QED
      BY <3>1, <3>2, Zenon
  <2>4. ASSUME NEW w \in Pages, y = PageAt(w)
        PROVE  FrameIn(new, y) = IF y = PageAt(v) THEN f ELSE FrameIn(t, y)
    <3>1. FrameIn(new, y) = new.page[w] /\ FrameIn(t, y) = t.page[w] /\ (y = PageAt(v) <=> w = v)
      BY <2>4, Cells, PlacesApart
    <3>2. w = v => FrameIn(new, y) = f
      BY <1>2, <3>1
    <3>3. w # v => FrameIn(new, y) = FrameIn(t, y)
      BY <1>2, <2>4, <3>1
    <3> QED
      BY <3>1, <3>2, <3>3, Zenon
  <2> QED
    BY <1>3, <2>1, <2>2, <2>3, <2>4, PlacesAre
<1> QED
  BY <1>1, <1>2, <1>3 DEF PutIn

-----------------------------------------------------------------------------
(* A process under construction *)

Distinct(t) ==
    \A x, y \in Places : FrameIn(t, x) = FrameIn(t, y) /\ FrameIn(t, x) # 0 => x = y

\* What has been made of the memory mem by giving frames to a process that had
\* those of base: each new frame is in one place, or lost again.
Kept(mem, base, s, lost) ==
    /\ s \in Drafting /\ MemSound(s.m) /\ s.m.heap = mem.heap
    /\ base \subseteq mem.bitmap /\ mem.bitmap \subseteq s.m.bitmap
    /\ Distinct(s.t)
    /\ FramesOf(s.t) \cup lost = base \cup (s.m.bitmap \ mem.bitmap)
    /\ FramesOf(s.t) \cap lost = {} /\ 0 \notin lost

\* What pmm_alloc_page returns.
AllocIs(mem, a) ==
    /\ MemSound(a.m) /\ a.m.heap = mem.heap /\ a.frame \in Frames \cup {0}
    /\ a.frame \notin mem.bitmap /\ a.m.bitmap = mem.bitmap \cup ({a.frame} \ {0})
    /\ a.frame = 0 => a.m = mem

\* An unmarked frame, or none, is put in a place; what was there is lost.
LEMMA PutKept ==
    ASSUME NEW mem, NEW base, NEW s, NEW lost, Kept(mem, base, s, lost), NEW x \in Places,
           NEW f \in Frames \cup {0}, f \notin s.m.bitmap,
           NEW new \in Drafting, PutIn(s.t, x, f, new.t), MemSound(new.m),
           new.m.heap = s.m.heap, new.m.bitmap = s.m.bitmap \cup ({f} \ {0})
    PROVE  Kept(mem, base, new, lost \cup ({FrameIn(s.t, x)} \ {0}))
<1> DEFINE In(y) == FrameIn(s.t, y)
           New(y) == FrameIn(new.t, y)
           b == s.m.bitmap
           c == new.m.bitmap
           F == FramesOf(s.t)
           G == FramesOf(new.t)
           o == In(x)
<1>1. /\ s \in Drafting /\ MemSound(s.m) /\ s.m.heap = mem.heap
      /\ base \subseteq mem.bitmap /\ mem.bitmap \subseteq b
      /\ \A y, z \in Places : In(y) = In(z) /\ In(y) # 0 => y = z
      /\ F \cup lost = base \cup (b \ mem.bitmap)
      /\ F \cap lost = {} /\ 0 \notin lost
  BY DEF Kept, Distinct
<1>2. /\ \A y \in Places : New(y) = IF y = x THEN f ELSE In(y)
      /\ c = b \cup ({f} \ {0})
  BY DEF PutIn
<1>3. F = {In(y) : y \in Places} \ {0} /\ G = {New(y) : y \in Places} \ {0}
  BY FramesOfPlaces
<1> HIDE DEF In, New, b, c, F, G
<1>4. f \notin b
  BY DEF b
<1>5. \A y \in Places : In(y) # 0 => In(y) \in b
  BY <1>1, <1>3
<1>6. \A y, z \in Places : New(y) = New(z) /\ New(y) # 0 => y = z
  BY <1>1, <1>2, <1>4, <1>5
<1>7. G = (F \ {o}) \cup ({f} \ {0})
  <2>1. ASSUME NEW g \in G PROVE g \in (F \ {o}) \cup ({f} \ {0})
    <3>1. PICK y \in Places : g = New(y) /\ g # 0
      BY <1>3, <2>1
    <3> QED
      BY <1>1, <1>2, <1>3, <3>1
  <2>2. ASSUME NEW g \in F \ {o} PROVE g \in G
    BY <1>2, <1>3, <2>2
  <2>3. f # 0 => f \in G
    BY <1>2, <1>3
  <2> QED
    BY <2>1, <2>2, <2>3
<1>8. o # 0 => o \in F
  BY <1>3
<1>9. F \subseteq b /\ lost \subseteq b
  BY <1>1
<1> HIDE DEF o
<1> DEFINE more == lost \cup ({o} \ {0})
<1>10. G \cup more = base \cup (c \ mem.bitmap)
  <2> DEFINE put == {f} \ {0}
             off == {o} \ {0}
             was == mem.bitmap
  <2>1. /\ off \subseteq F /\ put \cap b = {} /\ c = b \cup put /\ was \subseteq b
        /\ F \cup lost = base \cup (b \ was)
    BY <1>1, <1>2, <1>4, <1>8
  <2>2. G = (F \ off) \cup put
    BY <1>3, <1>7
  <2> HIDE DEF put, off, was
  <2>3. ASSUME NEW g PROVE g \in G \cup (lost \cup off) <=> g \in base \cup (c \ was)
    BY <2>1, <2>2
  <2> QED
    BY <2>3 DEF off, was
<1>11. G \cap more = {} /\ 0 \notin more
  BY <1>1, <1>4, <1>7, <1>8, <1>9
<1>12. mem.bitmap \subseteq c /\ new.m.heap = mem.heap
  BY <1>1, <1>2
<1>13. Distinct(new.t)
  BY <1>6 DEF New, Distinct
<1> QED
  <2>1. /\ FramesOf(new.t) \cup (lost \cup ({FrameIn(s.t, x)} \ {0})) = base \cup (new.m.bitmap \ mem.bitmap)
        /\ FramesOf(new.t) \cap (lost \cup ({FrameIn(s.t, x)} \ {0})) = {}
        /\ 0 \notin lost \cup ({FrameIn(s.t, x)} \ {0})
    BY <1>10, <1>11 DEF In, c, G, o
  <2>2. base \subseteq mem.bitmap /\ mem.bitmap \subseteq new.m.bitmap
    BY <1>1, <1>12 DEF c
  <2> QED
    BY <1>12, <1>13, <2>1, <2>2 DEF Kept

\* The frame f is put where was was.
Placed(s, x, f, was, new) ==
    /\ x \in Places /\ FrameIn(s.t, x) = was
    /\ f \in Frames \cup {0} /\ f \notin s.m.bitmap
    /\ new \in Drafting /\ PutIn(s.t, x, f, new.t) /\ MemSound(new.m)
    /\ new.m.heap = s.m.heap /\ new.m.bitmap = s.m.bitmap \cup ({f} \ {0})

\* An unmarked frame, or none, is put where was was.
LEMMA PlacedKept ==
    ASSUME NEW mem, NEW base, NEW s, NEW lost, Kept(mem, base, s, lost),
           NEW x, NEW f, NEW was, NEW new, Placed(s, x, f, was, new)
    PROVE  Kept(mem, base, new, lost \cup ({was} \ {0}))
<1>1. /\ x \in Places /\ f \in Frames \cup {0} /\ f \notin s.m.bitmap
      /\ new \in Drafting /\ PutIn(s.t, x, f, new.t) /\ MemSound(new.m)
      /\ new.m.heap = s.m.heap /\ new.m.bitmap = s.m.bitmap \cup ({f} \ {0})
  BY DEF Placed
<1>2. Kept(mem, base, new, lost \cup ({FrameIn(s.t, x)} \ {0}))
  BY <1>1, PutKept
<1>3. FrameIn(s.t, x) = was
  BY DEF Placed
<1> QED
  BY <1>2, <1>3, Zenon

\* The constants are numbers.
LEMMA Sizes == /\ Entries \in Nat \ {0} /\ StackPages \in 1 .. Entries
               /\ Programs \subseteq 1 .. Entries
               /\ TASK \in Nat \ {0} /\ PIPE \in Nat \ {0} /\ PHDRS \in Nat \ {0}
               /\ Buffers \subseteq Nat \ {0}
  BY EntriesAssumption, SizesAssumption DEF EntriesAssumption, SizesAssumption

\* A page is of one table.
LEMMA IndexOfIs ==
    ASSUME NEW v \in Pages
    PROVE  /\ IndexOf(v) \in Indices /\ v \in Nat
           /\ IndexOf(v) >= 1 <=> v >= Entries
<1> DEFINE P == Entries
           q == v \div P
<1>1. P \in Nat \ {0} /\ v \in Nat /\ v <= 3 * P - 1
  BY Sizes DEF Pages
<1>2. q \in Nat /\ q * P <= v /\ v < (q + 1) * P /\ IndexOf(v) = q
  BY <1>1, Z3 DEF IndexOf
<1> HIDE DEF P, q
<1>3. q <= 2
  <2>1. ASSUME 3 <= q PROVE FALSE
    <3>1. 3 * P <= q * P
      BY <1>1, <1>2, <2>1, TimesMono
    <3> QED
      BY <1>1, <1>2, <3>1
  <2> QED
    BY <1>2, <2>1
<1>4. q >= 1 => v >= P
  <2>1. ASSUME 1 <= q PROVE v >= P
    <3>1. 1 * P <= q * P /\ q * P \in Nat
      BY <1>1, <1>2, <2>1, TimesMono
    <3> QED
      BY <1>1, <1>2, <3>1
  <2> QED
    BY <1>2, <2>1
<1>5. q = 0 => v < P
  BY <1>1, <1>2
<1> QED
  BY <1>1, <1>2, <1>3, <1>4, <1>5 DEF Indices, P

\* One step of the loaders leaves the other pages, and what is not a page or a
\* table.
OnlyPage(t, v, new) ==
    /\ Carries(t, new) /\ new.pd = t.pd /\ new.kernel_stack = t.kernel_stack
    /\ \A w \in Pages : w # v => new.page[w] = t.page[w]

\* What a change of one place leaves alone.
LEMMA PutFields ==
    ASSUME NEW t, NEW x, NEW f, NEW new, PutIn(t, x, f, new)
    PROVE  /\ x # PdAt => new.pd = t.pd
           /\ x # StackAt => new.kernel_stack = t.kernel_stack
           /\ \A v \in Pages : x # PageAt(v) => new.page[v] = t.page[v]
           /\ \A i \in Indices : x # TableAt(i) => new.table[i] = t.table[i]
  BY Cells, PlacesAre DEF PutIn

\* A change of a page leaves all other fields.
LEMMA PutInPage ==
    ASSUME NEW t, NEW v \in Pages, NEW f, NEW new, PutIn(t, PageAt(v), f, new)
    PROVE  OnlyPage(t, v, new) /\ new.page[v] = f
<1>1. PageAt(v) # PdAt /\ PageAt(v) # StackAt /\ \A w : w # v => PageAt(v) # PageAt(w)
  BY PlacesApart
<1>2. new.pd = t.pd /\ new.kernel_stack = t.kernel_stack
  BY <1>1, PutFields
<1>5. Carries(t, new)
  BY DEF PutIn
<1>3. \A w \in Pages : w # v => new.page[w] = t.page[w]
  BY <1>1, PutFields
<1>4. new.page[v] = f
  BY Cells, PlacesAre DEF PutIn
<1> QED
  BY <1>2, <1>3, <1>4, <1>5 DEF OnlyPage

OnlyTable(t, i, new) ==
    /\ Carries(t, new) /\ new.pd = t.pd /\ new.kernel_stack = t.kernel_stack
    /\ \A v \in Pages : new.page[v] = t.page[v]
    /\ \A j \in Indices : j # i => new.table[j] = t.table[j]

\* A change of a table leaves all other fields.
LEMMA PutInTable ==
    ASSUME NEW t, NEW i \in Indices, NEW f, NEW new, PutIn(t, TableAt(i), f, new)
    PROVE  OnlyTable(t, i, new) /\ new.table[i] = f
<1>1. /\ TableAt(i) # PdAt /\ TableAt(i) # StackAt /\ \A w : TableAt(i) # PageAt(w)
      /\ \A j : j # i => TableAt(i) # TableAt(j)
  BY PlacesApart
<1>2. new.pd = t.pd /\ new.kernel_stack = t.kernel_stack
  BY <1>1, PutFields
<1>3. Carries(t, new)
  BY DEF PutIn
<1>4. new.table[i] = f
  BY Cells, PlacesAre DEF PutIn
<1>5. \A v \in Pages : new.page[v] = t.page[v]
  BY <1>1, PutFields
<1>6. \A j \in Indices : j # i => new.table[j] = t.table[j]
  BY <1>1, PutFields
<1> QED
  BY <1>2, <1>3, <1>4, <1>5, <1>6 DEF OnlyTable

\* A draft with other memory is a draft.
LEMMA ShortSet ==
    ASSUME NEW s \in Drafting, NEW mem \in Memories, NEW b \in BOOLEAN,
           NEW new, new = [s EXCEPT !.m = mem, !.short = b]
    PROVE  new \in Drafting /\ new.m = mem /\ new.t = s.t /\ new.short = b
  BY DEF Drafting

\* What vmm_map_page_ex makes of a process t that has the frame already.
Mapped(r, mem, a, i, t) ==
    /\ r \in Drafting /\ i \in Indices /\ t \in Drafts
    /\ t.table[i] = 0 => r.m = a.m /\ PutIn(t, TableAt(i), a.frame, r.t)
    /\ t.table[i] # 0 => r.m = mem /\ r.t = t

\* vmm_map_page_ex: the page has the frame, and its table is made when there is none.
LEMMA MapPage ==
    ASSUME NEW s \in Drafting, MemSound(s.m), NEW v \in Pages, NEW frame \in Frames \cup {0}
    PROVE  Mapped(vmm_map_page_ex(s, v, frame), s.m, pmm_alloc_page(s.m), IndexOf(v),
                  [s.t EXCEPT !.page[v] = frame])
<1> DEFINE r == vmm_map_page_ex(s, v, frame)
           a == pmm_alloc_page(s.m)
           i == IndexOf(v)
           t == [s.t EXCEPT !.page[v] = frame]
<1> DEFINE new == s.t.table[i] = 0
           short == s.short \/ (new /\ a.frame = 0)
           rt == [s.t EXCEPT !.table[i] = IF new THEN a.frame ELSE @, !.page[v] = frame]
           rm == IF new THEN a.m ELSE s.m
<1>1. s.m \in Memories /\ s.t \in Drafts /\ s.short \in BOOLEAN /\ i \in Indices
  BY IndexOfIs DEF Drafting
<1>2. a.m \in Memories /\ a.frame \in Frames \cup {0}
  BY AllocSound DEF MemSound
<1>3. r = [m |-> rm, t |-> rt, short |-> short]
  BY Zenon DEF vmm_map_page_ex
<1>4. short \in BOOLEAN
  BY Zenon
<1>5. rm \in Memories
  BY <1>1, <1>2
<1>6. /\ t \in Drafts /\ rt \in Drafts /\ t.table[i] = s.t.table[i]
      /\ new => rt = [t EXCEPT !.table[i] = a.frame]
      /\ ~new => rt = t
  <2> DEFINE T == s.t
             f == a.frame
             g == T.table[i]
  <2>1. /\ T \in Drafts /\ f \in Frames \cup {0} /\ i \in Indices /\ g = T.table[i]
        /\ t = [T EXCEPT !.page[v] = frame]
    BY <1>1, <1>2
  <2>2. new => rt = [T EXCEPT !.table[i] = f, !.page[v] = frame]
    OBVIOUS
  <2>3. ~new => rt = [T EXCEPT !.table[i] = T.table[i], !.page[v] = frame]
    OBVIOUS
  <2> HIDE DEF rt, T, f, new, g
  <2>4. t \in Drafts /\ t.table[i] = g
    BY <2>1 DEF Drafts
  <2>5. [T EXCEPT !.table[i] = f, !.page[v] = frame] = [t EXCEPT !.table[i] = f]
    BY <2>1 DEF Drafts
  <2>6. [T EXCEPT !.table[i] = T.table[i], !.page[v] = frame] = t
    BY <2>1 DEF Drafts
  <2>7. [t EXCEPT !.table[i] = f] \in Drafts
    BY <2>1, <2>4 DEF Drafts
  <2>8. /\ new => rt = [t EXCEPT !.table[i] = f]
        /\ ~new => rt = t
    BY <2>2, <2>3, <2>5, <2>6, Zenon
  <2>9. rt \in Drafts
    BY <2>4, <2>7, <2>8, Zenon
  <2> QED
    BY <2>4, <2>8, <2>9 DEF T, f, g
<1> HIDE DEF rt, rm, short, r
<1>7. r \in Drafting /\ r.m = rm /\ r.t = rt
  BY <1>3, <1>4, <1>5, <1>6 DEF Drafting
<1> HIDE DEF t, i, a
<1>8. new => PutIn(t, TableAt(i), a.frame, rt)
  BY <1>1, <1>2, <1>6, PutTable
<1>9. Mapped(r, s.m, a, i, t)
  BY <1>1, <1>6, <1>7, <1>8 DEF rm, Mapped
<1> QED
  BY <1>9 DEF r, a, i, t

\* A page mapped to a new frame: what it had before is lost, nothing else.
LEMMA MapNewKept ==
    ASSUME NEW mem, NEW base, NEW s, NEW lost, Kept(mem, base, s, lost), NEW v \in Pages,
           NEW r, r = MapNew(s, v)
    PROVE  /\ Kept(mem, base, r, lost \cup ({s.t.page[v]} \ {0}))
           /\ OnlyPage(s.t, v, r.t)
           /\ r.t.page[v] = pmm_alloc_page(s.m).frame
<1> DEFINE a == pmm_alloc_page(s.m)
           short == s.short \/ a.frame = 0
           s1 == [s EXCEPT !.m = a.m, !.short = short]
           i == IndexOf(v)
           t == [s.t EXCEPT !.page[v] = a.frame]
           u == [m |-> a.m, t |-> t, short |-> short]
           b == pmm_alloc_page(a.m)
           more == lost \cup ({s.t.page[v]} \ {0})
<1>1. /\ s \in Drafting /\ s.t \in Drafts /\ MemSound(s.m) /\ s.m \in Memories /\ s.short \in BOOLEAN
  BY DEF Kept, Drafting, MemSound
<1>2. /\ MemSound(a.m) /\ a.m.heap = s.m.heap /\ a.frame \in Frames \cup {0}
      /\ a.frame \notin s.m.bitmap /\ a.m.bitmap = s.m.bitmap \cup ({a.frame} \ {0}) /\ a.m \in Memories
  BY <1>1, AllocSound DEF MemSound
<1>3. /\ MemSound(b.m) /\ b.m.heap = a.m.heap /\ b.frame \in Frames \cup {0}
      /\ b.frame \notin a.m.bitmap /\ b.m.bitmap = a.m.bitmap \cup ({b.frame} \ {0}) /\ b.m \in Memories
  <2>1. \A c : MemSound(c) => AllocIs(c, pmm_alloc_page(c))
    BY AllocSound DEF AllocIs
  <2> HIDE DEF a
  <2> QED
    BY <1>2, <2>1 DEF AllocIs, MemSound
<1>4. short \in BOOLEAN
  BY Zenon
<1>5. r = vmm_map_page_ex(s1, v, a.frame)
  BY Zenon DEF MapNew
<1>6. s1 \in Drafting /\ s1.m = a.m /\ s1.t = s.t
  <2> HIDE DEF short, a
  <2> QED
    BY <1>1, <1>2, <1>4 DEF Drafting
<1>7. Mapped(r, a.m, b, i, t)
  <2> HIDE DEF s1, a, short
  <2>1. Mapped(r, s1.m, pmm_alloc_page(s1.m), IndexOf(v), [s1.t EXCEPT !.page[v] = a.frame])
    BY <1>2, <1>5, <1>6, MapPage, Zenon
  <2> QED
    BY <1>6, <2>1, Zenon
<1> HIDE DEF a, b, i, short, s1
<1>8. PutIn(s.t, PageAt(v), a.frame, t)
  BY <1>1, <1>2, PutPage
<1> HIDE DEF t
<1>9. u \in Drafting /\ u.t = t /\ u.m = a.m
  BY <1>2, <1>4, <1>7 DEF Drafting, Mapped
<1> HIDE DEF u
<1>10. PageAt(v) \in Places /\ FrameIn(s.t, PageAt(v)) = s.t.page[v] /\ TableAt(i) \in Places
  BY <1>7, PlacesAre, Cells DEF Mapped
<1>11. Kept(mem, base, u, more)
  <2>1. Placed(s, PageAt(v), a.frame, s.t.page[v], u)
    BY <1>2, <1>8, <1>9, <1>10 DEF Placed
  <2> QED
    BY <2>1, PlacedKept DEF more
<1>12. OnlyPage(s.t, v, t) /\ t.page[v] = a.frame
  BY <1>8, PutInPage
<1> HIDE DEF more
<1>13. CASE t.table[i] # 0
  <2>1. r.m = u.m /\ r.t = u.t /\ r \in Drafting
    BY <1>7, <1>9, <1>13 DEF Mapped
  <2>2. Kept(mem, base, r, more)
    BY <1>11, <2>1 DEF Kept
  <2> QED
    BY <1>9, <1>12, <2>1, <2>2 DEF more, a
<1>14. CASE t.table[i] = 0
  <2>1. r.m = b.m /\ PutIn(t, TableAt(i), b.frame, r.t) /\ r \in Drafting /\ i \in Indices
    BY <1>7, <1>14 DEF Mapped
  <2>3. FrameIn(u.t, TableAt(i)) = 0
    BY <1>9, <1>14, Cells
  <2>4. Kept(mem, base, r, more \cup ({0} \ {0}))
    <3>1. /\ b.frame \notin u.m.bitmap /\ PutIn(u.t, TableAt(i), b.frame, r.t) /\ MemSound(r.m)
          /\ r.m.heap = u.m.heap /\ r.m.bitmap = u.m.bitmap \cup ({b.frame} \ {0})
      BY <1>3, <1>9, <2>1
    <3> QED
      <4>1. Placed(u, TableAt(i), b.frame, 0, r)
        BY <1>3, <1>10, <2>1, <2>3, <3>1 DEF Placed
      <4> QED
        BY <1>11, <4>1, PlacedKept
  <2>5. more \cup ({0} \ {0}) = more
    OBVIOUS
  <2>6. OnlyTable(t, i, r.t)
    BY <2>1, PutInTable
  <2>7. OnlyPage(s.t, v, r.t) /\ r.t.page[v] = t.page[v]
    BY <1>12, <2>6 DEF OnlyPage, OnlyTable, Carries
  <2> QED
    BY <1>12, <2>4, <2>5, <2>7 DEF more, a
<1> QED
  BY <1>13, <1>14

\* A page is copied, or there was none.
PageCloned(mem, base, s, v, parent, r) ==
    /\ Kept(mem, base, r, {s.t.page[v]} \ {0}) \/ Kept(mem, base, r, {})
    /\ OnlyPage(s.t, v, r.t) /\ r.t.table = s.t.table
    /\ parent.page[v] = 0 => r.t.page[v] = s.t.page[v]

\* A cloned page has a frame that nobody had.
LEMMA ClonePageKept ==
    ASSUME NEW mem, NEW base, NEW s, Kept(mem, base, s, {}), NEW v \in Pages,
           NEW parent, NEW r, r = ClonePage(s, parent, v)
    PROVE  PageCloned(mem, base, s, v, parent, r)
<1> DEFINE a == pmm_alloc_page(s.m)
           short == s.short \/ a.frame = 0
           t == [s.t EXCEPT !.page[v] = a.frame]
<1>1. /\ s \in Drafting /\ s.t \in Drafts /\ MemSound(s.m) /\ s.m \in Memories /\ s.short \in BOOLEAN
  BY DEF Kept, Drafting, MemSound
<1>2. /\ MemSound(a.m) /\ a.m.heap = s.m.heap /\ a.frame \in Frames \cup {0}
      /\ a.frame \notin s.m.bitmap /\ a.m.bitmap = s.m.bitmap \cup ({a.frame} \ {0}) /\ a.m \in Memories
  BY <1>1, AllocSound DEF MemSound
<1>3. short \in BOOLEAN
  BY Zenon
<1>4. CASE parent.page[v] = 0
  <2>1. r = s
    BY <1>4, Zenon DEF ClonePage
  <2> QED
    BY <2>1 DEF OnlyPage, Carries, PageCloned
<1>5. CASE parent.page[v] # 0
  <2>1. r = [s EXCEPT !.m = a.m, !.t.page[v] = a.frame, !.short = short]
    BY <1>5, Zenon DEF ClonePage
  <2>2. t \in Drafts /\ PutIn(s.t, PageAt(v), a.frame, t) /\ t.table = s.t.table
    <3> HIDE DEF a
    <3> QED
      BY <1>1, <1>2, PutPage DEF PutIn
  <2> HIDE DEF a, short
  <2>3. r = [s EXCEPT !.m = a.m, !.t = t, !.short = short]
    BY <1>1, <2>1 DEF Drafting
  <2> HIDE DEF t
  <2>4. r \in Drafting /\ r.m = a.m /\ r.t = t
    BY <1>1, <1>2, <1>3, <2>2, <2>3 DEF Drafting
  <2>5. PageAt(v) \in Places /\ FrameIn(s.t, PageAt(v)) = s.t.page[v]
    BY PlacesAre, Cells
  <2>6. Kept(mem, base, r, {} \cup ({s.t.page[v]} \ {0}))
    <3>1. Placed(s, PageAt(v), a.frame, s.t.page[v], r)
      BY <1>2, <2>2, <2>4, <2>5 DEF Placed
    <3> QED
      BY <3>1, PlacedKept
  <2>7. Kept(mem, base, r, {s.t.page[v]} \ {0})
    <3>1. {} \cup ({s.t.page[v]} \ {0}) = {s.t.page[v]} \ {0}
      OBVIOUS
    <3> QED
      BY <2>6, <3>1, Zenon
  <2>8. OnlyPage(s.t, v, t)
    BY <2>2, PutInPage
  <2> QED
    BY <1>5, <2>2, <2>4, <2>7, <2>8 DEF PageCloned
<1> QED
  BY <1>4, <1>5

-----------------------------------------------------------------------------
(* Loading a program *)

\* A list of pages, none of which comes twice.
PageList(seq, n) ==
    /\ n \in Nat /\ DOMAIN seq = 1 .. n /\ \A j \in 1 .. n : seq[j] \in Pages
    /\ \A j, k \in 1 .. n : seq[j] = seq[k] => j = k

\* What is not a table or one of some pages.
Untouched(t, pages, new) ==
    /\ Carries(t, new) /\ new.pd = t.pd /\ new.kernel_stack = t.kernel_stack
    /\ \A v \in Pages \ pages : new.page[v] = t.page[v]

\* The pages of the list are given frames, from the first to the i-th.
Filled(c, seq, i, s) ==
    /\ PageList(seq, c.n) => /\ Kept(c.mem, c.base, s, {})
                             /\ Untouched(c.t, {seq[j] : j \in 1 .. c.n}, s.t)
                             /\ \A j \in i + 1 .. c.n : s.t.page[seq[j]] = 0

MapTo(c, s, v) == MapNew(s, v)
Maps == INSTANCE SequenceLemmas WITH Body <- MapTo, Kept <- Filled

\* One more of the pages that are mapped in turn.
LEMMA FilledStep ==
    ASSUME NEW c, NEW seq, PageList(seq, c.n), NEW i \in 0 .. c.n - 1, NEW s, Filled(c, seq, i, s),
           NEW r, Kept(c.mem, c.base, r, {s.t.page[seq[i + 1]]} \ {0}),
           OnlyPage(s.t, seq[i + 1], r.t)
    PROVE  Filled(c, seq, i + 1, r)
<1> DEFINE v == seq[i + 1]
           n == c.n
           pages == {seq[j] : j \in 1 .. n}
<1>1. n \in Nat /\ i + 1 \in 1 .. n /\ v \in Pages /\ v \in pages
  BY DEF PageList
<1>2. /\ Untouched(c.t, pages, s.t)
      /\ \A j \in i + 1 .. n : s.t.page[seq[j]] = 0
  BY DEF Filled
<1>3. Kept(c.mem, c.base, r, {})
  <2>1. s.t.page[v] = 0
    BY <1>1, <1>2
  <2>2. {s.t.page[v]} \ {0} = {}
    BY <2>1
  <2> QED
    BY <2>2, Zenon
<1>4. Untouched(c.t, pages, r.t)
  <2> HIDE DEF v, pages
  <2>1. v \in pages /\ OnlyPage(s.t, v, r.t)
    BY <1>1 DEF v
  <2> QED
    BY <1>2, <2>1 DEF Untouched, OnlyPage, Carries
<1>5. ASSUME NEW j \in (i + 1) + 1 .. n PROVE r.t.page[seq[j]] = 0
  <2>1. j \in i + 1 .. n /\ j \in 1 .. n /\ j # i + 1
    BY <1>1, <1>5
  <2>2. seq[j] \in Pages /\ seq[j] # v
    BY <1>1, <2>1 DEF PageList
  <2> QED
    BY <1>2, <2>1, <2>2 DEF OnlyPage
<1> QED
  BY <1>3, <1>4, <1>5 DEF Filled

\* Pages mapped in turn where nothing was: all the frames taken are in a place.
LEMMA LoadKept ==
    ASSUME NEW mem, NEW base, NEW s, Kept(mem, base, s, {}), NEW n, NEW seq, PageList(seq, n),
           \A j \in 1 .. n : s.t.page[seq[j]] = 0,
           NEW r, r = FoldLeft(MapNew, s, seq)
    PROVE  /\ Kept(mem, base, r, {})
           /\ Untouched(s.t, {seq[j] : j \in 1 .. n}, r.t)
<1> DEFINE c == [mem |-> mem, base |-> base, t |-> s.t, n |-> n]
<1>0. c.mem = mem /\ c.base = base /\ c.t = s.t /\ c.n = n
  OBVIOUS
<1> HIDE DEF c
<1>1. r = Maps!Fold(c, s, seq)
  BY Zenon DEF MapTo, Maps!Fold, Maps!MapThenFoldSet, Maps!Largest,
     FoldLeft, MapThenFoldSet, Max
<1>2. n \in Nat /\ DOMAIN seq = 1 .. n
  BY DEF PageList
<1>3. Filled(c, seq, 0, s)
  <2>1. \A j \in 0 + 1 .. n : s.t.page[seq[j]] = 0
    OBVIOUS
  <2> QED
    BY <1>0, <2>1 DEF Filled, Untouched, Carries
<1>4. ASSUME NEW i \in 0 .. n - 1, NEW b, Filled(c, seq, i, b)
      PROVE  Filled(c, seq, i + 1, MapTo(c, b, seq[i + 1]))
  <2>1. i + 1 \in 1 .. n
    BY <1>2, <1>4
  <2>2. Kept(c.mem, c.base, b, {}) /\ seq[i + 1] \in Pages
    BY <1>0, <1>4, <2>1 DEF Filled, PageList
  <2>4. /\ Kept(c.mem, c.base, MapTo(c, b, seq[i + 1]), {} \cup ({b.t.page[seq[i + 1]]} \ {0}))
        /\ OnlyPage(b.t, seq[i + 1], MapTo(c, b, seq[i + 1]).t)
    BY <2>2, MapNewKept DEF MapTo
  <2>5. \A S : {} \cup S = S
    OBVIOUS
  <2>3. /\ Kept(c.mem, c.base, MapTo(c, b, seq[i + 1]), {b.t.page[seq[i + 1]]} \ {0})
        /\ OnlyPage(b.t, seq[i + 1], MapTo(c, b, seq[i + 1]).t)
    BY <2>4, <2>5, Zenon
  <2> QED
    BY <1>0, <1>4, <2>3, FilledStep
<1>5. Filled(c, seq, n, r)
  BY <1>1, <1>2, <1>3, <1>4, Maps!LoopRule
<1> QED
  BY <1>0, <1>5 DEF Filled

\* The pages of a program and of its stack are apart, and below the scratch page.
LEMMA ProgramPages ==
    ASSUME NEW n \in Programs,
           NEW seq, seq = [j \in 1 .. n |-> j - 1] \o [j \in 1 .. StackPages |-> StackTop - j]
    PROVE  /\ PageList(seq, n + StackPages)
           /\ \A j \in 1 .. n + StackPages : seq[j] < StackTop
<1> DEFINE p == [j \in 1 .. n |-> j - 1]
           q == [j \in 1 .. StackPages |-> StackTop - j]
           k == StackPages
<1>1. n \in Nat /\ k \in Nat /\ n <= Entries /\ k <= Entries /\ Entries \in Nat \ {0} /\ StackTop = 2 * Entries
  BY Sizes DEF StackTop
<1>2. p \in Seq(Int) /\ Len(p) = n /\ q \in Seq(Int) /\ Len(q) = k
  BY <1>1
<1>3. /\ \A j \in 1 .. n : p[j] = j - 1
      /\ \A j \in 1 .. k : q[j] = StackTop - j
  OBVIOUS
<1> HIDE DEF p, q, k
<1>4. /\ seq \in Seq(Int) /\ Len(seq) = n + k
      /\ \A j \in 1 .. n + k : seq[j] = IF j <= n THEN p[j] ELSE q[j - n]
  <2>1. /\ p \o q \in Seq(Int) /\ Len(p \o q) = Len(p) + Len(q)
        /\ \A j \in 1 .. Len(p) + Len(q) : (p \o q)[j] = IF j <= Len(p) THEN p[j] ELSE q[j - Len(p)]
    BY <1>2, ConcatProperties
  <2> QED
    BY <1>2, <2>1 DEF p, q, k
<1>5. DOMAIN seq = 1 .. n + k
  BY <1>4, LenProperties
<1>6. ASSUME NEW j \in 1 .. n + k
      PROVE  /\ j <= n => seq[j] = j - 1
             /\ j > n => seq[j] = StackTop - (j - n)
  <2>1. CASE j <= n
    <3>1. j \in 1 .. n /\ ~(j > n)
      BY <1>1, <1>6, <2>1
    <3> QED
      BY <1>3, <1>4, <2>1, <3>1
  <2>2. CASE ~(j <= n)
    <3>1. j - n \in 1 .. k
      BY <1>1, <1>6, <2>2
    <3> DEFINE i == j - n
    <3>2. q[i] = StackTop - i
      BY <1>3, <3>1
    <3>3. seq[j] = q[i]
      BY <1>4, <2>2
    <3> QED
      BY <2>2, <3>2, <3>3
  <2> QED
    BY <2>1, <2>2
<1>7. ASSUME NEW j \in 1 .. n + k
      PROVE  /\ seq[j] \in 0 .. 2 * Entries - 1
             /\ j <= n => seq[j] < Entries
             /\ j > n => seq[j] >= Entries
  <2> DEFINE x == seq[j]
             S == StackTop
             E == Entries
  <2>0. /\ (j <= n => x = j - 1) /\ (j > n => x = S - (j - n))
    BY <1>6, <1>7
  <2> HIDE DEF x
  <2>1. /\ j \in Nat /\ j >= 1 /\ j <= n + k /\ n \in Nat /\ k \in Nat /\ n <= E /\ k <= E /\ E \in Nat \ {0}
        /\ S = 2 * E /\ (j <= n => x = j - 1) /\ (j > n => x = S - (j - n))
    BY <1>1, <1>7, <2>0
  <2> HIDE DEF x, S, E
  <2>2. CASE j <= n
    <3>1. x = j - 1
      BY <2>1, <2>2
    <3>2. x \in 0 .. 2 * E - 1 /\ x < E /\ ~(j > n)
      BY <2>1, <2>2, <3>1
    <3> QED
      BY <3>2 DEF x, E
  <2>3. CASE j > n
    <3>1. x = S - (j - n)
      BY <2>1, <2>3
    <3>2. x \in 0 .. 2 * E - 1 /\ x >= E /\ ~(j <= n)
      BY <2>1, <2>3, <3>1
    <3> QED
      BY <3>2 DEF x, E
  <2>4. j <= n \/ j > n
    BY <2>1
  <2> QED
    BY <2>2, <2>3, <2>4 DEF x, E
<1>8. \A j \in 1 .. n + k : seq[j] \in Pages /\ seq[j] < StackTop
  <2>1. ASSUME NEW x \in 0 .. 2 * Entries - 1 PROVE x \in Pages /\ x < StackTop
    BY <1>1, <2>1 DEF Pages
  <2> QED
    BY <1>7, <2>1
<1>9. ASSUME NEW j \in 1 .. n + k, NEW i \in 1 .. n + k, seq[j] = seq[i] PROVE j = i
  <2> DEFINE x == seq[j]
             y == seq[i]
             S == StackTop
             E == Entries
  <2>4. x \in 0 .. 2 * E - 1 /\ y \in 0 .. 2 * E - 1 /\ x = y
    BY <1>7, <1>9
  <2>5. /\ j \in Int /\ i \in Int /\ n \in Int /\ S \in Int /\ E \in Int
    BY <1>1, <1>9
  <2>2. /\ (j <= n => x = j - 1 /\ x < E) /\ (j > n => x = S - (j - n) /\ x >= E)
    BY <1>6, <1>7
  <2>3. /\ (i <= n => y = i - 1 /\ y < E) /\ (i > n => y = S - (i - n) /\ y >= E)
    BY <1>6, <1>7
  <2> HIDE DEF x, y, S, E
  <2>1. x \in Int /\ y \in Int /\ x = y
    BY <2>4
  <2> QED
    BY <2>1, <2>2, <2>3, <2>5
<1>10. n + k \in Nat /\ \A j \in 1 .. n + k : seq[j] \in Pages
  <2>1. n + k \in Nat
    BY <1>1
  <2> QED
    BY <1>8, <2>1
<1>11. \A i, j \in 1 .. n + k : seq[i] = seq[j] => i = j
  BY <1>9
<1>12. PageList(seq, n + k)
  BY <1>5, <1>10, <1>11 DEF PageList
<1> QED
  BY <1>8, <1>12 DEF k

\* A program is loaded where nothing is mapped: every frame it takes is in one
\* of its places.
LEMMA LoadProgramKept ==
    ASSUME NEW mem, NEW base, NEW s, Kept(mem, base, s, {}), NEW n \in Programs,
           \A v \in Pages : s.t.page[v] = 0, NEW r, r = LoadProgram(s, n)
    PROVE  /\ Kept(mem, base, r, {})
           /\ Carries(s.t, r.t) /\ r.t.pd = s.t.pd /\ r.t.kernel_stack = s.t.kernel_stack
           /\ \A v \in Pages : v >= StackTop => r.t.page[v] = 0
<1> DEFINE seq == [j \in 1 .. n |-> j - 1] \o [j \in 1 .. StackPages |-> StackTop - j]
           k == n + StackPages
<1>1. PageList(seq, k) /\ \A j \in 1 .. k : seq[j] < StackTop
  BY ProgramPages
<1>2. r = FoldLeft(MapNew, s, seq)
  BY DEF LoadProgram
<1> HIDE DEF seq, k
<1>3. \A j \in 1 .. k : s.t.page[seq[j]] = 0
  BY <1>1 DEF PageList
<1>4. Kept(mem, base, r, {}) /\ Untouched(s.t, {seq[j] : j \in 1 .. k}, r.t)
  BY <1>1, <1>2, <1>3, LoadKept
<1>5. ASSUME NEW v \in Pages, v >= StackTop PROVE r.t.page[v] = 0
  <2>1. StackTop \in Int /\ v \in Int
    BY Sizes DEF StackTop, Pages
  <2>2. ASSUME NEW j \in 1 .. k, v = seq[j] PROVE FALSE
    BY <1>1, <1>5, <2>1, <2>2
  <2>3. v \in Pages \ {seq[j] : j \in 1 .. k}
    BY <2>2
  <2> QED
    BY <1>4, <2>3 DEF Untouched
<1> QED
  BY <1>4, <1>5 DEF Untouched

-----------------------------------------------------------------------------
(* Cloning an address space *)

\* The pages of the list are copied, from the first to the i-th.
Copied(c, seq, i, s) ==
    /\ Filled(c, seq, i, s) /\ s.t.table = c.t.table
    /\ \A v \in Pages : c.parent.page[v] = 0 /\ c.t.page[v] = 0 => s.t.page[v] = 0

CopyTo(c, s, v) == ClonePage(s, c.parent, v)
Copies == INSTANCE SequenceLemmas WITH Body <- CopyTo, Kept <- Copied

CopyPages(s, parent, seq) == FoldLeft(LAMBDA x, v : ClonePage(x, parent, v), s, seq)

PagesCopied(mem, base, s, n, seq, parent, r) ==
    /\ Kept(mem, base, r, {})
    /\ Untouched(s.t, {seq[j] : j \in 1 .. n}, r.t) /\ r.t.table = s.t.table
    /\ \A v \in Pages : parent.page[v] = 0 /\ s.t.page[v] = 0 => r.t.page[v] = 0

\* The pages of a table cloned in turn: all the frames taken are in a place.
LEMMA CopyKept ==
    ASSUME NEW mem, NEW base, NEW s, Kept(mem, base, s, {}), NEW n, NEW seq, PageList(seq, n),
           \A j \in 1 .. n : s.t.page[seq[j]] = 0, NEW parent,
           NEW r, r = CopyPages(s, parent, seq)
    PROVE  PagesCopied(mem, base, s, n, seq, parent, r)
<1> DEFINE c == [mem |-> mem, base |-> base, t |-> s.t, n |-> n, parent |-> parent]
<1>0. c.mem = mem /\ c.base = base /\ c.t = s.t /\ c.n = n /\ c.parent = parent
  OBVIOUS
<1> HIDE DEF c
<1>7. r = CopyPages(s, c.parent, seq)
  BY <1>0
<1>1. r = Copies!Fold(c, s, seq)
  BY <1>7, Zenon DEF CopyPages, CopyTo, Copies!Fold, Copies!MapThenFoldSet, Copies!Largest,
     FoldLeft, MapThenFoldSet, Max
<1>2. n \in Nat /\ DOMAIN seq = 1 .. n
  BY DEF PageList
<1>3. Copied(c, seq, 0, s)
  <2>1. \A j \in 0 + 1 .. n : s.t.page[seq[j]] = 0
    OBVIOUS
  <2> QED
    BY <1>0, <2>1 DEF Copied, Filled, Untouched, Carries
<1>4. ASSUME NEW i \in 0 .. n - 1, NEW b, Copied(c, seq, i, b)
      PROVE  Copied(c, seq, i + 1, CopyTo(c, b, seq[i + 1]))
  <2> DEFINE v == seq[i + 1]
             q == CopyTo(c, b, v)
  <2>1. i + 1 \in 1 .. n /\ i + 1 \in i + 1 .. n
    BY <1>2, <1>4
  <2>2. /\ Kept(c.mem, c.base, b, {}) /\ v \in Pages /\ b.t.page[v] = 0
        /\ Filled(c, seq, i, b) /\ PageList(seq, c.n)
    BY <1>0, <1>4, <2>1 DEF Copied, Filled, PageList
  <2> HIDE DEF v
  <2>3. PageCloned(c.mem, c.base, b, v, c.parent, q)
    BY <2>2, ClonePageKept DEF CopyTo
  <2> HIDE DEF q
  <2>4. {b.t.page[v]} \ {0} = {}
    BY <2>2
  <2>5. Kept(c.mem, c.base, q, {b.t.page[v]} \ {0})
    BY <2>3, <2>4 DEF PageCloned
  <2>6. Filled(c, seq, i + 1, q)
    <3>1. OnlyPage(b.t, v, q.t)
      BY <2>3 DEF PageCloned
    <3> QED
      BY <1>0, <2>2, <2>5, <3>1, FilledStep DEF v
  <2>7. q.t.table = c.t.table
    BY <1>4, <2>3 DEF Copied, PageCloned
  <2>8. ASSUME NEW w \in Pages, c.parent.page[w] = 0, c.t.page[w] = 0 PROVE q.t.page[w] = 0
    <3>1. b.t.page[w] = 0
      BY <1>4, <2>8 DEF Copied
    <3>2. CASE w = v
      BY <2>3, <2>8, <3>1, <3>2 DEF PageCloned
    <3>3. CASE w # v
      BY <2>3, <2>8, <3>1, <3>3 DEF OnlyPage, PageCloned
    <3> QED
      BY <3>2, <3>3
  <2>9. Copied(c, seq, i + 1, q)
    BY <2>6, <2>7, <2>8 DEF Copied
  <2> QED
    BY <2>9 DEF q, v
<1>5. Copied(c, seq, n, r)
  BY <1>1, <1>2, <1>3, <1>4, Copies!LoopRule
<1>6. Filled(c, seq, n, r) /\ r.t.table = c.t.table
      /\ \A v \in Pages : c.parent.page[v] = 0 /\ c.t.page[v] = 0 => r.t.page[v] = 0
  BY <1>5 DEF Copied
<1> QED
  BY <1>0, <1>6 DEF Filled, PagesCopied

\* Quotients from remainders.
LEMMA DivIs ==
    ASSUME NEW P \in Nat \ {0}, NEW q \in Nat, NEW r \in 0 .. P - 1, NEW a, a = q * P + r
    PROVE  a \div P = q
<1> DEFINE d == a \div P
<1>1. q * P \in Nat /\ a \in Nat /\ q * P <= a /\ a < q * P + P /\ (q + 1) * P = q * P + P
  BY Z3
<1>2. d \in Nat /\ d * P <= a /\ a < (d + 1) * P
  BY <1>1, Z3
<1>3. ASSUME q + 1 <= d PROVE FALSE
  <2>1. (q + 1) * P <= d * P
    BY <1>2, <1>3, TimesMono
  <2> HIDE DEF d
  <2> QED
    BY <1>1, <1>2, <2>1
<1>4. ASSUME d + 1 <= q PROVE FALSE
  <2>1. (d + 1) * P <= q * P
    BY <1>2, <1>4, TimesMono
  <2> HIDE DEF d
  <2> QED
    BY <1>1, <1>2, <2>1
<1> HIDE DEF d
<1>5. d = q
  BY <1>2, <1>3, <1>4
<1> QED
  BY <1>5 DEF d

\* The pages of a table.
LEMMA TablePages ==
    ASSUME NEW i \in Indices, NEW seq, seq = [j \in 1 .. Entries |-> (i * Entries) + j - 1]
    PROVE  /\ PageList(seq, Entries)
           /\ \A j \in 1 .. Entries : IndexOf(seq[j]) = i
<1> DEFINE E == Entries
           b == i * Entries
<1>1. E \in Nat \ {0} /\ b \in Nat /\ i \in Nat /\ b <= 2 * E
  <2>1. E \in Nat \ {0} /\ (i = 0 \/ i = 1 \/ i = 2)
    BY Sizes DEF Indices
  <2> HIDE DEF E
  <2>2. i * E = 0 \/ i * E = E \/ i * E = 2 * E
    BY <2>1
  <2>3. i * E \in Nat /\ i * E <= 2 * E /\ i \in Nat
    BY <2>1, <2>2
  <2> QED
    BY <2>1, <2>3 DEF E
<1>2. \A j \in 1 .. E : seq[j] = b + (j - 1)
  BY <1>1
<1>3. DOMAIN seq = 1 .. E
  OBVIOUS
<1>4. ASSUME NEW j \in 1 .. E PROVE IndexOf(seq[j]) = i
  <2>1. j - 1 \in 0 .. E - 1
    BY <1>1, <1>4
  <2> DEFINE r == j - 1
             x == b + r
  <2>4. x = i * E + r /\ r \in 0 .. E - 1 /\ E \in Nat \ {0} /\ i \in Nat
    BY <1>1, <2>1
  <2>2. x \div E = i
    <3> HIDE DEF x, r, E
    <3> QED
      BY <2>4, DivIs
  <2>3. seq[j] = b + (j - 1)
    BY <1>2
  <2> QED
    BY <2>2, <2>3 DEF IndexOf
<1> HIDE DEF E, b
<1>5. ASSUME NEW j \in 1 .. E PROVE seq[j] \in 0 .. (3 * E) - 1
  <2>1. b + (j - 1) \in 0 .. (3 * E) - 1
    BY <1>1, <1>5
  <2> QED
    BY <1>2, <2>1
<1>6. ASSUME NEW j \in 1 .. E, NEW k \in 1 .. E, seq[j] = seq[k] PROVE j = k
  <2>1. b + (j - 1) = b + (k - 1)
    BY <1>2, <1>6
  <2> QED
    BY <1>1, <2>1
<1>7. PageList(seq, E)
  BY <1>1, <1>3, <1>5, <1>6 DEF PageList, Pages, E
<1> QED
  BY <1>4, <1>7 DEF E

\* A table of the parent, if it is present, and the copies of its pages.
CloneTable(c, u, i) ==
    LET a == pmm_alloc_page(u.m)
        w == [u EXCEPT !.m = a.m, !.t.table[i] = a.frame, !.short = @ \/ a.frame = 0]
    IN  IF c.parent.table[i] = 0 THEN u
        ELSE CopyPages(w, c.parent, [j \in 1 .. Entries |-> (i * Entries) + j - 1])

\* A table and its pages have been made, and nothing else.
TableCloned(mem, base, u, i, parent, r) ==
    /\ Kept(mem, base, r, {}) /\ Carries(u.t, r.t)
    /\ r.t.pd = u.t.pd /\ r.t.kernel_stack = u.t.kernel_stack
    /\ \A j \in Indices : j # i => r.t.table[j] = u.t.table[j]
    /\ \A v \in Pages : IndexOf(v) # i => r.t.page[v] = u.t.page[v]
    /\ \A v \in Pages : parent.page[v] = 0 /\ u.t.page[v] = 0 => r.t.page[v] = 0

\* A table and its pages are cloned.
LEMMA CloneTableKept ==
    ASSUME NEW mem, NEW base, NEW u, Kept(mem, base, u, {}), NEW i \in Indices,
           u.t.table[i] = 0, \A v \in Pages : IndexOf(v) = i => u.t.page[v] = 0,
           NEW c, NEW r, r = CloneTable(c, u, i)
    PROVE  TableCloned(mem, base, u, i, c.parent, r)
<1> DEFINE a == pmm_alloc_page(u.m)
           short == u.short \/ a.frame = 0
           t == [u.t EXCEPT !.table[i] = a.frame]
           w == [u EXCEPT !.m = a.m, !.t.table[i] = a.frame, !.short = short]
           seq == [j \in 1 .. Entries |-> (i * Entries) + j - 1]
<1>1. /\ u \in Drafting /\ u.t \in Drafts /\ MemSound(u.m) /\ u.m \in Memories /\ u.short \in BOOLEAN
  BY DEF Kept, Drafting, MemSound
<1>2. /\ MemSound(a.m) /\ a.m.heap = u.m.heap /\ a.frame \in Frames \cup {0}
      /\ a.frame \notin u.m.bitmap /\ a.m.bitmap = u.m.bitmap \cup ({a.frame} \ {0}) /\ a.m \in Memories
  BY <1>1, AllocSound DEF MemSound
<1>3. short \in BOOLEAN
  BY Zenon
<1>4. CASE c.parent.table[i] = 0
  <2>1. r = u
    BY <1>4, Zenon DEF CloneTable
  <2> QED
    BY <2>1 DEF Carries, TableCloned
<1>5. CASE c.parent.table[i] # 0
  <2>1. r = CopyPages(w, c.parent, seq)
    BY <1>5, Zenon DEF CloneTable
  <2>2. t \in Drafts /\ PutIn(u.t, TableAt(i), a.frame, t)
    <3>1. PutIn(u.t, TableAt(i), a.frame, t)
      BY <1>1, <1>2, PutTable, Zenon
    <3> HIDE DEF a, t
    <3> QED
      BY <3>1 DEF PutIn
  <2>3. PageList(seq, Entries) /\ \A j \in 1 .. Entries : IndexOf(seq[j]) = i
    BY TablePages
  <2> HIDE DEF a, short, seq
  <2>4. w = [u EXCEPT !.m = a.m, !.t = t, !.short = short]
    BY <1>1 DEF Drafting
  <2> HIDE DEF t, w
  <2>5. w \in Drafting /\ w.m = a.m /\ w.t = t
    BY <1>1, <1>2, <1>3, <2>2, <2>4 DEF Drafting
  <2>6. TableAt(i) \in Places /\ FrameIn(u.t, TableAt(i)) = 0
    BY PlacesAre, Cells
  <2>7. Kept(mem, base, w, {} \cup ({0} \ {0}))
    <3>1. Placed(u, TableAt(i), a.frame, 0, w)
      BY <1>2, <2>2, <2>5, <2>6 DEF Placed
    <3> QED
      BY <3>1, PlacedKept
  <2>8. Kept(mem, base, w, {})
    <3>1. {} \cup ({0} \ {0}) = {}
      OBVIOUS
    <3> QED
      BY <2>7, <3>1, Zenon
  <2>9. OnlyTable(u.t, i, t)
    BY <2>2, PutInTable
  <2>10. \A j \in 1 .. Entries : w.t.page[seq[j]] = 0
    BY <2>3, <2>5, <2>9 DEF OnlyTable, PageList
  <2> DEFINE pages == {seq[j] : j \in 1 .. Entries}
  <2>11. /\ Kept(mem, base, r, {}) /\ Untouched(w.t, pages, r.t) /\ r.t.table = w.t.table
         /\ \A v \in Pages : c.parent.page[v] = 0 /\ w.t.page[v] = 0 => r.t.page[v] = 0
    <3> DEFINE n == Entries
    <3>1. PageList(seq, n) /\ \A j \in 1 .. n : w.t.page[seq[j]] = 0
      BY <2>3, <2>10
    <3> HIDE DEF n
    <3>2. PagesCopied(mem, base, w, n, seq, c.parent, r)
      BY <2>1, <2>8, <3>1, CopyKept, Zenon
    <3> QED
      BY <3>2 DEF n, PagesCopied
  <2>12. \A v \in Pages : IndexOf(v) # i => v \notin pages
    BY <2>3
  <2> HIDE DEF pages
  <2>13. Carries(u.t, r.t) /\ r.t.pd = u.t.pd /\ r.t.kernel_stack = u.t.kernel_stack
    BY <2>5, <2>9, <2>11 DEF OnlyTable, Untouched, Carries
  <2>14. \A j \in Indices : j # i => r.t.table[j] = u.t.table[j]
    BY <2>5, <2>9, <2>11 DEF OnlyTable
  <2>15. \A v \in Pages : IndexOf(v) # i => r.t.page[v] = u.t.page[v]
    BY <2>5, <2>9, <2>11, <2>12 DEF OnlyTable, Untouched
  <2>16. \A v \in Pages : c.parent.page[v] = 0 /\ u.t.page[v] = 0 => r.t.page[v] = 0
    BY <2>5, <2>9, <2>11 DEF OnlyTable
  <2> QED
    BY <2>11, <2>13, <2>14, <2>15, <2>16 DEF TableCloned
<1> QED
  BY <1>4, <1>5

\* The tables below the k-th have been made.
Cloned(c, seq, k, u) ==
    /\ Kept(c.mem, c.base, u, {}) /\ Carries(c.t, u.t)
    /\ u.t.pd = c.t.pd /\ u.t.kernel_stack = c.t.kernel_stack
    /\ \A i \in Indices : i >= k => u.t.table[i] = 0
    /\ \A v \in Pages : IndexOf(v) >= k => u.t.page[v] = 0
    /\ \A v \in Pages : c.parent.page[v] = 0 => u.t.page[v] = 0

Clones == INSTANCE SequenceLemmas WITH Body <- CloneTable, Kept <- Cloned

\* create_address_space: a directory that nobody had, or nothing.
LEMMA CreateKept ==
    ASSUME NEW mem, NEW base, NEW s, Kept(mem, base, s, {}), s.t.pd = 0,
           NEW d, d = create_address_space(s)
    PROVE  /\ Kept(mem, base, d, {}) /\ Carries(s.t, d.t)
           /\ d.t.table = s.t.table /\ d.t.page = s.t.page /\ d.t.kernel_stack = s.t.kernel_stack
           /\ d.t.pd \notin s.m.bitmap
           /\ d.t.pd = 0 => d.m = s.m /\ d.t = s.t
<1> DEFINE a == pmm_alloc_page(s.m)
           t == [s.t EXCEPT !.pd = a.frame]
<1>1. /\ s \in Drafting /\ s.t \in Drafts /\ MemSound(s.m) /\ s.m \in Memories /\ s.short \in BOOLEAN
  BY DEF Kept, Drafting, MemSound
<1>2. /\ MemSound(a.m) /\ a.m.heap = s.m.heap /\ a.frame \in Frames \cup {0}
      /\ a.frame \notin s.m.bitmap /\ a.m.bitmap = s.m.bitmap \cup ({a.frame} \ {0}) /\ a.m \in Memories
      /\ a.frame = 0 => a.m = s.m
  BY <1>1, AllocSound DEF MemSound
<1>3. d = [s EXCEPT !.m = a.m, !.t = t]
  BY Zenon DEF create_address_space
<1> HIDE DEF a
<1>4. /\ t \in Drafts /\ t.pd = a.frame /\ t.table = s.t.table /\ t.page = s.t.page
      /\ t.kernel_stack = s.t.kernel_stack /\ Carries(s.t, t)
      /\ (a.frame = 0 => t = s.t)
  BY <1>1, <1>2 DEF Drafts, Carries
<1> HIDE DEF t
<1>5. d \in Drafting /\ d.m = a.m /\ d.t = t
  BY <1>1, <1>2, <1>3, <1>4 DEF Drafting
<1>6. PutIn(s.t, PdAt, a.frame, t)
  BY <1>4, PutPd
<1>7. PdAt \in Places /\ FrameIn(s.t, PdAt) = 0
  BY PlacesAre, Cells
<1>8. Kept(mem, base, d, {} \cup ({0} \ {0}))
  <2>1. Placed(s, PdAt, a.frame, 0, d)
    BY <1>2, <1>5, <1>6, <1>7 DEF Placed
  <2> QED
    BY <2>1, PlacedKept
<1>9. Kept(mem, base, d, {})
  <2>1. {} \cup ({0} \ {0}) = {}
    OBVIOUS
  <2> QED
    BY <1>8, <2>1, Zenon
<1> QED
  BY <1>2, <1>4, <1>5, <1>9

\* One more of the tables that are cloned in turn.
LEMMA ClonedStep ==
    ASSUME NEW c, NEW seq, NEW i \in Indices, NEW u, Cloned(c, seq, i, u),
           NEW r, TableCloned(c.mem, c.base, u, i, c.parent, r)
    PROVE  Cloned(c, seq, i + 1, r)
<1>1. i \in Int
  BY DEF Indices
<1>2. /\ Kept(c.mem, c.base, r, {}) /\ Carries(c.t, r.t)
      /\ r.t.pd = c.t.pd /\ r.t.kernel_stack = c.t.kernel_stack
  BY DEF Cloned, TableCloned, Carries
<1>3. ASSUME NEW j \in Indices, j >= i + 1 PROVE r.t.table[j] = 0
  <2>1. j >= i /\ j # i
    BY <1>1, <1>3 DEF Indices
  <2> QED
    BY <2>1 DEF Cloned, TableCloned
<1>4. ASSUME NEW v \in Pages, IndexOf(v) >= i + 1 PROVE r.t.page[v] = 0
  <2>1. IndexOf(v) >= i /\ IndexOf(v) # i
    BY <1>1, <1>4, IndexOfIs DEF Indices
  <2> QED
    BY <2>1 DEF Cloned, TableCloned
<1>5. \A v \in Pages : c.parent.page[v] = 0 => r.t.page[v] = 0
  BY DEF Cloned, TableCloned
<1> QED
  BY <1>2, <1>3, <1>4, <1>5 DEF Cloned

\* Every frame that a clone takes is in one of its places, also when it is
\* refused; no page is made that the parent does not have.
IsClone(mem, base, s, parent, r) ==
    /\ Kept(mem, base, r, {}) /\ Carries(s.t, r.t) /\ r.t.kernel_stack = s.t.kernel_stack
    /\ \A v \in Pages : parent.page[v] = 0 => r.t.page[v] = 0
    /\ r.t.pd = 0 => r.m = s.m

\* clone_address_space: every frame taken is in one place of the child.
LEMMA CloneKept ==
    ASSUME NEW mem, NEW base, NEW s, Kept(mem, base, s, {}), s.t.pd = 0,
           \A i \in Indices : s.t.table[i] = 0, \A v \in Pages : s.t.page[v] = 0,
           NEW parent, NEW r, r = clone_address_space(s, parent)
    PROVE  IsClone(mem, base, s, parent, r)
<1> DEFINE d == create_address_space(s)
           c == [mem |-> mem, base |-> base, t |-> d.t, parent |-> parent]
           seq == <<0, 1, 2>>
<1>0. c.mem = mem /\ c.base = base /\ c.t = d.t /\ c.parent = parent
  OBVIOUS
<1>1. /\ Kept(mem, base, d, {}) /\ Carries(s.t, d.t)
      /\ d.t.table = s.t.table /\ d.t.page = s.t.page /\ d.t.kernel_stack = s.t.kernel_stack
      /\ (d.t.pd = 0 => d.m = s.m /\ d.t = s.t)
  BY CreateKept
<1>6. DOMAIN seq = 1 .. 3 /\ \A i \in 0 .. 2 : seq[i + 1] = i
  OBVIOUS
<1> HIDE DEF c
<1>2. r = clone_address_space(s, c.parent)
  BY <1>0
<1>3. CASE d.t.pd = 0
  <2>1. r = d
    BY <1>3, Zenon DEF clone_address_space
  <2> QED
    BY <1>1, <1>3, <2>1 DEF IsClone
<1>4. CASE d.t.pd # 0
  <2>1. r = Clones!Fold(c, d, seq)
    BY <1>2, <1>4, Zenon DEF clone_address_space, CloneTable, CopyPages, Clones!Fold, Clones!MapThenFoldSet, Clones!Largest, FoldLeft, MapThenFoldSet, Max
  <2> HIDE DEF d, seq
  <2>2. Cloned(c, seq, 0, d)
    BY <1>0, <1>1 DEF Cloned, Carries
  <2>3. ASSUME NEW i \in 0 .. 3 - 1, NEW b, Cloned(c, seq, i, b)
        PROVE  Cloned(c, seq, i + 1, CloneTable(c, b, seq[i + 1]))
    <3> DEFINE q == CloneTable(c, b, i)
    <3>1. i \in Indices /\ i >= i /\ seq[i + 1] = i
      BY <1>6 DEF Indices
    <3>2. /\ Kept(c.mem, c.base, b, {}) /\ b.t.table[i] = 0
          /\ \A v \in Pages : IndexOf(v) = i => b.t.page[v] = 0
      BY <2>3, <3>1 DEF Cloned
    <3>3. TableCloned(c.mem, c.base, b, i, c.parent, q)
      BY <3>1, <3>2, CloneTableKept
    <3> HIDE DEF q
    <3>4. Cloned(c, seq, i + 1, q)
      BY <2>3, <3>1, <3>3, ClonedStep
    <3> QED
      BY <3>1, <3>4 DEF q
  <2>4. Cloned(c, seq, 3, r)
    <3> DEFINE n == 3
    <3>1. n \in Nat /\ DOMAIN seq = 1 .. n
      BY <1>6
    <3>2. \A i \in 0 .. n - 1 : \A b : Cloned(c, seq, i, b) => Cloned(c, seq, i + 1, CloneTable(c, b, seq[i + 1]))
      BY <2>3
    <3> HIDE DEF n
    <3>3. Cloned(c, seq, n, Clones!Fold(c, d, seq))
      BY <2>2, <3>1, <3>2, Clones!LoopRule
    <3> QED
      BY <2>1, <3>3 DEF n
  <2> QED
    BY <1>0, <1>1, <1>4, <2>4 DEF Cloned, IsClone, Carries
<1> QED
  BY <1>3, <1>4

-----------------------------------------------------------------------------
(* Giving an address space back *)

\* The frames of the heap depend on its list only.
LEMMA SameHeapFrames == ASSUME NEW a, NEW b, a.heap = b.heap
                        PROVE  HeapFrames(a) = HeapFrames(b) /\ Taken(a) = Taken(b)
  BY DEF HeapFrames, Taken, TakenIn

\* Marked frames that are not the heap's, none of them twice.
FreeList(seq, n, mem) ==
    /\ n \in Nat /\ DOMAIN seq = 1 .. n
    /\ \A j \in 1 .. n : seq[j] = 0 \/ seq[j] \in mem.bitmap \ HeapFrames(mem)
    /\ \A j, k \in 1 .. n : seq[j] = seq[k] /\ seq[j] # 0 => j = k

Freed(mem, frames, x) ==
    MemSound(x) /\ x.heap = mem.heap /\ x.bitmap = mem.bitmap \ frames

FreedTo(mem, seq, i, x) == Freed(mem, {seq[j] : j \in 1 .. i}, x)
FreeTo(mem, x, f) == IF f = 0 THEN x ELSE pmm_free_page(x, f)
Frees == INSTANCE SequenceLemmas WITH Body <- FreeTo, Kept <- FreedTo

\* One frame more is freed.
LEMMA FreeOne ==
    ASSUME NEW mem, 0 \notin mem.bitmap, NEW S, NEW x, Freed(mem, S, x), NEW f,
           f = 0 \/ f \in mem.bitmap \ HeapFrames(mem), f = 0 \/ f \notin S,
           NEW r, r = FreeTo(mem, x, f)
    PROVE  Freed(mem, S \cup {f}, r)
<1>1. MemSound(x) /\ x.heap = mem.heap /\ x.bitmap = mem.bitmap \ S
  BY DEF Freed
<1>2. CASE f = 0
  <2>1. r = x /\ mem.bitmap \ (S \cup {f}) = mem.bitmap \ S
    BY <1>2 DEF FreeTo
  <2> QED
    BY <1>1, <2>1 DEF Freed
<1>3. CASE f # 0
  <2>1. r = pmm_free_page(x, f)
    BY <1>3 DEF FreeTo
  <2>2. f \in x.bitmap \ HeapFrames(x)
    BY <1>1, <1>3, SameHeapFrames
  <2>3. MemSound(r) /\ r.heap = x.heap /\ r.bitmap = x.bitmap \ {f}
    BY <1>1, <2>1, <2>2, FreeSound
  <2>4. r.bitmap = mem.bitmap \ (S \cup {f})
    BY <1>1, <2>3
  <2> QED
    BY <1>1, <2>3, <2>4 DEF Freed
<1> QED
  BY <1>2, <1>3

\* Frame 0 is never marked.
LEMMA NoFrameZero == ASSUME NEW mem, MemSound(mem) PROVE 0 \notin mem.bitmap /\ mem.bitmap \subseteq Frames
  BY FramesAssumption DEF MemSound, Memories, FramesAssumption

FreeEach(mem, seq) == FoldLeft(LAMBDA x, f : IF f = 0 THEN x ELSE pmm_free_page(x, f), mem, seq)

\* A loop of pmm_free_page frees what is in the list, once each.
LEMMA FreeAll ==
    ASSUME NEW mem, MemSound(mem), NEW n, NEW seq, FreeList(seq, n, mem),
           NEW r, r = FreeEach(mem, seq)
    PROVE  Freed(mem, {seq[j] : j \in 1 .. n}, r)
<1>1. r = Frees!Fold(mem, mem, seq)
  BY Zenon DEF FreeEach, FreeTo, Frees!Fold, Frees!MapThenFoldSet, Frees!Largest,
     FoldLeft, MapThenFoldSet, Max
<1>2. n \in Nat /\ DOMAIN seq = 1 .. n
  BY DEF FreeList
<1>3. FreedTo(mem, seq, 0, mem)
  <2>1. {seq[j] : j \in 1 .. 0} = {}
    OBVIOUS
  <2> QED
    BY <2>1 DEF FreedTo, Freed
<1>4. ASSUME NEW i \in 0 .. n - 1, NEW b, FreedTo(mem, seq, i, b)
      PROVE  FreedTo(mem, seq, i + 1, FreeTo(mem, b, seq[i + 1]))
  <2> DEFINE S == {seq[j] : j \in 1 .. i}
             f == seq[i + 1]
             q == FreeTo(mem, b, f)
  <2>1. i + 1 \in 1 .. n /\ \A j \in 1 .. i : j \in 1 .. n /\ j # i + 1
    BY <1>2, <1>4
  <2>2. f = 0 \/ f \in mem.bitmap \ HeapFrames(mem)
    BY <2>1 DEF FreeList
  <2>3. f = 0 \/ f \notin S
    BY <2>1 DEF FreeList
  <2>4. S \cup {f} = {seq[j] : j \in 1 .. i + 1}
    <3>2. i \in Nat
      BY <1>2, <1>4
    <3>1. 1 .. i + 1 = (1 .. i) \cup {i + 1}
      BY <3>2
    <3>3. ASSUME NEW x \in {seq[j] : j \in 1 .. i + 1} PROVE x \in S \cup {f}
      BY <3>1
    <3>4. ASSUME NEW x \in S \cup {f} PROVE x \in {seq[j] : j \in 1 .. i + 1}
      BY <3>1
    <3> QED
      BY <3>3, <3>4
  <2>5. Freed(mem, S, b)
    BY <1>4 DEF FreedTo
  <2> HIDE DEF S, f
  <2>6. Freed(mem, S \cup {f}, q)
    BY <2>2, <2>3, <2>5, FreeOne, NoFrameZero
  <2>7. FreedTo(mem, seq, i + 1, q)
    BY <2>4, <2>6 DEF FreedTo
  <2> QED
    BY <2>7 DEF f
<1>5. FreedTo(mem, seq, n, r)
  BY <1>1, <1>2, <1>3, <1>4, Frees!LoopRule
<1> QED
  BY <1>5 DEF FreedTo

\* What timer_handler and elf_exec give back of a directory.
SpaceFrames(t, from) ==
    ({t.pd} \cup {t.table[i] : i \in {j \in Indices : j >= from}}
            \cup {t.page[v] : v \in {w \in Pages : IndexOf(w) >= from}}) \ {0}

\* The order FreeSpace goes in, after the directory.
SpaceList(t, from) ==
    [i \in 1 .. 3 |-> IF i > from THEN t.table[i - 1] ELSE 0]
        \o [j \in 1 .. 3 * Entries |-> IF IndexOf(j - 1) >= from THEN t.page[j - 1] ELSE 0]

\* The list of frames that FreeSpace goes through.
LEMMA SpaceListIs ==
    ASSUME NEW t \in Drafts, NEW from \in Nat, NEW seq, seq = SpaceList(t, from)
    PROVE  /\ DOMAIN seq = 1 .. 3 + 3 * Entries
           /\ \A j \in 1 .. 3 : seq[j] = IF j > from THEN t.table[j - 1] ELSE 0
           /\ \A v \in Pages : seq[v + 4] = IF IndexOf(v) >= from THEN t.page[v] ELSE 0
<1> DEFINE F == Frames \cup {0}
           k == 3
           n == 3 * Entries
           p == [i \in 1 .. 3 |-> IF i > from THEN t.table[i - 1] ELSE 0]
           q == [j \in 1 .. 3 * Entries |-> IF IndexOf(j - 1) >= from THEN t.page[j - 1] ELSE 0]
<1>1. n \in Nat /\ k \in Nat /\ Pages = 0 .. n - 1 /\ 0 \in F
  BY Sizes DEF Pages
<1>2. t.table \in [Indices -> F] /\ t.page \in [Pages -> F]
  BY DEF Drafts
<1>3. \A i \in 1 .. 3 : i - 1 \in Indices
  BY DEF Indices
<1>4. p \in [1 .. 3 -> F]
  BY <1>2, <1>3
<1>5. \A j \in 1 .. n : j - 1 \in Pages
  BY <1>1
<1> HIDE DEF F
<1>6. q \in [1 .. n -> F]
  <2>1. \A j \in 1 .. n : (IF IndexOf(j - 1) >= from THEN t.page[j - 1] ELSE 0) \in F
    BY <1>1, <1>2, <1>5
  <2> HIDE DEF n
  <2> QED
    BY <2>1 DEF n
<1>7. /\ \A j \in 1 .. 3 : p[j] = IF j > from THEN t.table[j - 1] ELSE 0
      /\ \A j \in 1 .. n : q[j] = IF IndexOf(j - 1) >= from THEN t.page[j - 1] ELSE 0
  OBVIOUS
<1>8. seq = p \o q
  BY Zenon DEF SpaceList
<1> HIDE DEF p, q, n, k
<1>9. p \in Seq(F) /\ Len(p) = k /\ q \in Seq(F) /\ Len(q) = n
  <2>1. p \in [1 .. k -> F]
    BY <1>4 DEF k
  <2> QED
    BY <1>1, <1>6, <2>1
<1>10. /\ seq \in Seq(F) /\ Len(seq) = k + n
       /\ \A j \in 1 .. k + n : seq[j] = IF j <= k THEN p[j] ELSE q[j - k]
  <2>1. /\ p \o q \in Seq(F) /\ Len(p \o q) = Len(p) + Len(q)
        /\ \A j \in 1 .. Len(p) + Len(q) : (p \o q)[j] = IF j <= Len(p) THEN p[j] ELSE q[j - Len(p)]
    BY <1>9, ConcatProperties
  <2> QED
    BY <1>8, <1>9, <2>1
<1>11. DOMAIN seq = 1 .. k + n
  BY <1>10, LenProperties
<1>12. ASSUME NEW j \in 1 .. 3 PROVE seq[j] = IF j > from THEN t.table[j - 1] ELSE 0
  <2>1. j \in 1 .. k + n /\ j <= k
    BY <1>1, <1>12 DEF k
  <2>2. seq[j] = p[j]
    BY <1>10, <2>1
  <2>3. p[j] = IF j > from THEN t.table[j - 1] ELSE 0
    BY <1>7
  <2> QED
    BY <2>2, <2>3
<1>13. ASSUME NEW v \in Pages PROVE seq[v + 4] = IF IndexOf(v) >= from THEN t.page[v] ELSE 0
  <2>1. v + 4 \in 1 .. k + n /\ v \in Nat
    BY <1>1, <1>13 DEF k
  <2>2. PICK x \in 1 .. k + n : x = v + 4
    BY <2>1
  <2>3. ~(x <= k) /\ x - k = v + 1 /\ v + 1 \in 1 .. n /\ (v + 1) - 1 = v
    BY <1>1, <1>13, <2>1, <2>2 DEF k
  <2>4. seq[x] = q[x - k]
    BY <1>10, <2>3
  <2>5. q[v + 1] = IF IndexOf((v + 1) - 1) >= from THEN t.page[(v + 1) - 1] ELSE 0
    BY <1>7, <2>3
  <2>6. seq[x] = IF IndexOf(v) >= from THEN t.page[v] ELSE 0
    BY <2>3, <2>4, <2>5, Zenon
  <2> QED
    BY <2>2, <2>6, Zenon
<1> QED
  BY <1>11, <1>12, <1>13 DEF k, n

\* The place the j-th of the list comes from.
SpaceAt(j) == IF j <= 3 THEN TableAt(j - 1) ELSE PageAt(j - 4)

\* Each frame of this list is from a place of its own.
LEMMA SpaceAtIs ==
    ASSUME NEW t \in Drafts, NEW from \in Nat, NEW seq, seq = SpaceList(t, from),
           NEW n, n = 3 + 3 * Entries
    PROVE  /\ \A j \in 1 .. n : /\ SpaceAt(j) \in Places /\ SpaceAt(j) # PdAt
                                /\ seq[j] = 0 \/ seq[j] = FrameIn(t, SpaceAt(j))
           /\ \A i, j \in 1 .. n : SpaceAt(i) = SpaceAt(j) => i = j
<1>1. /\ \A j \in 1 .. 3 : seq[j] = IF j > from THEN t.table[j - 1] ELSE 0
      /\ \A v \in Pages : seq[v + 4] = IF IndexOf(v) >= from THEN t.page[v] ELSE 0
  BY SpaceListIs
<1>2. n \in Nat /\ Entries \in Nat /\ Pages = 0 .. (3 * Entries) - 1
  BY Sizes DEF Pages
<1>3. ASSUME NEW j \in 1 .. n
      PROVE  \/ j \in 1 .. 3 /\ j <= 3 /\ j - 1 \in Indices
             \/ ~(j <= 3) /\ j - 4 \in Pages /\ (j - 4) + 4 = j
  BY <1>2, <1>3 DEF Indices
<1>4. ASSUME NEW j \in 1 .. n
      PROVE  /\ SpaceAt(j) \in Places /\ SpaceAt(j) # PdAt
             /\ seq[j] = 0 \/ seq[j] = FrameIn(t, SpaceAt(j))
  <2>1. CASE j \in 1 .. 3 /\ j <= 3 /\ j - 1 \in Indices
    <3>1. SpaceAt(j) = TableAt(j - 1)
      BY <2>1 DEF SpaceAt
    <3>2. FrameIn(t, SpaceAt(j)) = t.table[j - 1]
      BY <3>1, Cells
    <3>3. seq[j] = 0 \/ seq[j] = t.table[j - 1]
      BY <1>1, <2>1
    <3> QED
      BY <2>1, <3>1, <3>2, <3>3, PlacesAre, PlacesApart
  <2>2. CASE ~(j <= 3) /\ j - 4 \in Pages /\ (j - 4) + 4 = j
    <3> DEFINE v == j - 4
    <3>1. SpaceAt(j) = PageAt(v)
      BY <2>2 DEF SpaceAt
    <3>2. v \in Pages /\ v + 4 = j
      BY <2>2
    <3> HIDE DEF v
    <3>3. FrameIn(t, SpaceAt(j)) = t.page[v]
      BY <3>1, Cells
    <3>4. seq[j] = 0 \/ seq[j] = t.page[v]
      BY <1>1, <3>2
    <3> QED
      BY <3>1, <3>2, <3>3, <3>4, PlacesAre, PlacesApart
  <2> QED
    BY <1>3, <1>4, <2>1, <2>2
<1>5. ASSUME NEW i \in 1 .. n, NEW j \in 1 .. n, SpaceAt(i) = SpaceAt(j) PROVE i = j
  <2>1. i \in Int /\ j \in Int
    BY <1>2, <1>5
  <2>2. CASE i <= 3 /\ j <= 3
    BY <1>5, <2>1, <2>2, PlacesApart DEF SpaceAt
  <2>3. CASE ~(i <= 3) /\ ~(j <= 3)
    BY <1>5, <2>1, <2>3, PlacesApart DEF SpaceAt
  <2>4. CASE (i <= 3) # (j <= 3)
    BY <1>5, <2>4, PlacesApart DEF SpaceAt
  <2> QED
    BY <2>2, <2>3, <2>4
<1> QED
  BY <1>4, <1>5

\* The list and the directory are the frames of the space.
LEMMA SpaceListFrames ==
    ASSUME NEW t \in Drafts, NEW from \in Nat, NEW seq, seq = SpaceList(t, from),
           NEW n, n = 3 + 3 * Entries
    PROVE  ({t.pd} \cup {seq[j] : j \in 1 .. n}) \ {0} = SpaceFrames(t, from)
<1>1. /\ \A j \in 1 .. 3 : seq[j] = IF j > from THEN t.table[j - 1] ELSE 0
      /\ \A v \in Pages : seq[v + 4] = IF IndexOf(v) >= from THEN t.page[v] ELSE 0
  BY SpaceListIs
<1>2. n \in Nat /\ Entries \in Nat /\ Pages = 0 .. (3 * Entries) - 1
  BY Sizes DEF Pages
<1>3. ASSUME NEW f, f # 0, NEW j \in 1 .. n, f = seq[j] PROVE f \in SpaceFrames(t, from)
  <2>1. CASE j <= 3
    <3> DEFINE i == j - 1
    <3>1. j \in 1 .. 3 /\ i \in Indices /\ (j > from <=> i >= from)
      BY <1>2, <2>1 DEF Indices
    <3>2. f = t.table[i] /\ j > from
      BY <1>1, <1>3, <3>1
    <3> HIDE DEF i
    <3> QED
      BY <1>3, <3>1, <3>2 DEF SpaceFrames
  <2>2. CASE ~(j <= 3)
    <3> DEFINE v == j - 4
    <3>1. v \in Pages /\ v + 4 = j
      BY <1>2, <2>2
    <3> HIDE DEF v
    <3>2. IndexOf(v) >= from /\ f = t.page[v]
      BY <1>1, <1>3, <3>1
    <3> QED
      BY <1>3, <3>1, <3>2 DEF SpaceFrames
  <2> QED
    BY <2>1, <2>2
<1>4. ASSUME NEW f, f # 0, NEW i \in Indices, i >= from, f = t.table[i]
      PROVE  \E j \in 1 .. n : f = seq[j]
  <2> DEFINE j == i + 1
  <2>1. j \in 1 .. 3 /\ j \in 1 .. n /\ j > from /\ j - 1 = i
    BY <1>2, <1>4 DEF Indices
  <2> HIDE DEF j
  <2>2. f = seq[j]
    BY <1>1, <1>4, <2>1
  <2> QED
    BY <2>1, <2>2
<1>5. ASSUME NEW f, f # 0, NEW v \in Pages, IndexOf(v) >= from, f = t.page[v]
      PROVE  \E j \in 1 .. n : f = seq[j]
  <2>1. v + 4 \in 1 .. n
    BY <1>2
  <2>2. f = seq[v + 4]
    BY <1>1, <1>5
  <2> QED
    BY <2>1, <2>2
<1>6. ASSUME NEW f PROVE f \in ({t.pd} \cup {seq[j] : j \in 1 .. n}) \ {0} => f \in SpaceFrames(t, from)
  <2>1. t.pd # 0 => t.pd \in SpaceFrames(t, from)
    BY DEF SpaceFrames
  <2> QED
    BY <1>3, <2>1
<1>7. ASSUME NEW f PROVE f \in SpaceFrames(t, from) => f \in ({t.pd} \cup {seq[j] : j \in 1 .. n}) \ {0}
  <2>1. ASSUME f \in SpaceFrames(t, from)
        PROVE  /\ f # 0
               /\ \/ f = t.pd
                  \/ \E i \in Indices : i >= from /\ f = t.table[i]
                  \/ \E v \in Pages : IndexOf(v) >= from /\ f = t.page[v]
    BY <2>1 DEF SpaceFrames
  <2> QED
    BY <1>4, <1>5, <2>1
<1> QED
  BY <1>6, <1>7

\* The frames of a directory are free again, each of which was marked.
LEMMA FreeSpaceKept ==
    ASSUME NEW mem, MemSound(mem), NEW t \in Drafts, Distinct(t), t.pd # 0,
           FramesOf(t) \subseteq mem.bitmap \ HeapFrames(mem), NEW from \in Nat,
           NEW r, r = FreeSpace(mem, t, from)
    PROVE  Freed(mem, SpaceFrames(t, from), r)
<1> DEFINE x == pmm_free_page(mem, t.pd)
           seq == SpaceList(t, from)
           n == 3 + 3 * Entries
           S == {seq[j] : j \in 1 .. n}
<1>1. r = FreeEach(x, seq)
  BY Zenon DEF FreeSpace, FreeEach, SpaceList
<1>2. /\ \A j \in 1 .. n : /\ SpaceAt(j) \in Places /\ SpaceAt(j) # PdAt
                           /\ seq[j] = 0 \/ seq[j] = FrameIn(t, SpaceAt(j))
      /\ \A i, j \in 1 .. n : SpaceAt(i) = SpaceAt(j) => i = j
  BY SpaceAtIs
<1>3. n \in Nat /\ DOMAIN seq = 1 .. n
  BY SpaceListIs, Sizes
<1>4. ({t.pd} \cup S) \ {0} = SpaceFrames(t, from)
  BY SpaceListFrames
<1>5. t.pd \in FramesOf(t)
  BY DEF FramesOf
<1>6. MemSound(x) /\ x.heap = mem.heap /\ x.bitmap = mem.bitmap \ {t.pd} /\ HeapFrames(x) = HeapFrames(mem)
  BY <1>5, FreeSound
<1> HIDE DEF seq, n, x
<1>7. FrameIn(t, PdAt) = t.pd /\ PdAt \in Places
  BY Cells, PlacesAre
<1>8. ASSUME NEW j \in 1 .. n PROVE seq[j] = 0 \/ seq[j] \in x.bitmap \ HeapFrames(x)
  <2>1. ASSUME seq[j] # 0 PROVE seq[j] \in FramesOf(t) /\ seq[j] # t.pd
    <3>1. seq[j] = FrameIn(t, SpaceAt(j)) /\ SpaceAt(j) \in Places /\ SpaceAt(j) # PdAt
      BY <1>2, <2>1
    <3> QED
      BY <1>7, <2>1, <3>1, FramesOfPlaces DEF Distinct
  <2> QED
    BY <1>6, <2>1
<1>9. ASSUME NEW i \in 1 .. n, NEW j \in 1 .. n, seq[i] = seq[j], seq[i] # 0 PROVE i = j
  BY <1>2, <1>9 DEF Distinct
<1>10. FreeList(seq, n, x)
  BY <1>3, <1>8, <1>9 DEF FreeList
<1>11. Freed(x, S, r)
  BY <1>1, <1>6, <1>10, FreeAll
<1>12. 0 \notin mem.bitmap
  BY NoFrameZero
<1> HIDE DEF S
<1>13. r.bitmap = mem.bitmap \ SpaceFrames(t, from)
  BY <1>4, <1>6, <1>11, <1>12 DEF Freed
<1> QED
  BY <1>6, <1>11, <1>13 DEF Freed

-----------------------------------------------------------------------------
(* sys_brk *)

\* Rounding an address up to a page.
LEMMA UpIs ==
    ASSUME NEW a \in 0 .. 2 * Entries, NEW q, q = (a + 1) \div 2
    PROVE  /\ q \in Nat /\ Up(a) = 2 * q /\ Up(a) >= a /\ Up(a) <= 2 * Entries
           /\ Up(a) \div 2 = q
<1> DEFINE E == Entries
           u == 2 * q
<1>1. E \in Nat
  BY Sizes
<1> HIDE DEF E
<1>2. a \in Nat /\ a <= 2 * E
  BY <1>1 DEF E
<1>3. q \in Nat /\ 2 * q <= a + 1 /\ a + 1 <= 2 * q + 1
  BY <1>2
<1>4. Up(a) = u
  BY DEF Up
<1>5. u \in Nat /\ u >= a /\ u <= 2 * E /\ u \div 2 = q
  BY <1>1, <1>2, <1>3
<1> QED
  BY <1>3, <1>4, <1>5 DEF E, u

\* The addresses of Grow are of pages that the heap does not reach over, all
\* of the program's table.
LEMMA GrowPages ==
    ASSUME NEW h \in 0 .. 2 * Entries, NEW end \in 0 .. 2 * Entries, Up(end) > h,
           NEW n, n = (Up(end) + 1 - h) \div 2
    PROVE  /\ n \in Nat
           /\ \A j \in 1 .. n : LET v == (h + (2 * (j - 1))) \div 2
                                IN  v \in Pages /\ v < Entries /\ 2 * (v + 1) > h
<1> DEFINE E == Entries
           u == Up(end)
           q == (end + 1) \div 2
<1>1. u = 2 * q /\ q \in Nat /\ u <= 2 * E /\ u > h
  BY UpIs
<1>2. E \in Nat /\ Pages = 0 .. (3 * E) - 1 /\ h \in Nat
  BY Sizes DEF Pages
<1> HIDE DEF u, q
<1>3. n = (u + 1 - h) \div 2
  BY DEF u
<1>4. n \in Nat /\ 2 * n <= u + 1 - h
  BY <1>1, <1>2, <1>3
<1>5. ASSUME NEW j \in 1 .. n
      PROVE  LET v == (h + (2 * (j - 1))) \div 2
             IN  v \in Pages /\ v < E /\ 2 * (v + 1) > h
  <2> DEFINE a == h + (2 * (j - 1))
             v == a \div 2
  <2>1. a \in Nat /\ a >= h /\ a < u
    BY <1>1, <1>2, <1>4, <1>5
  <2> HIDE DEF a
  <2>2. v \in Nat /\ 2 * v <= a /\ a < 2 * (v + 1)
    BY <2>1
  <2> HIDE DEF v, E
  <2>3. v < E /\ 2 * (v + 1) > h /\ v \in 0 .. (3 * E) - 1
    BY <1>1, <1>2, <2>1, <2>2
  <2> QED
    BY <1>2, <2>3 DEF v, a
<1> QED
  BY <1>4, <1>5

Growing == [s : Drafting, failed : BOOLEAN, lost : SUBSET (Frames \cup {0})]

\* What a larger end leaves: the pages that the heap reaches over, and those
\* of the stack.
HeapOnly(t, new) ==
    /\ Carries(t, new) /\ new.pd = t.pd /\ new.kernel_stack = t.kernel_stack
    /\ \A v \in Pages : v >= Entries \/ 2 * (v + 1) <= t.heap_end => new.page[v] = t.page[v]

\* The turns have given frames; the pages that were mapped again are lost.
Grown(c, seq, i, x) ==
    x \in Growing /\ Kept(c.mem, c.base, x.s, x.lost \ {0}) /\ HeapOnly(c.t, x.s.t)

GrowTo(c, x, address) ==
    IF x.failed THEN x
    ELSE IF pmm_alloc_page(x.s.m).frame = 0 THEN [x EXCEPT !.failed = TRUE]
    ELSE [x EXCEPT !.s = MapNew(x.s, address \div 2),
                   !.lost = @ \cup {x.s.t.page[address \div 2]}]
Grows == INSTANCE SequenceLemmas WITH Body <- GrowTo, Kept <- Grown

\* One turn of sys_brk's loop for a larger end.
LEMMA GrowStep ==
    ASSUME NEW c, NEW seq, NEW i, NEW j, NEW x, Grown(c, seq, i, x), NEW address, NEW v \in Pages,
           v = address \div 2, v < Entries, 2 * (v + 1) > c.t.heap_end, c.t.heap_end \in Nat,
           NEW r, r = GrowTo(c, x, address)
    PROVE  Grown(c, seq, j, r)
<1> DEFINE q == MapNew(x.s, v)
           p == x.s.t.page[v]
           more == x.lost \cup {p}
<1>1. x \in Growing /\ Kept(c.mem, c.base, x.s, x.lost \ {0}) /\ HeapOnly(c.t, x.s.t)
  BY DEF Grown
<1>2. CASE x.failed
  BY <1>1, <1>2 DEF GrowTo, Grown
<1>3. CASE ~x.failed /\ pmm_alloc_page(x.s.m).frame = 0
  <2>1. r = [x EXCEPT !.failed = TRUE]
    BY <1>3 DEF GrowTo
  <2>2. r \in Growing /\ r.s = x.s /\ r.lost = x.lost
    BY <1>1, <2>1 DEF Growing
  <2> QED
    BY <1>1, <2>2 DEF Grown
<1>4. CASE ~x.failed /\ pmm_alloc_page(x.s.m).frame # 0
  <2>1. r = [x EXCEPT !.s = q, !.lost = more]
    BY <1>4 DEF GrowTo
  <2>2. Kept(c.mem, c.base, q, (x.lost \ {0}) \cup ({p} \ {0})) /\ OnlyPage(x.s.t, v, q.t)
    BY <1>1, MapNewKept
  <2>3. p \in Frames \cup {0}
    BY <1>1 DEF Growing, Drafting, Drafts
  <2> HIDE DEF q, p
  <2>4. more \in SUBSET (Frames \cup {0})
    BY <1>1, <2>3 DEF Growing
  <2>5. (x.lost \ {0}) \cup ({p} \ {0}) = more \ {0}
    OBVIOUS
  <2>6. q \in Drafting
    BY <2>2 DEF Kept
  <2> HIDE DEF more
  <2>7. r \in Growing /\ r.s = q /\ r.lost = more
    BY <1>1, <2>1, <2>4, <2>6 DEF Growing
  <2>8. HeapOnly(c.t, q.t)
    <3>1. ASSUME NEW w \in Pages, w >= Entries \/ 2 * (w + 1) <= c.t.heap_end PROVE q.t.page[w] = c.t.page[w]
      <4>1. w # v
        BY <3>1, Sizes DEF Pages
      <4> QED
        BY <1>1, <2>2, <3>1, <4>1 DEF HeapOnly, OnlyPage
    <3> QED
      BY <1>1, <2>2, <3>1 DEF HeapOnly, OnlyPage, Carries
  <2> QED
    BY <2>2, <2>5, <2>7, <2>8 DEF Grown
<1> QED
  BY <1>2, <1>3, <1>4
GrowAddresses(h, end) == [j \in 1 .. (Up(end) + 1 - h) \div 2 |-> h + (2 * (j - 1))]

\* A larger end: the frames taken are in the heap, what was mapped there before is lost.
LEMMA GrowKept ==
    ASSUME NEW mem, NEW base, NEW s, Kept(mem, base, s, {}), NEW end \in 0 .. 2 * Entries,
           Up(end) > s.t.heap_end, NEW g, g = Grow(s, end)
    PROVE  g \in Growing /\ Kept(mem, base, g.s, g.lost \ {0}) /\ HeapOnly(s.t, g.s.t)
<1> DEFINE c == [mem |-> mem, base |-> base, t |-> s.t]
           h == s.t.heap_end
           n == (Up(end) + 1 - h) \div 2
           seq == GrowAddresses(h, end)
           first == [s |-> s, failed |-> FALSE, lost |-> {}]
<1>0. c.mem = mem /\ c.base = base /\ c.t = s.t
  OBVIOUS
<1>1. s \in Drafting /\ h \in 0 .. 2 * Entries /\ h \in Nat
  BY Sizes DEF Kept, Drafting, Drafts
<1>2. /\ n \in Nat
      /\ \A j \in 1 .. n : LET v == (h + (2 * (j - 1))) \div 2
                           IN  v \in Pages /\ v < Entries /\ 2 * (v + 1) > h
  <2> HIDE DEF h
  <2> QED
    BY <1>1, GrowPages DEF h
<1>3. DOMAIN seq = 1 .. n /\ \A j \in 1 .. n : seq[j] = h + (2 * (j - 1))
  BY DEF GrowAddresses
<1> HIDE DEF c
<1>4. g = Grows!Fold(c, first, seq)
  BY Zenon DEF Grow, GrowAddresses, GrowTo, Grows!Fold, Grows!MapThenFoldSet, Grows!Largest,
     FoldLeft, MapThenFoldSet, Max
<1>5. Grown(c, seq, 0, first)
  <2>1. first \in Growing /\ first.s = s /\ first.lost \ {0} = {}
    BY <1>1 DEF Growing
  <2> HIDE DEF first
  <2> QED
    BY <1>0, <2>1 DEF Grown, HeapOnly, Carries
<1> HIDE DEF first, seq, n
<1>6. ASSUME NEW i \in 0 .. n - 1, NEW b, Grown(c, seq, i, b)
      PROVE  Grown(c, seq, i + 1, GrowTo(c, b, seq[i + 1]))
  <2> DEFINE address == seq[i + 1]
             v == address \div 2
             k == i + 1
  <2>1. k \in 1 .. n
    BY <1>2, <1>6
  <2>2. v \in Pages /\ v < Entries /\ 2 * (v + 1) > h
    <3> HIDE DEF k
    <3>1. seq[k] = h + (2 * (k - 1))
      BY <1>3, <2>1
    <3>2. (h + (2 * (k - 1))) \div 2 \in Pages /\ (h + (2 * (k - 1))) \div 2 < Entries
          /\ 2 * ((h + (2 * (k - 1))) \div 2 + 1) > h
      BY <1>2, <2>1
    <3>3. seq[k] \div 2 \in Pages /\ seq[k] \div 2 < Entries /\ 2 * ((seq[k] \div 2) + 1) > h
      BY <3>1, <3>2, Zenon
    <3> QED
      BY <3>3, Zenon DEF k
  <2>3. c.t.heap_end = h
    BY <1>0
  <2> HIDE DEF address, h
  <2>4. Grown(c, seq, k, GrowTo(c, b, address))
    BY <1>1, <1>6, <2>2, <2>3, GrowStep
  <2> QED
    BY <2>4 DEF address, k
<1>7. Grown(c, seq, n, g)
  BY <1>2, <1>3, <1>4, <1>5, <1>6, Grows!LoopRule
<1> QED
  BY <1>0, <1>7 DEF Grown

\* The pages of Shrink, which the heap no longer reaches.
LEMMA ShrinkPages ==
    ASSUME NEW h \in 0 .. 2 * Entries, NEW end \in 0 .. 2 * Entries, ~(Up(end) > h),
           NEW n, n = (h + 1 - Up(end)) \div 2
    PROVE  /\ n \in Nat
           /\ \A j \in 1 .. n : LET v == (Up(end) \div 2) + j - 1
                                IN  v \in Pages /\ v < Entries /\ 2 * v >= end
<1> DEFINE E == Entries
           u == Up(end)
           q == (end + 1) \div 2
<1>1. u = 2 * q /\ q \in Nat /\ u <= h /\ u \div 2 = q /\ u >= end
  BY UpIs, Sizes
<1>2. E \in Nat /\ Pages = 0 .. (3 * E) - 1 /\ h \in Nat /\ h <= 2 * E /\ end \in Nat
  BY Sizes DEF Pages
<1> HIDE DEF u, q, E
<1>3. n = (h + 1 - u) \div 2
  BY DEF u
<1>4. n \in Nat /\ 2 * n <= h + 1 - u
  BY <1>1, <1>2, <1>3
<1>5. ASSUME NEW j \in 1 .. n PROVE q + j - 1 \in 0 .. (3 * E) - 1 /\ q + j - 1 < E /\ 2 * (q + j - 1) >= end
  BY <1>1, <1>2, <1>4, <1>5
<1> QED
  BY <1>1, <1>2, <1>4, <1>5 DEF u, E

\* What a smaller end leaves.
HeapBelow(t, end, new) ==
    /\ Carries(t, new) /\ new.pd = t.pd /\ new.kernel_stack = t.kernel_stack
    /\ \A v \in Pages : v >= Entries \/ 2 * v < end => new.page[v] = t.page[v]

\* The pages that are gone are free again.
Shed(mem, t, x) ==
    /\ x \in Drafting /\ MemSound(x.m) /\ x.m.heap = mem.heap /\ Distinct(x.t)
    /\ FramesOf(x.t) \subseteq FramesOf(t)
    /\ x.m.bitmap = mem.bitmap \ (FramesOf(t) \ FramesOf(x.t))

Shrunk(c, seq, i, x) == Shed(c.s.m, c.s.t, x) /\ HeapBelow(c.s.t, c.end, x.t)

ShrinkTo(c, x, v) ==
    IF x.t.page[v] = 0 THEN x
    ELSE [x EXCEPT !.m = pmm_free_page(@, x.t.page[v]), !.t.page[v] = 0]
Shrinks == INSTANCE SequenceLemmas WITH Body <- ShrinkTo, Kept <- Shrunk

\* An owned frame is taken out of its place and free again.
LEMMA ShedOne ==
    ASSUME NEW mem, NEW t, FramesOf(t) \subseteq mem.bitmap \ HeapFrames(mem), NEW x, Shed(mem, t, x),
           NEW y \in Places, NEW f, f = FrameIn(x.t, y), f # 0,
           NEW r \in Drafting, r.m = pmm_free_page(x.m, f), PutIn(x.t, y, 0, r.t)
    PROVE  Shed(mem, t, r)
<1> DEFINE F == FramesOf(x.t)
           G == FramesOf(r.t)
           In(z) == FrameIn(x.t, z)
           New(z) == FrameIn(r.t, z)
<1>1. /\ x \in Drafting /\ MemSound(x.m) /\ x.m.heap = mem.heap
      /\ \A z, w \in Places : In(z) = In(w) /\ In(z) # 0 => z = w
      /\ F \subseteq FramesOf(t) /\ x.m.bitmap = mem.bitmap \ (FramesOf(t) \ F)
  BY DEF Shed, Distinct
<1>2. \A z \in Places : New(z) = IF z = y THEN 0 ELSE In(z)
  BY DEF PutIn
<1>3. F = {In(z) : z \in Places} \ {0} /\ G = {New(z) : z \in Places} \ {0}
  BY FramesOfPlaces
<1>4. f = In(y)
  OBVIOUS
<1> HIDE DEF F, G, In, New
<1>5. G = F \ {f} /\ f \in F
  <2>1. ASSUME NEW g \in G PROVE g \in F \ {f}
    BY <1>1, <1>2, <1>3, <1>4, <2>1
  <2>2. ASSUME NEW g \in F \ {f} PROVE g \in G
    BY <1>1, <1>2, <1>3, <1>4, <2>2
  <2> QED
    BY <1>3, <1>4, <2>1, <2>2
<1>6. \A z, w \in Places : New(z) = New(w) /\ New(z) # 0 => z = w
  BY <1>1, <1>2
<1>7. f \in x.m.bitmap \ HeapFrames(x.m)
  <2>1. HeapFrames(x.m) = HeapFrames(mem)
    BY <1>1, SameHeapFrames
  <2> QED
    BY <1>1, <1>5, <2>1
<1>8. MemSound(r.m) /\ r.m.heap = x.m.heap /\ r.m.bitmap = x.m.bitmap \ {f}
  <2> DEFINE a == x.m
             b == r.m
  <2>1. MemSound(a) /\ f \in a.bitmap \ HeapFrames(a) /\ b = pmm_free_page(a, f)
    BY <1>1, <1>7
  <2> HIDE DEF a, b
  <2>2. MemSound(b) /\ b.heap = a.heap /\ b.bitmap = a.bitmap \ {f}
    BY <2>1, FreeSound
  <2> QED
    BY <2>2 DEF a, b
<1>9. r.m.bitmap = mem.bitmap \ (FramesOf(t) \ G)
  BY <1>1, <1>5, <1>8
<1>10. Distinct(r.t)
  BY <1>6 DEF Distinct, New
<1> QED
  BY <1>1, <1>5, <1>8, <1>9, <1>10 DEF Shed, G

\* One turn of sys_brk's loop for a smaller end.
LEMMA ShrinkStep ==
    ASSUME NEW c, FramesOf(c.s.t) \subseteq c.s.m.bitmap \ HeapFrames(c.s.m), NEW seq, NEW i, NEW j, NEW x,
           Shrunk(c, seq, i, x), NEW v \in Pages, v < Entries, 2 * v >= c.end, c.end \in Nat,
           NEW r, r = ShrinkTo(c, x, v)
    PROVE  Shrunk(c, seq, j, r)
<1> DEFINE f == x.t.page[v]
           mem == pmm_free_page(x.m, f)
           t == [x.t EXCEPT !.page[v] = 0]
<1>1. Shed(c.s.m, c.s.t, x) /\ HeapBelow(c.s.t, c.end, x.t) /\ x \in Drafting /\ x.t \in Drafts /\ x.m \in Memories
  BY DEF Shrunk, Shed, Drafting
<1>2. CASE f = 0
  <2>1. r = x
    BY <1>2, Zenon DEF ShrinkTo
  <2> QED
    BY <1>1, <2>1 DEF Shrunk
<1>3. CASE f # 0
  <2>1. r = [x EXCEPT !.m = mem, !.t.page[v] = 0]
    BY <1>3, Zenon DEF ShrinkTo
  <2>2. PutIn(x.t, PageAt(v), 0, t)
    <3>1. 0 \in Frames \cup {0}
      OBVIOUS
    <3> QED
      BY <1>1, <3>1, PutPage, Zenon
  <2>3. mem \in Memories
    <3>1. mem = x.m \/ mem = [x.m EXCEPT !.bitmap = @ \ {f}, !.used = @ - 1]
      BY Zenon DEF pmm_free_page
    <3>2. FrameIn(x.t, PageAt(v)) = f /\ PageAt(v) \in Places
      BY Cells, PlacesAre
    <3> HIDE DEF f
    <3>3. f \in FramesOf(x.t)
      BY <1>3, <3>2, FramesOfPlaces
    <3>4. HeapFrames(x.m) = HeapFrames(c.s.m)
      BY <1>1, SameHeapFrames DEF Shed
    <3>5. MemSound(x.m) /\ f \in x.m.bitmap \ HeapFrames(x.m)
      BY <1>1, <3>3, <3>4 DEF Shed
    <3>6. \A new : new = pmm_free_page(x.m, f) => MemSound(new)
      BY <3>5, FreeSound
    <3> QED
      BY <3>6 DEF MemSound
  <2> HIDE DEF mem
  <2>4. r = [x EXCEPT !.m = mem, !.t = t]
    BY <1>1, <2>1 DEF Drafting
  <2>5. t \in Drafts
    BY <2>2 DEF PutIn
  <2> HIDE DEF t
  <2>6. r \in Drafting /\ r.m = mem /\ r.t = t
    BY <1>1, <2>3, <2>4, <2>5 DEF Drafting
  <2>7. PageAt(v) \in Places /\ FrameIn(x.t, PageAt(v)) = f
    BY PlacesAre, Cells
  <2>8. Shed(c.s.m, c.s.t, r)
    BY <1>1, <1>3, <2>2, <2>6, <2>7, ShedOne DEF mem
  <2>9. OnlyPage(x.t, v, t)
    BY <2>2, PutInPage
  <2>10. HeapBelow(c.s.t, c.end, t)
    <3>1. ASSUME NEW w \in Pages, w >= Entries \/ 2 * w < c.end PROVE t.page[w] = c.s.t.page[w]
      <4>1. w # v
        BY <3>1, Sizes DEF Pages
      <4> QED
        BY <1>1, <2>9, <3>1, <4>1 DEF HeapBelow, OnlyPage
    <3> QED
      BY <1>1, <2>9, <3>1 DEF HeapBelow, OnlyPage, Carries
  <2> QED
    BY <2>6, <2>8, <2>10 DEF Shrunk
<1> QED
  BY <1>2, <1>3

ShrinkList(h, end) == [j \in 1 .. (h + 1 - Up(end)) \div 2 |-> (Up(end) \div 2) + j - 1]

\* A smaller end: what the process has less is not marked any more.
LEMMA ShrinkKept ==
    ASSUME NEW s \in Drafting, MemSound(s.m), Distinct(s.t),
           FramesOf(s.t) \subseteq s.m.bitmap \ HeapFrames(s.m),
           NEW end \in 0 .. 2 * Entries, ~(Up(end) > s.t.heap_end), NEW r, r = Shrink(s, end)
    PROVE  Shed(s.m, s.t, r) /\ HeapBelow(s.t, end, r.t)
<1> DEFINE c == [s |-> s, end |-> end]
           h == s.t.heap_end
           n == (h + 1 - Up(end)) \div 2
           seq == ShrinkList(h, end)
<1>0. c.s = s /\ c.end = end
  OBVIOUS
<1>1. h \in 0 .. 2 * Entries /\ end \in Nat
  BY Sizes DEF Drafting, Drafts
<1>2. /\ n \in Nat
      /\ \A j \in 1 .. n : LET v == (Up(end) \div 2) + j - 1
                           IN  v \in Pages /\ v < Entries /\ 2 * v >= end
  <2> HIDE DEF h
  <2> QED
    BY <1>1, ShrinkPages DEF h
<1>3. DOMAIN seq = 1 .. n /\ \A j \in 1 .. n : seq[j] = (Up(end) \div 2) + j - 1
  BY DEF ShrinkList
<1> HIDE DEF c
<1>4. r = Shrinks!Fold(c, s, seq)
  BY Zenon DEF Shrink, ShrinkList, ShrinkTo, Shrinks!Fold, Shrinks!MapThenFoldSet,
     Shrinks!Largest, FoldLeft, MapThenFoldSet, Max
<1>5. Shrunk(c, seq, 0, s)
  <2>1. s.m.bitmap \ (FramesOf(s.t) \ FramesOf(s.t)) = s.m.bitmap
    OBVIOUS
  <2> QED
    BY <1>0, <2>1 DEF Shrunk, Shed, HeapBelow, Carries
<1> HIDE DEF seq, n, h
<1>6. ASSUME NEW i \in 0 .. n - 1, NEW b, Shrunk(c, seq, i, b)
      PROVE  Shrunk(c, seq, i + 1, ShrinkTo(c, b, seq[i + 1]))
  <2> DEFINE v == seq[i + 1]
             k == i + 1
  <2>1. k \in 1 .. n
    BY <1>2, <1>6
  <2>2. v \in Pages /\ v < Entries /\ 2 * v >= end
    <3> HIDE DEF k
    <3>1. seq[k] \in Pages /\ seq[k] < Entries /\ 2 * seq[k] >= end
      BY <1>2, <1>3, <2>1, Zenon
    <3> QED
      BY <3>1, Zenon DEF k
  <2> HIDE DEF v
  <2>4. Shrunk(c, seq, k, ShrinkTo(c, b, v))
    BY <1>0, <1>1, <1>6, <2>2, ShrinkStep
  <2> QED
    BY <2>4 DEF v, k
<1>7. Shrunk(c, seq, n, r)
  BY <1>2, <1>3, <1>4, <1>5, <1>6, Shrinks!LoopRule
<1> QED
  BY <1>0, <1>7 DEF Shrunk

-----------------------------------------------------------------------------
(* Who owns what *)

\* All that there is belongs to one of the owners in D, who have what fr says,
\* or is one of three other parts; none of it has two owners.
Shares(D, fr, A, B, C, all) ==
    /\ \A p \in D : fr[p] \cap (A \cup B \cup C) = {}
    /\ \A p, q \in D : p # q => fr[p] \cap fr[q] = {}
    /\ A \cap B = {} /\ A \cap C = {} /\ B \cap C = {}
    /\ all = (UNION {fr[p] : p \in D}) \cup A \cup B \cup C

Points(D, fr, A, B, C, all) ==
    /\ \A p \in D : \A x : x \in fr[p] => x \notin A /\ x \notin B /\ x \notin C /\ x \in all
    /\ \A p, q \in D : \A x : x \in fr[p] /\ x \in fr[q] => p = q
    /\ \A x : ~(x \in A /\ x \in B) /\ ~(x \in A /\ x \in C) /\ ~(x \in B /\ x \in C)
    /\ \A x : (x \in A \/ x \in B \/ x \in C) => x \in all
    /\ \A x : x \in all => (x \in A \/ x \in B \/ x \in C \/ \E p \in D : x \in fr[p])

\* Shares, element by element.
LEMMA SharesToPoints ==
    ASSUME NEW D, NEW fr, NEW A, NEW B, NEW C, NEW all, Shares(D, fr, A, B, C, all)
    PROVE  Points(D, fr, A, B, C, all)
<1> DEFINE U == UNION {fr[p] : p \in D}
<1>1. /\ \A p \in D : fr[p] \cap (A \cup B \cup C) = {}
      /\ \A p, q \in D : p # q => fr[p] \cap fr[q] = {}
      /\ A \cap B = {} /\ A \cap C = {} /\ B \cap C = {}
      /\ all = U \cup A \cup B \cup C
  BY DEF Shares
<1>2. \A x : x \in U <=> \E p \in D : x \in fr[p]
  BY Zenon
<1> HIDE DEF U
<1>3. ASSUME NEW p \in D, NEW x, x \in fr[p] PROVE x \notin A /\ x \notin B /\ x \notin C /\ x \in all
  BY <1>1, <1>2, <1>3
<1>4. ASSUME NEW p \in D, NEW q \in D, NEW x, x \in fr[p], x \in fr[q] PROVE p = q
  BY <1>1, <1>4
<1>5. ASSUME NEW x
      PROVE  /\ ~(x \in A /\ x \in B) /\ ~(x \in A /\ x \in C) /\ ~(x \in B /\ x \in C)
             /\ (x \in A \/ x \in B \/ x \in C) => x \in all
             /\ x \in all => (x \in A \/ x \in B \/ x \in C \/ \E p \in D : x \in fr[p])
  BY <1>1, <1>2
<1> QED
  BY <1>3, <1>4, <1>5 DEF Points

\* And back.
LEMMA PointsToShares ==
    ASSUME NEW D, NEW fr, NEW A, NEW B, NEW C, NEW all, Points(D, fr, A, B, C, all)
    PROVE  Shares(D, fr, A, B, C, all)
<1> DEFINE U == UNION {fr[p] : p \in D}
<1>2. \A x : x \in U <=> \E p \in D : x \in fr[p]
  BY Zenon
<1> HIDE DEF U
<1>3. ASSUME NEW p \in D PROVE fr[p] \cap (A \cup B \cup C) = {}
  BY DEF Points
<1>4. ASSUME NEW p \in D, NEW q \in D, p # q PROVE fr[p] \cap fr[q] = {}
  <2>1. \A x : ~(x \in fr[p] /\ x \in fr[q])
    BY <1>4, Zenon DEF Points
  <2> QED
    BY <2>1
<1>5. A \cap B = {} /\ A \cap C = {} /\ B \cap C = {}
  <2>1. \A x : ~(x \in A /\ x \in B) /\ ~(x \in A /\ x \in C) /\ ~(x \in B /\ x \in C)
    BY Zenon DEF Points
  <2>2. A \cap B = {}
    BY <2>1
  <2>3. A \cap C = {}
    BY <2>1
  <2>4. B \cap C = {}
    BY <2>1
  <2> QED
    BY <2>2, <2>3, <2>4
<1>6. ASSUME NEW x \in all PROVE x \in U \cup A \cup B \cup C
  BY <1>2, <1>6, Zenon DEF Points
<1>7. ASSUME NEW x \in U \cup A \cup B \cup C PROVE x \in all
  <2>1. x \in U \/ x \in A \/ x \in B \/ x \in C
    BY <1>7
  <2> QED
    BY <1>2, <2>1, Zenon DEF Points
<1>8. all = U \cup A \cup B \cup C
  BY <1>6, <1>7
<1> QED
  BY <1>3, <1>4, <1>5, <1>8 DEF Shares, U

\* Everything shared is part of the whole.
LEMMA SharesIn ==
    ASSUME NEW D, NEW fr, NEW A, NEW B, NEW C, NEW all, Shares(D, fr, A, B, C, all)
    PROVE  A \subseteq all /\ B \subseteq all /\ C \subseteq all /\ \A p \in D : fr[p] \subseteq all
<1>1. Points(D, fr, A, B, C, all)
  BY SharesToPoints
<1>2. \A x : (x \in A \/ x \in B \/ x \in C) => x \in all
  BY <1>1, Zenon DEF Points
<1>3. \A p \in D : \A x : x \in fr[p] => x \in all
  BY <1>1, Zenon DEF Points
<1> QED
  BY <1>2, <1>3

\* The first part gains some that nobody had.
LEMMA SharesGrow ==
    ASSUME NEW D, NEW fr, NEW A, NEW B, NEW C, NEW all, Shares(D, fr, A, B, C, all),
           NEW N, N \cap all = {}
    PROVE  Shares(D, fr, A \cup N, B, C, all \cup N)
<1>1. Points(D, fr, A, B, C, all)
  BY SharesToPoints
<1>2. Points(D, fr, A \cup N, B, C, all \cup N)
  BY <1>1 DEF Points
<1> QED
  BY <1>2, PointsToShares

\* The first part gives some away.
LEMMA SharesShrink ==
    ASSUME NEW D, NEW fr, NEW A, NEW B, NEW C, NEW all, Shares(D, fr, A, B, C, all),
           NEW S, S \subseteq A
    PROVE  Shares(D, fr, A \ S, B, C, all \ S)
<1>1. Points(D, fr, A, B, C, all)
  BY SharesToPoints
<1>2. Points(D, fr, A \ S, B, C, all \ S)
  BY <1>1 DEF Points
<1> QED
  BY <1>2, PointsToShares

\* Another owner, of what nobody had.
LEMMA SharesNew ==
    ASSUME NEW D, NEW fr, NEW A, NEW B, NEW C, NEW all, Shares(D, fr, A, B, C, all),
           NEW N, N \cap all = {}, NEW q, q \notin D, NEW gr,
           gr[q] = N, \A p \in D : gr[p] = fr[p]
    PROVE  Shares(D \cup {q}, gr, A, B, C, all \cup N)
<1>1. Points(D, fr, A, B, C, all)
  BY SharesToPoints
<1>2. Points(D \cup {q}, gr, A, B, C, all \cup N)
  BY <1>1 DEF Points
<1> QED
  BY <1>2, PointsToShares

\* An owner gains some that nobody had and loses some to the third part.
Changes(D, fr, q, lost, gain, gr) ==
    /\ q \in D /\ gr[q] \cap lost = {} /\ gr[q] \cup lost = fr[q] \cup gain
    /\ \A p \in D : p # q => gr[p] = fr[p]

\* An owner gains some that nobody had and loses some to the third part.
LEMMA SharesChange ==
    ASSUME NEW D, NEW fr, NEW A, NEW B, NEW C, NEW all, Shares(D, fr, A, B, C, all),
           NEW q, NEW lost, NEW gain, gain \cap all = {}, NEW gr, Changes(D, fr, q, lost, gain, gr)
    PROVE  Shares(D, gr, A, B, C \cup lost, all \cup gain)
<1> DEFINE F == gr[q]
<1>0. /\ q \in D /\ F \cap lost = {} /\ F \cup lost = fr[q] \cup gain
      /\ \A p \in D : p # q => gr[p] = fr[p]
  BY DEF Changes
<1>1. Points(D, fr, A, B, C, all)
  BY SharesToPoints
<1>3. \A x : (x \in F \/ x \in lost) <=> (x \in fr[q] \/ x \in gain)
  <2>1. \A x : x \in F \cup lost <=> x \in fr[q] \cup gain
    BY <1>0
  <2> QED
    BY <2>1, Zenon
<1>2. Points(D, gr, A, B, C \cup lost, all \cup gain)
  BY <1>0, <1>1, <1>3 DEF Points
<1> QED
  BY <1>2, PointsToShares

\* An owner gives some away.
LEMMA SharesShed ==
    ASSUME NEW D, NEW fr, NEW A, NEW B, NEW C, NEW all, Shares(D, fr, A, B, C, all),
           NEW q \in D, NEW F, F \subseteq fr[q], NEW gr,
           gr[q] = F, \A p \in D : p # q => gr[p] = fr[p]
    PROVE  Shares(D, gr, A, B, C, all \ (fr[q] \ F))
<1>1. Points(D, fr, A, B, C, all)
  BY SharesToPoints
<1>2. Points(D, gr, A, B, C, all \ (fr[q] \ F))
  BY <1>1 DEF Points
<1> QED
  BY <1>2, PointsToShares

\* An owner is gone, and what it had is the third part's or nobody's.
LEMMA SharesLeave ==
    ASSUME NEW D, NEW fr, NEW A, NEW B, NEW C, NEW all, Shares(D, fr, A, B, C, all),
           NEW q \in D, NEW gr, \A p \in D \ {q} : gr[p] = fr[p]
    PROVE  /\ Shares(D \ {q}, gr, A, B, C \cup fr[q], all)
           /\ Shares(D \ {q}, gr, A, B, C, all \ fr[q])
<1>1. Points(D, fr, A, B, C, all)
  BY SharesToPoints
<1>2. Points(D \ {q}, gr, A, B, C \cup fr[q], all)
  BY <1>1 DEF Points
<1>3. Points(D \ {q}, gr, A, B, C, all \ fr[q])
  BY <1>1 DEF Points
<1> QED
  BY <1>2, <1>3, PointsToShares

\* Some of the third part is nobody's any more.
LEMMA SharesForget ==
    ASSUME NEW D, NEW fr, NEW A, NEW B, NEW C, NEW all, Shares(D, fr, A, B, C, all),
           NEW S, S \subseteq C
    PROVE  Shares(D, fr, A, B, C \ S, all \ S)
<1>1. Points(D, fr, A, B, C, all)
  BY SharesToPoints
<1>2. Points(D, fr, A, B, C \ S, all \ S)
  BY <1>1 DEF Points
<1> QED
  BY <1>2, PointsToShares

\* Nothing has changed for the owners.
LEMMA SharesSame ==
    ASSUME NEW D, NEW fr, NEW A, NEW B, NEW C, NEW all, Shares(D, fr, A, B, C, all),
           NEW gr, \A p \in D : gr[p] = fr[p]
    PROVE  Shares(D, gr, A, B, C, all)
<1>1. Points(D, fr, A, B, C, all)
  BY SharesToPoints
<1>2. Points(D, gr, A, B, C, all)
  BY <1>1 DEF Points
<1> QED
  BY <1>2, PointsToShares

-----------------------------------------------------------------------------
(* The inductive invariant *)

\* A process that is complete: no frame is in two of its places, and its
\* scratch page is not mapped.
Sound(t) == t \in Processes /\ Distinct(t) /\ t.page[Scratch] = 0

FramesBy(tasks) == [p \in DOMAIN tasks |-> FramesOf(tasks[p])]
BlocksBy(tasks) == [p \in DOMAIN tasks |-> {tasks[p].block}]

\* A marked frame is one process's, the heap's, the kernel's or leaked.
FramesShared(mem, tasks, kern, lost) ==
    Shares(DOMAIN tasks, FramesBy(tasks), HeapFrames(mem), {kern.frame}, lost.frames, mem.bitmap)

\* A block that is not free is one process's, a pipe's, the kernel's or leaked.
BlocksShared(mem, tasks, kern, lost, open) ==
    Shares(DOMAIN tasks, BlocksBy(tasks), open, {kern.block}, lost.blocks, Taken(mem))

\* The inductive invariant.  As long as no failed allocation went unnoticed,
\* each process is sound and frames and blocks are divided.
IInv ==
    /\ MemSound(m)
    /\ task_to_free \in DOMAIN task \cup {0} /\ DOMAIN task \subseteq Pids
    /\ leaked \in [frames : SUBSET Frames, blocks : SUBSET Nat]
    /\ ~starved => /\ \A p \in DOMAIN task : Sound(task[p])
                   /\ FramesShared(m, task, kernel, leaked)
                   /\ BlocksShared(m, task, kernel, leaked, pipes)

\* What a sound process has.
LEMMA SoundIs ==
    ASSUME NEW t, Sound(t)
    PROVE  /\ t \in Drafts /\ t \in Processes /\ Distinct(t) /\ t.page[Scratch] = 0
           /\ t.pd # 0 /\ t.kernel_stack # 0 /\ t.block \in Nat
           /\ t.pd \in FramesOf(t) /\ t.kernel_stack \in FramesOf(t) /\ t.pd # t.kernel_stack
           /\ t.heap_end \in 0 .. 2 * Entries
<1>1. t \in Processes /\ Distinct(t) /\ t.page[Scratch] = 0
  BY DEF Sound
<1>2. Frames \subseteq Nat \ {0}
  BY FramesAssumption DEF FramesAssumption
<1>3. t \in Drafts /\ t.pd \in Frames /\ t.kernel_stack \in Frames /\ t.block \in Nat
      /\ t.heap_end \in 0 .. 2 * Entries
  BY <1>1 DEF Processes, Drafts
<1>4. t.pd # 0 /\ t.kernel_stack # 0
  BY <1>2, <1>3
<1>5. t.pd \in FramesOf(t) /\ t.kernel_stack \in FramesOf(t)
  BY <1>4 DEF FramesOf
<1>6. t.pd # t.kernel_stack
  BY <1>1, <1>4, Cells, PlacesAre, PlacesApart DEF Distinct
<1> QED
  BY <1>1, <1>3, <1>4, <1>5, <1>6

\* What makes a draft a sound process.
LEMMA SoundFrom ==
    ASSUME NEW t \in Drafts, Distinct(t), t.page[Scratch] = 0, t.pd # 0, t.kernel_stack # 0
    PROVE  Sound(t)
<1>1. t \in Processes
  BY DEF Drafts, Processes
<1> QED
  BY <1>1 DEF Sound

\* Of a process only its frames and their places matter.
LEMMA SameFrames ==
    ASSUME NEW t, NEW u, t.pd = u.pd, t.kernel_stack = u.kernel_stack, t.table = u.table, t.page = u.page
    PROVE  FramesOf(t) = FramesOf(u) /\ (Distinct(t) <=> Distinct(u))
<1>1. FramesOf(t) = FramesOf(u)
  BY DEF FramesOf
<1>2. ASSUME NEW x \in Places PROVE FrameIn(t, x) = FrameIn(u, x)
  <2>1. CASE x = PdAt \/ x = StackAt
    BY <2>1, Cells
  <2>2. ASSUME NEW i \in Indices, x = TableAt(i) PROVE FrameIn(t, x) = FrameIn(u, x)
    BY <2>2, Cells
  <2>3. ASSUME NEW v \in Pages, x = PageAt(v) PROVE FrameIn(t, x) = FrameIn(u, x)
    BY <2>3, Cells
  <2> QED
    BY <2>1, <2>2, <2>3, PlacesAre
<1>3. Distinct(t) <=> Distinct(u)
  BY <1>2 DEF Distinct
<1> QED
  BY <1>1, <1>3

\* Another frame in an empty place.
LEMMA PutEmpty ==
    ASSUME NEW t, Distinct(t), NEW x \in Places, FrameIn(t, x) = 0, NEW f, f \notin FramesOf(t),
           NEW new, \A y \in Places : FrameIn(new, y) = IF y = x THEN f ELSE FrameIn(t, y)
    PROVE  Distinct(new) /\ FramesOf(new) = FramesOf(t) \cup ({f} \ {0})
<1> DEFINE In(y) == FrameIn(t, y)
           New(y) == FrameIn(new, y)
           F == FramesOf(t)
           G == FramesOf(new)
<1>1. /\ \A y, z \in Places : In(y) = In(z) /\ In(y) # 0 => y = z
      /\ \A y \in Places : New(y) = IF y = x THEN f ELSE In(y)
      /\ In(x) = 0
  BY DEF Distinct
<1>2. F = {In(y) : y \in Places} \ {0} /\ G = {New(y) : y \in Places} \ {0} /\ f \notin F
  BY FramesOfPlaces
<1> HIDE DEF In, New, F, G
<1>3. \A y, z \in Places : New(y) = New(z) /\ New(y) # 0 => y = z
  BY <1>1, <1>2
<1>4. ASSUME NEW g \in G PROVE g \in F \cup ({f} \ {0})
  BY <1>1, <1>2, <1>4
<1>5. ASSUME NEW g \in F \cup ({f} \ {0}) PROVE g \in G
  BY <1>1, <1>2, <1>5
<1>6. G = F \cup ({f} \ {0})
  BY <1>4, <1>5
<1>7. Distinct(new)
  BY <1>3 DEF New, Distinct
<1> QED
  BY <1>6, <1>7 DEF F, G

\* A process with no directory, tables or pages yet.
Bare(t) == /\ t \in Drafts /\ t.pd = 0 /\ \A i \in Indices : t.table[i] = 0
           /\ \A v \in Pages : t.page[v] = 0

\* A draft without a directory and tables has only its kernel stack.
LEMMA BareKept ==
    ASSUME NEW mem, MemSound(mem), NEW t, Bare(t), {t.kernel_stack} \ {0} \subseteq mem.bitmap
    PROVE  Kept(mem, {t.kernel_stack} \ {0}, Building(mem, t), {})
<1> DEFINE s == Building(mem, t)
           base == {t.kernel_stack} \ {0}
<1>1. s \in Drafting /\ s.m = mem /\ s.t = t
  BY DEF Building, Drafting, Bare, MemSound
<1>2. \A x \in Places : x # StackAt => FrameIn(t, x) = 0
  BY Cells, PlacesAre DEF Bare
<1>3. FrameIn(t, StackAt) = t.kernel_stack /\ StackAt \in Places
  BY Cells, PlacesAre
<1>4. Distinct(t)
  BY <1>2 DEF Distinct
<1>5. FramesOf(t) = base
  <2>1. ASSUME NEW f \in FramesOf(t) PROVE f \in base
    BY <1>2, <1>3, <2>1, FramesOfPlaces
  <2>2. ASSUME NEW f \in base PROVE f \in FramesOf(t)
    BY <1>3, <2>2, FramesOfPlaces
  <2> QED
    BY <2>1, <2>2
<1> HIDE DEF s, base
<1>6. FramesOf(s.t) \cup {} = base \cup (s.m.bitmap \ mem.bitmap) /\ FramesOf(s.t) \cap {} = {}
  BY <1>1, <1>5
<1> QED
  BY <1>1, <1>4, <1>6 DEF Kept, s, base

\* A process that is begun has nothing.
LEMMA NothingBare == Bare(Nothing) /\ Nothing.kernel_stack = 0 /\ Nothing.heap_start = 0 /\ Nothing.heap_end = 0
<1>1. Nothing \in Drafts
  <2>1. 0 \in 0 .. 2 * Entries /\ 0 \in Nat
    BY Sizes
  <2> QED
    BY <2>1 DEF Nothing, Drafts
<1> QED
  BY <1>1 DEF Bare, Nothing

\* A process that is begun, as a draft.
LEMMA NothingKept ==
    ASSUME NEW mem, MemSound(mem)
    PROVE  Kept(mem, {}, Building(mem, Nothing), {})
<1>1. {Nothing.kernel_stack} \ {0} = {}
  BY NothingBare
<1> QED
  BY <1>1, NothingBare, BareKept

\* The directory that a process has is forgotten when another is made.
LEMMA CreateOver ==
    ASSUME NEW s \in Drafting, MemSound(s.m), NEW u \in Drafting, u.m = s.m, u.short = s.short,
           u.t = [s.t EXCEPT !.pd = 0]
    PROVE  create_address_space(s) = create_address_space(u)
<1> DEFINE a == pmm_alloc_page(s.m)
           p == [s.t EXCEPT !.pd = 0]
           q == [s.t EXCEPT !.pd = a.frame]
           r == [p EXCEPT !.pd = a.frame]
<1>1. s.t \in Drafts /\ s.m \in Memories /\ s.short \in BOOLEAN /\ u.t = p
  BY DEF Drafting
<1>2. a.m \in Memories /\ a.frame \in Frames \cup {0}
  BY AllocSound DEF MemSound
<1> HIDE DEF a
<1>3. p \in Drafts /\ q \in Drafts /\ r = q
  BY <1>1, <1>2 DEF Drafts
<1>4. p = [s.t EXCEPT !.pd = 0] /\ r = [p EXCEPT !.pd = a.frame] /\ q = [s.t EXCEPT !.pd = a.frame]
  OBVIOUS
<1> HIDE DEF p, q, r
<1>5. u \in Drafting /\ u.m = s.m /\ u.t = p
  BY <1>1, <1>3 DEF Drafting
<1>6. create_address_space(s) = [s EXCEPT !.m = a.m, !.t = q]
  BY <1>4, Zenon DEF create_address_space, a
<1>7. create_address_space(u) = [u EXCEPT !.m = a.m, !.t = r]
  <2>1. create_address_space(u) = [u EXCEPT !.m = pmm_alloc_page(u.m).m, !.t = [u.t EXCEPT !.pd = pmm_alloc_page(u.m).frame]]
    BY Zenon DEF create_address_space
  <2> QED
    BY <1>4, <1>5, <2>1, Zenon DEF a
<1>8. [s EXCEPT !.m = a.m, !.t = q] = [u EXCEPT !.m = a.m, !.t = q]
  BY <1>1, <1>2, <1>3 DEF Drafting
<1> QED
  BY <1>3, <1>6, <1>7, <1>8, Zenon

\* What is made for a program, from a process that has its kernel stack or not.
Made(mem, t, s) ==
    /\ Kept(mem, {t.kernel_stack} \ {0}, s, {}) /\ Carries(t, s.t)
    /\ s.t.kernel_stack = t.kernel_stack /\ s.t.page[Scratch] = 0

\* A directory and a program: what exec and the first process make.
LEMMA ProgramMade ==
    ASSUME NEW mem, MemSound(mem), NEW t, Bare(t), {t.kernel_stack} \ {0} \subseteq mem.bitmap,
           NEW d, d = create_address_space(Building(mem, t)), NEW n \in Programs,
           NEW s, s = LoadProgram(d, n)
    PROVE  /\ Made(mem, t, s) /\ s.t.pd = d.t.pd /\ d.t.pd \notin mem.bitmap
           /\ d.t.pd = 0 => d.m = mem
<1> DEFINE b == Building(mem, t)
           base == {t.kernel_stack} \ {0}
<1>1. Kept(mem, base, b, {}) /\ b.t = t /\ b.m = mem
  BY BareKept DEF Building
<1> HIDE DEF b, base
<1>2. t.pd = 0 /\ \A v \in Pages : t.page[v] = 0
  BY DEF Bare
<1>3. /\ Kept(mem, base, d, {}) /\ Carries(t, d.t) /\ d.t.page = t.page
      /\ d.t.kernel_stack = t.kernel_stack /\ d.t.pd \notin mem.bitmap
      /\ d.t.pd = 0 => d.m = mem
  <2>1. b.t.pd = 0 /\ d = create_address_space(b)
    BY <1>1, <1>2 DEF b
  <2> QED
    BY <1>1, <2>1, CreateKept
<1>4. \A v \in Pages : d.t.page[v] = 0
  BY <1>2, <1>3
<1>5. /\ Kept(mem, base, s, {})
      /\ Carries(d.t, s.t) /\ s.t.pd = d.t.pd /\ s.t.kernel_stack = d.t.kernel_stack
      /\ \A v \in Pages : v >= StackTop => s.t.page[v] = 0
  BY <1>3, <1>4, LoadProgramKept
<1>6. Scratch \in Pages /\ Scratch >= StackTop
  BY Sizes DEF Scratch, StackTop, Pages
<1>7. Carries(t, s.t)
  BY <1>3, <1>5 DEF Carries
<1>8. Made(mem, t, s)
  BY <1>3, <1>5, <1>6, <1>7 DEF Made, base
<1> QED
  BY <1>3, <1>5, <1>8

-----------------------------------------------------------------------------
(* The steps *)

\* kmalloc for a pipe: frames and blocks stay apart.
LEMMA KmallocShares ==
    ASSUME NEW mem, MemSound(mem), NEW size \in Nat \ {0}, NEW k, k = kmalloc(mem, size),
           NEW tasks, NEW kern, NEW lost, NEW open,
           FramesShared(mem, tasks, kern, lost), BlocksShared(mem, tasks, kern, lost, open)
    PROVE  /\ MemSound(k.m) /\ FramesShared(k.m, tasks, kern, lost)
           /\ BlocksShared(k.m, tasks, kern, lost, open \cup ({k.at} \ {0}))
<1> DEFINE N == k.m.bitmap \ mem.bitmap
           B == {k.at} \ {0}
<1>1. /\ MemSound(k.m) /\ mem.bitmap \subseteq k.m.bitmap
      /\ HeapFrames(k.m) = HeapFrames(mem) \cup N
      /\ Taken(k.m) = Taken(mem) \cup B /\ k.at \notin Taken(mem)
  BY KmallocSound DEF KmallocIs
<1>2. k.m.bitmap = mem.bitmap \cup N /\ N \cap mem.bitmap = {}
  BY <1>1
<1>3. B \cap Taken(mem) = {}
  BY <1>1
<1> HIDE DEF N, B
<1>4. FramesShared(k.m, tasks, kern, lost)
  <2> DEFINE D == DOMAIN tasks
             fr == FramesBy(tasks)
             A == HeapFrames(mem)
             K == {kern.frame}
             C == lost.frames
             b == mem.bitmap
  <2>1. Shares(D, fr, A, K, C, b)
    BY DEF FramesShared
  <2>2. N \cap b = {}
    BY <1>2
  <2> HIDE DEF D, fr, A, K, C, b
  <2>3. Shares(D, fr, A \cup N, K, C, b \cup N)
    BY <2>1, <2>2, SharesGrow
  <2>4. A \cup N = HeapFrames(k.m) /\ b \cup N = k.m.bitmap
    BY <1>1, <1>2 DEF A, b
  <2> QED
    BY <2>3, <2>4 DEF FramesShared, D, fr, K, C
<1>5. BlocksShared(k.m, tasks, kern, lost, open \cup B)
  BY <1>1, <1>3, SharesGrow, SMTT(30) DEF BlocksShared
<1> QED
  BY <1>1, <1>4, <1>5 DEF B

\* kfree of a pipe: frames and blocks stay apart.
LEMMA KfreeShares ==
    ASSUME NEW mem, MemSound(mem), NEW at, NEW new, new = kfree(mem, at),
           NEW tasks, NEW kern, NEW lost, NEW open, at \in open,
           FramesShared(mem, tasks, kern, lost), BlocksShared(mem, tasks, kern, lost, open)
    PROVE  /\ MemSound(new) /\ FramesShared(new, tasks, kern, lost)
           /\ BlocksShared(new, tasks, kern, lost, open \ {at})
<1>1. /\ MemSound(new) /\ new.bitmap = mem.bitmap
      /\ HeapFrames(new) = HeapFrames(mem) /\ Taken(new) = Taken(mem) \ {at}
  BY KfreeSound
<1>2. FramesShared(new, tasks, kern, lost)
  BY <1>1 DEF FramesShared
<1>4. BlocksShared(new, tasks, kern, lost, open \ {at})
  <2> DEFINE D == DOMAIN tasks
             fr == BlocksBy(tasks)
             K == {kern.block}
             C == lost.blocks
             b == Taken(mem)
             S == {at}
  <2>1. Shares(D, fr, open, K, C, b) /\ S \subseteq open
    BY DEF BlocksShared
  <2> HIDE DEF D, fr, K, C, b, S
  <2>3. Shares(D, fr, open \ S, K, C, b \ S)
    BY <2>1, SharesShrink
  <2> QED
    BY <1>1, <2>3 DEF BlocksShared, D, fr, K, C, b, S
<1> QED
  BY <1>1, <1>2, <1>4

\* fs_pipe keeps the invariant.
LEMMA OpenPipeStep == ASSUME IInv, OpenPipe PROVE IInv'
<1> DEFINE k == kmalloc(m, PIPE)
<1>1. /\ m' = k.m /\ pipes' = pipes \cup ({k.at} \ {0}) /\ ~starved
      /\ UNCHANGED <<task, task_to_free, kernel, leaked, starved>>
  BY DEF OpenPipe
<1>2. PIPE \in Nat \ {0}
  BY Sizes
<1>3. MemSound(m) /\ FramesShared(m, task, kernel, leaked) /\ BlocksShared(m, task, kernel, leaked, pipes)
  BY <1>1 DEF IInv
<1>4. /\ MemSound(k.m) /\ FramesShared(k.m, task, kernel, leaked)
      /\ BlocksShared(k.m, task, kernel, leaked, pipes \cup ({k.at} \ {0}))
  BY <1>2, <1>3, KmallocShares
<1> HIDE DEF k
<1>5. /\ MemSound(m') /\ FramesShared(m', task', kernel', leaked')
      /\ BlocksShared(m', task', kernel', leaked', pipes')
  BY <1>1, <1>4
<1> QED
  BY <1>1, <1>5 DEF IInv

\* The last pipe_close keeps it.
LEMMA ClosePipeStep == ASSUME IInv, NEW at \in pipes, ClosePipe(at) PROVE IInv'
<1>1. /\ m' = kfree(m, at) /\ pipes' = pipes \ {at} /\ ~starved
      /\ UNCHANGED <<task, task_to_free, kernel, leaked, starved>>
  BY DEF ClosePipe
<1>3. MemSound(m) /\ FramesShared(m, task, kernel, leaked) /\ BlocksShared(m, task, kernel, leaked, pipes)
  BY <1>1 DEF IInv
<1>4. /\ MemSound(m') /\ FramesShared(m', task, kernel, leaked)
      /\ BlocksShared(m', task, kernel, leaked, pipes \ {at})
  BY <1>1, <1>3, KfreeShares
<1>5. /\ MemSound(m') /\ FramesShared(m', task', kernel', leaked')
      /\ BlocksShared(m', task', kernel', leaked', pipes')
  BY <1>1, <1>4
<1> QED
  BY <1>1, <1>5 DEF IInv

\* No block is at address 0.
LEMMA NoBlockZero == ASSUME NEW mem, MemSound(mem) PROVE 0 \notin Taken(mem) /\ Taken(mem) \subseteq Nat
<1>1. mem.heap \in Seq(Blocks)
  BY DEF MemSound, Memories
<1>2. \A b \in ToSet(mem.heap) : b \in Blocks
  BY <1>1, ElementOfSeq DEF ToSet
<1> QED
  BY <1>2 DEF Taken, TakenIn, Blocks

\* A buffer that is taken and given back keeps it.
LEMMA UseBufferStep == ASSUME IInv, NEW size \in Buffers, UseBuffer(size) PROVE IInv'
<1> DEFINE k == kmalloc(m, size)
           open == pipes \cup ({k.at} \ {0})
<1>1. /\ m' = kfree(k.m, k.at) /\ k.at # 0 /\ ~starved
      /\ UNCHANGED <<task, task_to_free, pipes, kernel, leaked, starved>>
  BY DEF UseBuffer
<1>2. size \in Nat \ {0}
  BY Sizes
<1>3. MemSound(m) /\ FramesShared(m, task, kernel, leaked) /\ BlocksShared(m, task, kernel, leaked, pipes)
  BY <1>1 DEF IInv
<1>4. /\ MemSound(k.m) /\ FramesShared(k.m, task, kernel, leaked)
      /\ BlocksShared(k.m, task, kernel, leaked, open)
  BY <1>2, <1>3, KmallocShares
<1>5. k.at \notin Taken(m)
  BY <1>2, <1>3, KmallocSound DEF KmallocIs
<1>6. pipes \subseteq Taken(m)
  BY <1>3, SharesIn DEF BlocksShared
<1> HIDE DEF k
<1>7. open \ {k.at} = pipes /\ k.at \in open
  BY <1>1, <1>5, <1>6
<1> HIDE DEF open
<1>8. /\ MemSound(m') /\ FramesShared(m', task, kernel, leaked)
      /\ BlocksShared(m', task, kernel, leaked, open \ {k.at})
  BY <1>1, <1>4, <1>7, KfreeShares
<1>9. /\ MemSound(m') /\ FramesShared(m', task', kernel', leaked')
      /\ BlocksShared(m', task', kernel', leaked', pipes')
  BY <1>1, <1>7, <1>8
<1> QED
  BY <1>1, <1>9 DEF IInv

\* A process is gone: what it had is leaked, or nobody's.
LEMMA ProcessGone ==
    ASSUME NEW mem, NEW tasks, NEW kern, NEW lost, NEW open,
           FramesShared(mem, tasks, kern, lost), BlocksShared(mem, tasks, kern, lost, open),
           NEW q \in DOMAIN tasks, NEW rest, rest = [p \in DOMAIN tasks \ {q} |-> tasks[p]]
    PROVE  /\ Shares(DOMAIN rest, FramesBy(rest), HeapFrames(mem), {kern.frame},
                     lost.frames \cup FramesOf(tasks[q]), mem.bitmap)
           /\ Shares(DOMAIN rest, FramesBy(rest), HeapFrames(mem), {kern.frame},
                     lost.frames, mem.bitmap \ FramesOf(tasks[q]))
           /\ Shares(DOMAIN rest, BlocksBy(rest), open, {kern.block},
                     lost.blocks \cup {tasks[q].block}, Taken(mem))
           /\ Shares(DOMAIN rest, BlocksBy(rest), open, {kern.block},
                     lost.blocks, Taken(mem) \ {tasks[q].block})
<1> DEFINE D == DOMAIN tasks
           fr == FramesBy(tasks)
           gr == FramesBy(rest)
           A == HeapFrames(mem)
           K == {kern.frame}
           C == lost.frames
           b == mem.bitmap
           fb == BlocksBy(tasks)
           gb == BlocksBy(rest)
           Kb == {kern.block}
           Cb == lost.blocks
           t == Taken(mem)
<1>1. Shares(D, fr, A, K, C, b)
  BY DEF FramesShared
<1>2. Shares(D, fb, open, Kb, Cb, t)
  BY DEF BlocksShared
<1>3. DOMAIN rest = D \ {q} /\ \A p \in D \ {q} : rest[p] = tasks[p]
  OBVIOUS
<1>4. fr[q] = FramesOf(tasks[q]) /\ \A p \in D \ {q} : gr[p] = fr[p]
  BY <1>3 DEF FramesBy
<1>5. fb[q] = {tasks[q].block} /\ \A p \in D \ {q} : gb[p] = fb[p]
  BY <1>3 DEF BlocksBy
<1>6. q \in D
  OBVIOUS
<1> HIDE DEF D, fr, gr, A, K, C, b, fb, gb, Kb, Cb, t
<1>7. /\ Shares(D \ {q}, gr, A, K, C \cup fr[q], b)
      /\ Shares(D \ {q}, gr, A, K, C, b \ fr[q])
  BY <1>1, <1>4, <1>6, SharesLeave
<1>8. /\ Shares(D \ {q}, gb, open, Kb, Cb \cup fb[q], t)
      /\ Shares(D \ {q}, gb, open, Kb, Cb, t \ fb[q])
  BY <1>2, <1>5, <1>6, SharesLeave
<1> QED
  BY <1>3, <1>4, <1>5, <1>7, <1>8, Zenon DEF A, K, C, b, gr, gb, Kb, Cb, t

\* An exit keeps it: what is forgotten is leaked.
LEMMA ExitStep == ASSUME IInv, NEW pid \in Pids, Exit(pid) PROVE IInv'
<1>1. /\ ~starved /\ pid \in DOMAIN task /\ pid # task_to_free /\ task_to_free' = pid
      /\ UNCHANGED <<m, pipes, kernel, starved>>
  BY DEF Exit, Alive
<1>2. /\ MemSound(m) /\ \A p \in DOMAIN task : Sound(task[p])
      /\ FramesShared(m, task, kernel, leaked) /\ BlocksShared(m, task, kernel, leaked, pipes)
      /\ task_to_free \in DOMAIN task \cup {0} /\ DOMAIN task \subseteq Pids
      /\ leaked \in [frames : SUBSET Frames, blocks : SUBSET Nat]
  BY <1>1 DEF IInv
<1>3. CASE task_to_free = 0
  <2>1. UNCHANGED <<task, leaked>>
    BY <1>3 DEF Exit
  <2>2. FramesShared(m', task', kernel', leaked') /\ BlocksShared(m', task', kernel', leaked', pipes')
    BY <1>1, <1>2, <2>1
  <2> QED
    BY <1>1, <1>2, <2>1, <2>2 DEF IInv
<1>4. CASE task_to_free # 0
  <2> DEFINE q == task_to_free
             F == FramesOf(task[q])
             B == {task[q].block}
  <2>1. /\ task' = [p \in DOMAIN task \ {q} |-> task[p]]
        /\ leaked' = [frames |-> leaked.frames \cup F, blocks |-> leaked.blocks \cup B]
    BY <1>4 DEF Exit
  <2>2. q \in DOMAIN task
    BY <1>2, <1>4
  <2>3. Sound(task[q])
    BY <1>2, <2>2
  <2>4. F \subseteq Frames /\ B \subseteq Nat
    <3>1. F \subseteq m.bitmap
      BY <1>2, <2>2, SharesIn DEF FramesShared, FramesBy
    <3>2. m.bitmap \subseteq Frames
      BY <1>2, NoFrameZero
    <3>3. task[q].block \in Nat
      BY <2>3, SoundIs
    <3> QED
      BY <3>1, <3>2, <3>3
  <2>5. /\ Shares(DOMAIN task', FramesBy(task'), HeapFrames(m), {kernel.frame}, leaked.frames \cup F, m.bitmap)
        /\ Shares(DOMAIN task', BlocksBy(task'), pipes, {kernel.block}, leaked.blocks \cup B, Taken(m))
    BY <1>2, <2>1, <2>2, ProcessGone
  <2> HIDE DEF F, B
  <2>6. leaked'.frames = leaked.frames \cup F /\ leaked'.blocks = leaked.blocks \cup B
    BY <2>1
  <2>7. leaked' \in [frames : SUBSET Frames, blocks : SUBSET Nat]
    BY <1>2, <2>1, <2>4
  <2>8. FramesShared(m', task', kernel', leaked') /\ BlocksShared(m', task', kernel', leaked', pipes')
    BY <1>1, <2>5, <2>6 DEF FramesShared, BlocksShared
  <2>9. /\ DOMAIN task' \subseteq Pids /\ task_to_free' \in DOMAIN task'
        /\ \A p \in DOMAIN task' : Sound(task'[p])
    BY <1>1, <1>2, <2>1
  <2> QED
    BY <1>1, <1>2, <2>7, <2>8, <2>9 DEF IInv
<1> QED
  BY <1>3, <1>4

\* All the frames of a process are those of its directory and its kernel stack.
LEMMA AllFrames ==
    ASSUME NEW t, Sound(t)
    PROVE  /\ FramesOf(t) = SpaceFrames(t, 0) \cup {t.kernel_stack}
           /\ t.kernel_stack \notin SpaceFrames(t, 0)
<1>1. t.kernel_stack # 0 /\ Distinct(t) /\ t.kernel_stack \in FramesOf(t)
  BY SoundIs
<1>2. \A i \in Indices : i >= 0
  BY DEF Indices
<1>3. \A v \in Pages : IndexOf(v) >= 0
  BY <1>2, IndexOfIs
<1>4. SpaceFrames(t, 0) = ({t.pd} \cup {t.table[i] : i \in Indices} \cup {t.page[v] : v \in Pages}) \ {0}
  <2>1. {j \in Indices : j >= 0} = Indices /\ {w \in Pages : IndexOf(w) >= 0} = Pages
    BY <1>2, <1>3
  <2> QED
    BY <2>1, Zenon DEF SpaceFrames
<1>5. FramesOf(t) = SpaceFrames(t, 0) \cup {t.kernel_stack}
  BY <1>1, <1>4 DEF FramesOf
<1>6. ASSUME t.kernel_stack \in SpaceFrames(t, 0) PROVE FALSE
  <2>1. \E x \in Places : x # StackAt /\ t.kernel_stack = FrameIn(t, x)
    <3>1. \/ t.kernel_stack = t.pd \/ \E i \in Indices : t.kernel_stack = t.table[i]
          \/ \E v \in Pages : t.kernel_stack = t.page[v]
      BY <1>4, <1>6
    <3>2. CASE t.kernel_stack = t.pd
      BY <3>2, Cells, PlacesAre, PlacesApart
    <3>3. ASSUME NEW i \in Indices, t.kernel_stack = t.table[i]
          PROVE  \E x \in Places : x # StackAt /\ t.kernel_stack = FrameIn(t, x)
      BY <3>3, Cells, PlacesAre, PlacesApart
    <3>4. ASSUME NEW v \in Pages, t.kernel_stack = t.page[v]
          PROVE  \E x \in Places : x # StackAt /\ t.kernel_stack = FrameIn(t, x)
      BY <3>4, Cells, PlacesAre, PlacesApart
    <3> QED
      BY <3>1, <3>2, <3>3, <3>4
  <2> QED
    BY <1>1, <2>1, Cells, PlacesAre DEF Distinct
<1> QED
  BY <1>5, <1>6

\* The frames of a process are marked and not the heap's.
LEMMA OwnedFrames ==
    ASSUME NEW mem, NEW tasks, NEW kern, NEW lost, FramesShared(mem, tasks, kern, lost), NEW p \in DOMAIN tasks
    PROVE  FramesOf(tasks[p]) \subseteq mem.bitmap \ HeapFrames(mem)
<1> DEFINE fr == FramesBy(tasks)
           A == HeapFrames(mem)
           D == DOMAIN tasks
<1>1. Shares(D, fr, A, {kern.frame}, lost.frames, mem.bitmap)
  BY DEF FramesShared
<1>2. fr[p] = FramesOf(tasks[p]) /\ p \in D
  BY DEF FramesBy
<1> HIDE DEF fr, A, D
<1>3. fr[p] \subseteq mem.bitmap /\ fr[p] \cap A = {}
  <2>1. fr[p] \subseteq mem.bitmap
    BY <1>1, <1>2, SharesIn
  <2>2. fr[p] \cap (A \cup {kern.frame} \cup lost.frames) = {}
    BY <1>1, <1>2 DEF Shares
  <2> QED
    BY <2>1, <2>2
<1> QED
  BY <1>2, <1>3 DEF A

\* All of a process is given back.
LEMMA AllFreed ==
    ASSUME NEW mem, MemSound(mem), NEW t, Sound(t), FramesOf(t) \subseteq mem.bitmap \ HeapFrames(mem),
           NEW new, new = kfree(pmm_free_page(FreeSpace(mem, t, 0), t.kernel_stack), t.block)
    PROVE  /\ MemSound(new) /\ new.bitmap = mem.bitmap \ FramesOf(t)
           /\ HeapFrames(new) = HeapFrames(mem) /\ Taken(new) = Taken(mem) \ {t.block}
<1> DEFINE x == FreeSpace(mem, t, 0)
           S == SpaceFrames(t, 0)
           k == t.kernel_stack
           y == pmm_free_page(x, k)
<1>1. Distinct(t) /\ t.pd # 0 /\ t \in Drafts /\ k \in FramesOf(t)
  BY SoundIs
<1>2. FramesOf(t) = S \cup {k} /\ k \notin S
  BY AllFrames
<1>3. Freed(mem, S, x)
  BY <1>1, FreeSpaceKept
<1>4. new = kfree(y, t.block)
  OBVIOUS
<1> HIDE DEF x, S, k
<1>5. MemSound(x) /\ x.heap = mem.heap /\ x.bitmap = mem.bitmap \ S
  BY <1>3 DEF Freed
<1>6. HeapFrames(x) = HeapFrames(mem) /\ Taken(x) = Taken(mem)
  BY <1>5, SameHeapFrames
<1>7. k \in x.bitmap \ HeapFrames(x)
  BY <1>1, <1>2, <1>5, <1>6
<1>8. /\ MemSound(y) /\ y.bitmap = x.bitmap \ {k}
      /\ HeapFrames(y) = HeapFrames(x) /\ Taken(y) = Taken(x)
  BY <1>5, <1>7, FreeSound
<1> HIDE DEF y
<1>9. /\ MemSound(new) /\ new.bitmap = y.bitmap
      /\ HeapFrames(new) = HeapFrames(y) /\ Taken(new) = Taken(y) \ {t.block}
  BY <1>4, <1>8, KfreeSound
<1> QED
  BY <1>2, <1>5, <1>6, <1>8, <1>9

\* The clean-up keeps it: it frees what the process has, and that alone.
LEMMA CleanUpStep == ASSUME IInv, CleanUp PROVE IInv'
<1> DEFINE q == task_to_free
           t == task[q]
           F == FramesOf(t)
           B == {t.block}
<1>1. /\ ~starved /\ q # 0 /\ m' = kfree(pmm_free_page(FreeSpace(m, t, 0), t.kernel_stack), t.block)
      /\ task' = [p \in DOMAIN task \ {q} |-> task[p]] /\ task_to_free' = 0
      /\ UNCHANGED <<pipes, kernel, leaked, starved>>
  BY DEF CleanUp
<1>2. /\ MemSound(m) /\ \A p \in DOMAIN task : Sound(task[p])
      /\ FramesShared(m, task, kernel, leaked) /\ BlocksShared(m, task, kernel, leaked, pipes)
      /\ task_to_free \in DOMAIN task \cup {0} /\ DOMAIN task \subseteq Pids
      /\ leaked \in [frames : SUBSET Frames, blocks : SUBSET Nat]
  BY <1>1 DEF IInv
<1>3. q \in DOMAIN task
  BY <1>1, <1>2
<1>4. Sound(t) /\ F \subseteq m.bitmap \ HeapFrames(m)
  BY <1>2, <1>3, OwnedFrames
<1>5. /\ MemSound(m') /\ m'.bitmap = m.bitmap \ F
      /\ HeapFrames(m') = HeapFrames(m) /\ Taken(m') = Taken(m) \ B
  <2> DEFINE new == m'
  <2>1. new = kfree(pmm_free_page(FreeSpace(m, t, 0), t.kernel_stack), t.block)
    BY <1>1
  <2> HIDE DEF new, q
  <2>2. /\ MemSound(new) /\ new.bitmap = m.bitmap \ F
        /\ HeapFrames(new) = HeapFrames(m) /\ Taken(new) = Taken(m) \ B
    BY <1>2, <1>4, <2>1, AllFreed
  <2> QED
    BY <2>2 DEF new
<1>6. /\ Shares(DOMAIN task', FramesBy(task'), HeapFrames(m), {kernel.frame}, leaked.frames, m.bitmap \ F)
      /\ Shares(DOMAIN task', BlocksBy(task'), pipes, {kernel.block}, leaked.blocks, Taken(m) \ B)
  BY <1>1, <1>2, <1>3, ProcessGone
<1>7. FramesShared(m', task', kernel', leaked') /\ BlocksShared(m', task', kernel', leaked', pipes')
  BY <1>1, <1>5, <1>6 DEF FramesShared, BlocksShared
<1>8. DOMAIN task' \subseteq Pids /\ \A p \in DOMAIN task' : Sound(task'[p])
  BY <1>1, <1>2
<1> QED
  BY <1>1, <1>2, <1>5, <1>7, <1>8 DEF IInv

\* A process has new frames, and some that it had are leaked.
LEMMA ProcessChanged ==
    ASSUME NEW mem, NEW tasks, NEW kern, NEW lost, FramesShared(mem, tasks, kern, lost),
           NEW pid \in DOMAIN tasks, NEW t, NEW L, NEW new, HeapFrames(new) = HeapFrames(mem),
           mem.bitmap \subseteq new.bitmap, FramesOf(t) \cap L = {},
           FramesOf(t) \cup L = FramesOf(tasks[pid]) \cup (new.bitmap \ mem.bitmap),
           NEW after, after = [tasks EXCEPT ![pid] = t]
    PROVE  Shares(DOMAIN after, FramesBy(after), HeapFrames(new), {kern.frame},
                  lost.frames \cup L, new.bitmap)
<1> DEFINE D == DOMAIN tasks
           fr == FramesBy(tasks)
           gr == FramesBy(after)
           A == HeapFrames(mem)
           K == {kern.frame}
           C == lost.frames
           b == mem.bitmap
           F == FramesOf(t)
           N == new.bitmap \ mem.bitmap
<1>1. Shares(D, fr, A, K, C, b)
  BY DEF FramesShared
<1>2. DOMAIN after = D /\ after[pid] = t /\ \A p \in D : p # pid => after[p] = tasks[p]
  OBVIOUS
<1>3. gr[pid] = F /\ fr[pid] = FramesOf(tasks[pid]) /\ \A p \in D : p # pid => gr[p] = fr[p]
  BY <1>2 DEF FramesBy
<1>4. pid \in D /\ F \cap L = {} /\ N \cap b = {} /\ new.bitmap = b \cup N /\ HeapFrames(new) = A
  OBVIOUS
<1>5. F \cup L = fr[pid] \cup N
  BY <1>3
<1> HIDE DEF D, fr, gr, A, K, C, b, F, N
<1>6. Shares(D, gr, A, K, C \cup L, b \cup N)
  <2>1. Changes(D, fr, pid, L, N, gr)
    BY <1>3, <1>4, <1>5 DEF Changes
  <2> QED
    BY <1>1, <1>4, <2>1, SharesChange
<1> QED
  BY <1>2, <1>4, <1>6, Zenon DEF gr, K, C

\* A process that changes but for its block leaves the blocks apart.
LEMMA BlocksStay ==
    ASSUME NEW mem, NEW tasks, NEW kern, NEW lost, NEW open, BlocksShared(mem, tasks, kern, lost, open),
           NEW pid \in DOMAIN tasks, NEW t, t.block = tasks[pid].block, NEW new, Taken(new) = Taken(mem),
           NEW after, after = [tasks EXCEPT ![pid] = t], NEW lost2, lost2.blocks = lost.blocks
    PROVE  BlocksShared(new, after, kern, lost2, open)
<1> DEFINE D == DOMAIN tasks
           fr == BlocksBy(tasks)
           gr == BlocksBy(after)
           K == {kern.block}
           C == lost.blocks
           b == Taken(mem)
<1>1. Shares(D, fr, open, K, C, b)
  BY DEF BlocksShared
<1>2. DOMAIN after = D /\ after[pid] = t /\ \A p \in D : p # pid => after[p] = tasks[p]
  OBVIOUS
<1>3. \A p \in D : gr[p] = fr[p]
  BY <1>2 DEF BlocksBy
<1> HIDE DEF D, fr, gr, K, C, b
<1>4. Shares(D, gr, open, K, C, b)
  BY <1>1, <1>3, SharesSame
<1> QED
  BY <1>2, <1>4, Zenon DEF BlocksShared, gr, K, C, b

\* Where the scratch page is.
LEMMA ScratchIs == Scratch \in Pages /\ Scratch >= Entries /\ Scratch >= StackTop /\ IndexOf(Scratch) = 2
<1>1. Entries \in Nat \ {0}
  BY Sizes
<1>2. Scratch = 2 * Entries + 0 /\ 0 \in 0 .. Entries - 1 /\ Scratch \in Nat
  BY <1>1 DEF Scratch
<1>3. Scratch \div Entries = 2
  BY <1>1, <1>2, DivIs
<1>4. Scratch \in Pages /\ Scratch >= Entries /\ Scratch >= StackTop
  BY <1>1 DEF Scratch, StackTop, Pages
<1> QED
  BY <1>3, <1>4 DEF IndexOf

\* A process that goes on to change, as a draft.
LEMMA SoundKept ==
    ASSUME NEW t, Sound(t), MemSound(m), FramesOf(t) \subseteq m.bitmap
    PROVE  Kept(m, FramesOf(t), Building(m, t), {})
<1> DEFINE s == Building(m, t)
           F == FramesOf(t)
<1>1. s \in Drafting /\ s.m = m /\ s.t = t
  BY SoundIs DEF Building, Drafting, MemSound
<1>2. Distinct(t)
  BY SoundIs
<1> HIDE DEF s
<1>3. FramesOf(s.t) \cup {} = F \cup (s.m.bitmap \ m.bitmap) /\ FramesOf(s.t) \cap {} = {}
  BY <1>1
<1> QED
  BY <1>1, <1>2, <1>3 DEF Kept, s

\* What PagesKept says of a process.
KeepsPages(t, new) ==
    new.pd = t.pd =>
        \A v \in Pages :
            /\ t.page[v] # 0
            /\ v >= Entries \/ 2 * (v + 1) <= t.heap_end
            => \/ new.page[v] = t.page[v]
               \/ 2 * v >= new.heap_end /\ v < Entries

\* The process after a brk, with the frames it is to have.
LEMMA EndSet ==
    ASSUME NEW x \in Drafts, Distinct(x), NEW old, Sound(old), x.pd = old.pd,
           x.kernel_stack = old.kernel_stack, x.page[Scratch] = 0, Carries(old, x),
           NEW end \in 0 .. 2 * Entries, NEW t, t = x \/ t = [x EXCEPT !.heap_end = end]
    PROVE  /\ Sound(t) /\ FramesOf(t) = FramesOf(x) /\ t.block = old.block /\ t.page = x.page
           /\ t.heap_end = old.heap_end \/ t.heap_end = end
<1>1. old.pd # 0 /\ old.kernel_stack # 0
  BY SoundIs
<1>2. /\ t \in Drafts /\ t.pd = x.pd /\ t.kernel_stack = x.kernel_stack /\ t.table = x.table
      /\ t.page = x.page /\ t.block = x.block /\ (t.heap_end = x.heap_end \/ t.heap_end = end)
  <2>1. CASE t = x
    BY <2>1
  <2>2. CASE t = [x EXCEPT !.heap_end = end]
    BY <2>2 DEF Drafts
  <2> QED
    BY <2>1, <2>2
<1>3. FramesOf(t) = FramesOf(x) /\ Distinct(t)
  BY <1>2, SameFrames
<1>4. Sound(t)
  BY <1>1, <1>2, <1>3, SoundFrom
<1> QED
  BY <1>2, <1>3, <1>4 DEF Carries

\* More frames are leaked.
LEMMA LostIs ==
    ASSUME leaked \in [frames : SUBSET Frames, blocks : SUBSET Nat], NEW L \in SUBSET Frames,
           NEW after, after = [leaked EXCEPT !.frames = @ \cup L]
    PROVE  /\ after \in [frames : SUBSET Frames, blocks : SUBSET Nat]
           /\ after.frames = leaked.frames \cup L /\ after.blocks = leaked.blocks
  OBVIOUS

\* A larger brk keeps the invariant, and the pages of its process.
LEMMA BrkGrows ==
    ASSUME IInv, NEW pid \in Pids, NEW end \in 1 .. 2 * Entries, Brk(pid, end),
           Up(end) > task[pid].heap_end
    PROVE  IInv' /\ \A p \in DOMAIN task \cap DOMAIN task' : KeepsPages(task[p], task'[p])
<1> DEFINE old == task[pid]
           s == Building(m, old)
           g == Grow(s, end)
           t == IF g.failed THEN g.s.t ELSE [g.s.t EXCEPT !.heap_end = end]
           L == g.lost \ {0}
           F == FramesOf(old)
<1>1. /\ ~starved /\ pid \in DOMAIN task /\ m' = g.s.m /\ task' = [task EXCEPT ![pid] = t]
      /\ leaked' = [leaked EXCEPT !.frames = @ \cup L]
      /\ UNCHANGED <<task_to_free, pipes, kernel>>
  BY Zenon DEF Brk, Alive, Becomes, Lost
<1>2. /\ MemSound(m) /\ \A p \in DOMAIN task : Sound(task[p])
      /\ FramesShared(m, task, kernel, leaked) /\ BlocksShared(m, task, kernel, leaked, pipes)
      /\ task_to_free \in DOMAIN task \cup {0} /\ DOMAIN task \subseteq Pids
      /\ leaked \in [frames : SUBSET Frames, blocks : SUBSET Nat]
  BY <1>1 DEF IInv
<1>3. Sound(old) /\ F \subseteq m.bitmap
  BY <1>1, <1>2, OwnedFrames
<1>4. s.t = old /\ s.m = m /\ Kept(m, F, s, {})
  BY <1>2, <1>3, SoundKept DEF Building
<1>5. end \in 0 .. 2 * Entries
  BY Sizes
<1>6. g \in Growing /\ Kept(m, F, g.s, L) /\ HeapOnly(old, g.s.t)
  <2> HIDE DEF s, F
  <2> QED
    BY <1>4, <1>5, GrowKept
<1> HIDE DEF g, s, F
<1>7. /\ MemSound(g.s.m) /\ g.s.m.heap = m.heap /\ m.bitmap \subseteq g.s.m.bitmap
      /\ FramesOf(g.s.t) \cup L = F \cup (g.s.m.bitmap \ m.bitmap)
      /\ FramesOf(g.s.t) \cap L = {} /\ Distinct(g.s.t) /\ g.s.t \in Drafts
  BY <1>6 DEF Kept, Drafting
<1>8. /\ Carries(old, g.s.t) /\ g.s.t.pd = old.pd /\ g.s.t.kernel_stack = old.kernel_stack
      /\ \A v \in Pages : v >= Entries \/ 2 * (v + 1) <= old.heap_end => g.s.t.page[v] = old.page[v]
  BY <1>6 DEF HeapOnly
<1>9. g.s.t.page[Scratch] = 0
  BY <1>3, <1>8, ScratchIs, SoundIs
<1>10. /\ Sound(t) /\ FramesOf(t) = FramesOf(g.s.t) /\ t.block = old.block /\ t.page = g.s.t.page
  <2> DEFINE x == g.s.t
  <2>1. t = x \/ t = [x EXCEPT !.heap_end = end]
    BY Zenon
  <2> HIDE DEF t, x, old
  <2>2. x \in Drafts /\ Distinct(x) /\ x.pd = old.pd /\ x.kernel_stack = old.kernel_stack
        /\ x.page[Scratch] = 0 /\ Carries(old, x)
    BY <1>7, <1>8, <1>9 DEF x
  <2>3. Sound(t) /\ FramesOf(t) = FramesOf(x) /\ t.block = old.block /\ t.page = x.page
    BY <1>3, <1>5, <2>1, <2>2, EndSet
  <2> QED
    BY <2>3 DEF x
<1> HIDE DEF t
<1>11. L \in SUBSET Frames
  BY <1>6 DEF Growing
<1> HIDE DEF L
<1>12. /\ leaked' \in [frames : SUBSET Frames, blocks : SUBSET Nat]
       /\ leaked'.frames = leaked.frames \cup L /\ leaked'.blocks = leaked.blocks
  BY <1>1, <1>2, <1>11, LostIs
<1>13. HeapFrames(m') = HeapFrames(m) /\ Taken(m') = Taken(m)
  BY <1>1, <1>7, SameHeapFrames
<1>14. FramesShared(m', task', kernel', leaked')
  <2> DEFINE new == m'
             after == task'
  <2>1. /\ HeapFrames(new) = HeapFrames(m) /\ m.bitmap \subseteq new.bitmap /\ FramesOf(t) \cap L = {}
        /\ FramesOf(t) \cup L = FramesOf(task[pid]) \cup (new.bitmap \ m.bitmap)
        /\ after = [task EXCEPT ![pid] = t]
    BY <1>1, <1>7, <1>10, <1>13 DEF F
  <2> HIDE DEF new, after
  <2>2. Shares(DOMAIN after, FramesBy(after), HeapFrames(new), {kernel.frame}, leaked.frames \cup L, new.bitmap)
    BY <1>1, <1>2, <2>1, ProcessChanged
  <2> QED
    BY <1>1, <1>12, <2>2 DEF FramesShared, new, after
<1>15. BlocksShared(m', task', kernel', leaked', pipes')
  <2> DEFINE new == m'
             after == task'
             lost2 == leaked'
  <2>1. /\ Taken(new) = Taken(m) /\ t.block = task[pid].block /\ lost2.blocks = leaked.blocks
        /\ after = [task EXCEPT ![pid] = t]
    BY <1>1, <1>10, <1>12, <1>13
  <2> HIDE DEF new, after, lost2
  <2>2. BlocksShared(new, after, kernel, lost2, pipes)
    BY <1>1, <1>2, <2>1, BlocksStay
  <2> QED
    BY <1>1, <2>2 DEF new, after, lost2
<1>16. DOMAIN task' = DOMAIN task /\ task'[pid] = t /\ \A p \in DOMAIN task : p # pid => task'[p] = task[p]
  BY <1>1
<1>17. IInv'
  <2>1. \A p \in DOMAIN task' : Sound(task'[p])
    BY <1>2, <1>10, <1>16
  <2>2. MemSound(m') /\ task_to_free' \in DOMAIN task' \cup {0} /\ DOMAIN task' \subseteq Pids
    BY <1>1, <1>2, <1>7, <1>16
  <2> QED
    BY <1>12, <1>14, <1>15, <2>1, <2>2 DEF IInv
<1>18. KeepsPages(old, t)
  BY <1>8, <1>10 DEF KeepsPages
<1>19. \A p \in DOMAIN task \cap DOMAIN task' : KeepsPages(task[p], task'[p])
  BY <1>16, <1>18 DEF KeepsPages
<1> QED
  BY <1>17, <1>19

\* A smaller brk keeps both too.
LEMMA BrkShrinks ==
    ASSUME IInv, NEW pid \in Pids, NEW end \in 1 .. 2 * Entries, Brk(pid, end),
           ~(Up(end) > task[pid].heap_end)
    PROVE  IInv' /\ \A p \in DOMAIN task \cap DOMAIN task' : KeepsPages(task[p], task'[p])
<1> DEFINE old == task[pid]
           s == Building(m, old)
           r == Shrink(s, end)
           t == [r.t EXCEPT !.heap_end = end]
           F == FramesOf(old)
<1>1. /\ ~starved /\ pid \in DOMAIN task /\ m' = r.m /\ task' = [task EXCEPT ![pid] = t]
      /\ UNCHANGED <<task_to_free, pipes, kernel, leaked, starved>>
  BY Zenon DEF Brk, Alive, Becomes
<1>2. /\ MemSound(m) /\ \A p \in DOMAIN task : Sound(task[p])
      /\ FramesShared(m, task, kernel, leaked) /\ BlocksShared(m, task, kernel, leaked, pipes)
      /\ task_to_free \in DOMAIN task \cup {0} /\ DOMAIN task \subseteq Pids
      /\ leaked \in [frames : SUBSET Frames, blocks : SUBSET Nat]
  BY <1>1 DEF IInv
<1>3. Sound(old) /\ F \subseteq m.bitmap \ HeapFrames(m)
  BY <1>1, <1>2, OwnedFrames
<1>4. s.t = old /\ s.m = m /\ s \in Drafting
  BY <1>2, <1>3, SoundIs DEF Building, Drafting, MemSound
<1>5. end \in 0 .. 2 * Entries
  BY Sizes
<1>6. Shed(m, old, r) /\ HeapBelow(old, end, r.t)
  <2> HIDE DEF s
  <2>1. MemSound(s.m) /\ Distinct(s.t) /\ FramesOf(s.t) \subseteq s.m.bitmap \ HeapFrames(s.m)
    BY <1>2, <1>3, <1>4, SoundIs
  <2>2. Shed(s.m, s.t, r) /\ HeapBelow(s.t, end, r.t)
    BY <1>4, <1>5, <2>1, ShrinkKept
  <2> QED
    BY <1>4, <2>2
<1> HIDE DEF r, s
<1>7. /\ r.t \in Drafts /\ MemSound(r.m) /\ r.m.heap = m.heap /\ Distinct(r.t)
      /\ FramesOf(r.t) \subseteq F /\ r.m.bitmap = m.bitmap \ (F \ FramesOf(r.t))
  BY <1>6 DEF Shed, Drafting
<1>8. /\ Carries(old, r.t) /\ r.t.pd = old.pd /\ r.t.kernel_stack = old.kernel_stack
      /\ \A v \in Pages : v >= Entries \/ 2 * v < end => r.t.page[v] = old.page[v]
  BY <1>6 DEF HeapBelow
<1>9. r.t.page[Scratch] = 0
  BY <1>3, <1>8, ScratchIs, SoundIs
<1>10. /\ Sound(t) /\ FramesOf(t) = FramesOf(r.t) /\ t.block = old.block /\ t.page = r.t.page
       /\ t.heap_end = end
  <2> DEFINE x == r.t
  <2>1. t = x \/ t = [x EXCEPT !.heap_end = end]
    BY Zenon
  <2>4. t.heap_end = end
    BY <1>7 DEF Drafts
  <2> HIDE DEF t, x, old
  <2>2. x \in Drafts /\ Distinct(x) /\ x.pd = old.pd /\ x.kernel_stack = old.kernel_stack
        /\ x.page[Scratch] = 0 /\ Carries(old, x)
    BY <1>7, <1>8, <1>9 DEF x
  <2>3. Sound(t) /\ FramesOf(t) = FramesOf(x) /\ t.block = old.block /\ t.page = x.page
    BY <1>3, <1>5, <2>1, <2>2, EndSet
  <2> QED
    BY <2>3, <2>4 DEF x
<1> HIDE DEF t
<1>13. HeapFrames(m') = HeapFrames(m) /\ Taken(m') = Taken(m)
  BY <1>1, <1>7, SameHeapFrames
<1>14. FramesShared(m', task', kernel', leaked')
  <2> DEFINE D == DOMAIN task
             fr == FramesBy(task)
             gr == FramesBy(task')
             A == HeapFrames(m)
             K == {kernel.frame}
             C == leaked.frames
             b == m.bitmap
             G == FramesOf(t)
  <2>1. Shares(D, fr, A, K, C, b)
    BY <1>2 DEF FramesShared
  <2>2. DOMAIN task' = D /\ task'[pid] = t /\ \A p \in D : p # pid => task'[p] = task[p]
    BY <1>1
  <2>3. gr[pid] = G /\ fr[pid] = F /\ pid \in D /\ \A p \in D : p # pid => gr[p] = fr[p]
    BY <1>1, <2>2 DEF FramesBy
  <2>4. G \subseteq fr[pid]
    BY <1>7, <1>10, <2>3
  <2>6. m'.bitmap = b \ (fr[pid] \ G)
    BY <1>1, <1>7, <1>10, <2>3
  <2> HIDE DEF D, fr, gr, A, K, C, b, G
  <2>5. Shares(D, gr, A, K, C, b \ (fr[pid] \ G))
    BY <2>1, <2>3, <2>4, SharesShed
  <2>7. A = HeapFrames(m') /\ K = {kernel'.frame} /\ C = leaked'.frames
    BY <1>1, <1>13 DEF A, K, C
  <2> QED
    BY <2>2, <2>5, <2>6, <2>7, Zenon DEF FramesShared, gr
<1>15. BlocksShared(m', task', kernel', leaked', pipes')
  <2> DEFINE new == m'
             after == task'
  <2>1. /\ Taken(new) = Taken(m) /\ t.block = task[pid].block
        /\ after = [task EXCEPT ![pid] = t]
    BY <1>1, <1>10, <1>13
  <2> HIDE DEF new, after
  <2>2. BlocksShared(new, after, kernel, leaked, pipes)
    BY <1>1, <1>2, <2>1, BlocksStay
  <2> QED
    BY <1>1, <2>2 DEF new, after
<1>16. DOMAIN task' = DOMAIN task /\ task'[pid] = t /\ \A p \in DOMAIN task : p # pid => task'[p] = task[p]
  BY <1>1
<1>17. IInv'
  <2>1. \A p \in DOMAIN task' : Sound(task'[p])
    BY <1>2, <1>10, <1>16
  <2>2. MemSound(m') /\ task_to_free' \in DOMAIN task' \cup {0} /\ DOMAIN task' \subseteq Pids
        /\ leaked' \in [frames : SUBSET Frames, blocks : SUBSET Nat]
    BY <1>1, <1>2, <1>7, <1>16
  <2> QED
    BY <1>14, <1>15, <2>1, <2>2 DEF IInv
<1>18. KeepsPages(old, t)
  <2>1. ASSUME NEW v \in Pages, t.page[v] # old.page[v] PROVE 2 * v >= t.heap_end /\ v < Entries
    <3>1. ~(v >= Entries \/ 2 * v < end)
      BY <1>8, <1>10, <2>1
    <3>2. v \in Int /\ Entries \in Int
      BY Sizes DEF Pages
    <3> QED
      BY <1>5, <1>10, <3>1, <3>2
  <2> QED
    BY <2>1 DEF KeepsPages
<1>19. \A p \in DOMAIN task \cap DOMAIN task' : KeepsPages(task[p], task'[p])
  BY <1>16, <1>18 DEF KeepsPages
<1> QED
  BY <1>17, <1>19

-----------------------------------------------------------------------------
(* elf_exec *)

\* The frames of the old program, which exec does not give back.
OldProgram(t) == ({t.table[0]} \cup {t.page[v] : v \in 0 .. Entries - 1}) \ {0}

\* The frames of a process that execs: those that are freed and those that are not.
LEMMA OldFrames ==
    ASSUME NEW t, Sound(t)
    PROVE  /\ FramesOf(t) \ {t.kernel_stack} = SpaceFrames(t, 1) \cup OldProgram(t)
           /\ SpaceFrames(t, 1) \cap OldProgram(t) = {}
           /\ OldProgram(t) \subseteq Frames
<1>1. Distinct(t) /\ t \in Drafts /\ t.kernel_stack # 0
  BY SoundIs
<1>2. ASSUME NEW v \in Pages PROVE (v \in 0 .. Entries - 1 <=> ~(IndexOf(v) >= 1)) /\ IndexOf(v) \in Indices
  <2>1. v \in Nat /\ Entries \in Nat /\ IndexOf(v) \in Indices /\ (IndexOf(v) >= 1 <=> v >= Entries)
    BY IndexOfIs, Sizes
  <2> QED
    BY <2>1
<1>3. 0 .. Entries - 1 \subseteq Pages
  BY Sizes DEF Pages
<1>4. \A i \in Indices : i = 0 <=> ~(i >= 1)
  BY DEF Indices
<1>5. 0 \in Indices
  BY DEF Indices
<1> DEFINE Late(x) == \/ x = PdAt \/ \E i \in Indices : i >= 1 /\ x = TableAt(i)
                      \/ \E v \in Pages : IndexOf(v) >= 1 /\ x = PageAt(v)
           Early(x) == x = TableAt(0) \/ \E v \in 0 .. Entries - 1 : x = PageAt(v)
<1>6. ASSUME NEW f PROVE f \in SpaceFrames(t, 1) <=> f # 0 /\ \E x \in Places : Late(x) /\ f = FrameIn(t, x)
  <2>1. f \in SpaceFrames(t, 1) <=> f # 0 /\ (\/ f = t.pd \/ \E i \in Indices : i >= 1 /\ f = t.table[i]
                                             \/ \E v \in Pages : IndexOf(v) >= 1 /\ f = t.page[v])
    BY DEF SpaceFrames
  <2> QED
    BY <2>1, Cells, PlacesAre
<1>7. ASSUME NEW f PROVE f \in OldProgram(t) <=> f # 0 /\ \E x \in Places : Early(x) /\ f = FrameIn(t, x)
  <2>1. f \in OldProgram(t) <=> f # 0 /\ (f = t.table[0] \/ \E v \in 0 .. Entries - 1 : f = t.page[v])
    BY DEF OldProgram
  <2>2. \A v \in 0 .. Entries - 1 : PageAt(v) \in Places /\ f = t.page[v] => Early(PageAt(v))
    OBVIOUS
  <2> QED
    BY <1>3, <1>5, <2>1, Cells, PlacesAre
<1>8. \A x \in Places : /\ ~(Late(x) /\ Early(x)) /\ (x = StackAt => ~Late(x) /\ ~Early(x))
                        /\ Late(x) \/ Early(x) \/ x = StackAt
  <2>1. ASSUME NEW x \in Places, Late(x), Early(x) PROVE FALSE
    <3>1. CASE x = PdAt
      BY <2>1, <3>1, PlacesApart
    <3>2. ASSUME NEW i \in Indices, i >= 1, x = TableAt(i) PROVE FALSE
      BY <1>4, <2>1, <3>2, PlacesApart
    <3>3. ASSUME NEW v \in Pages, IndexOf(v) >= 1, x = PageAt(v) PROVE FALSE
      BY <1>2, <2>1, <3>3, PlacesApart
    <3> QED
      BY <2>1, <3>1, <3>2, <3>3
  <2>2. ~Late(StackAt) /\ ~Early(StackAt)
    BY PlacesApart
  <2>3. ASSUME NEW x \in Places PROVE Late(x) \/ Early(x) \/ x = StackAt
    <3>1. ASSUME NEW i \in Indices, x = TableAt(i) PROVE Late(x) \/ Early(x)
      BY <1>4, <3>1
    <3>2. ASSUME NEW v \in Pages, x = PageAt(v) PROVE Late(x) \/ Early(x)
      BY <1>2, <3>2
    <3> QED
      BY <3>1, <3>2, PlacesAre
  <2> QED
    BY <2>1, <2>2, <2>3
<1> HIDE DEF Late, Early
<1>9. FrameIn(t, StackAt) = t.kernel_stack /\ StackAt \in Places
  BY Cells, PlacesAre
<1>10. ASSUME NEW f PROVE f \in FramesOf(t) <=> f # 0 /\ \E x \in Places : f = FrameIn(t, x)
  BY FramesOfPlaces
<1>11. ASSUME NEW f PROVE f \in FramesOf(t) \ {t.kernel_stack} <=> f \in SpaceFrames(t, 1) \cup OldProgram(t)
  BY <1>1, <1>6, <1>7, <1>8, <1>9, <1>10 DEF Distinct
<1>12. ASSUME NEW f \in SpaceFrames(t, 1), f \in OldProgram(t) PROVE FALSE
  BY <1>1, <1>6, <1>7, <1>8, <1>12 DEF Distinct
<1>13. OldProgram(t) \subseteq Frames
  BY <1>1, <1>3, <1>5 DEF OldProgram, Drafts
<1> QED
  BY <1>11, <1>12, <1>13

\* The frames and the blocks that there are, each of them somebody's.
AllShared(mem, tasks, kern, lost, open) ==
    MemSound(mem) /\ FramesShared(mem, tasks, kern, lost) /\ BlocksShared(mem, tasks, kern, lost, open)

\* The process pid has the program that was made, and the rest of the old one
\* is given back.
Replaced(mem, tasks, lost, pid, old, t, s, new, r, after, lost2) ==
    /\ pid \in DOMAIN tasks /\ old = tasks[pid] /\ Sound(old)
    /\ Made(mem, t, s) /\ t.kernel_stack = old.kernel_stack
    /\ new.block = old.block /\ FramesOf(new) = FramesOf(s.t)
    /\ r = FreeSpace(s.m, old, 1) /\ after = [tasks EXCEPT ![pid] = new]
    /\ lost2.frames = lost.frames \cup OldProgram(old) /\ lost2.blocks = lost.blocks

\* A process replaced by another, with frames leaked, keeps frames and blocks apart.
LEMMA ExecShares ==
    ASSUME NEW mem, NEW tasks, NEW kern, NEW lost, NEW open, AllShared(mem, tasks, kern, lost, open),
           NEW pid, NEW old, NEW t, NEW s, NEW new, NEW r, NEW after, NEW lost2,
           Replaced(mem, tasks, lost, pid, old, t, s, new, r, after, lost2)
    PROVE  AllShared(r, after, kern, lost2, open)
<1> DEFINE F == FramesOf(old)
           k == old.kernel_stack
           S == SpaceFrames(old, 1)
           O == OldProgram(old)
           L == F \ {k}
           N == s.m.bitmap \ mem.bitmap
<1>0. /\ pid \in DOMAIN tasks /\ old = tasks[pid] /\ Sound(old)
      /\ Made(mem, t, s) /\ t.kernel_stack = old.kernel_stack
      /\ new.block = old.block /\ FramesOf(new) = FramesOf(s.t)
      /\ r = FreeSpace(s.m, old, 1) /\ after = [tasks EXCEPT ![pid] = new]
      /\ lost2.frames = lost.frames \cup OldProgram(old) /\ lost2.blocks = lost.blocks
      /\ MemSound(mem) /\ FramesShared(mem, tasks, kern, lost) /\ BlocksShared(mem, tasks, kern, lost, open)
  BY DEF Replaced, AllShared
<1>1. old \in Drafts /\ Distinct(old) /\ old.pd # 0 /\ k # 0 /\ k \in F
  BY <1>0, SoundIs
<1>2. F \subseteq mem.bitmap \ HeapFrames(mem)
  BY <1>0, OwnedFrames
<1>3. /\ MemSound(s.m) /\ s.m.heap = mem.heap /\ mem.bitmap \subseteq s.m.bitmap
      /\ FramesOf(s.t) = {k} \cup N
  BY <1>0, <1>1 DEF Made, Kept
<1>4. L = S \cup O /\ S \cap O = {}
  BY <1>0, OldFrames
<1>5. HeapFrames(s.m) = HeapFrames(mem) /\ Taken(s.m) = Taken(mem)
  BY <1>3, SameHeapFrames
<1>6. Freed(s.m, S, r)
  <2>1. F \subseteq s.m.bitmap \ HeapFrames(s.m)
    BY <1>2, <1>3, <1>5
  <2> QED
    BY <1>0, <1>1, <1>3, <2>1, FreeSpaceKept
<1>7. FramesOf(new) \cap L = {} /\ FramesOf(new) \cup L = F \cup N /\ N \cap mem.bitmap = {}
  BY <1>0, <1>1, <1>2, <1>3
<1> HIDE DEF S, O, L
<1>8. Shares(DOMAIN after, FramesBy(after), HeapFrames(s.m), {kern.frame}, lost.frames \cup L, s.m.bitmap)
  <2> DEFINE big == s.m
  <2>1. /\ HeapFrames(big) = HeapFrames(mem) /\ mem.bitmap \subseteq big.bitmap /\ FramesOf(new) \cap L = {}
        /\ FramesOf(new) \cup L = FramesOf(tasks[pid]) \cup (big.bitmap \ mem.bitmap)
    BY <1>0, <1>3, <1>5, <1>7
  <2> HIDE DEF big
  <2>2. Shares(DOMAIN after, FramesBy(after), HeapFrames(big), {kern.frame}, lost.frames \cup L, big.bitmap)
    BY <1>0, <2>1, ProcessChanged
  <2> QED
    BY <2>2 DEF big
<1>9. lost.frames \cap F = {}
  <2> DEFINE D == DOMAIN tasks
             fr == FramesBy(tasks)
  <2>1. Shares(D, fr, HeapFrames(mem), {kern.frame}, lost.frames, mem.bitmap) /\ pid \in D /\ fr[pid] = F
    BY <1>0 DEF FramesShared, FramesBy
  <2> HIDE DEF D, fr, F
  <2>2. fr[pid] \cap (HeapFrames(mem) \cup {kern.frame} \cup lost.frames) = {}
    BY <2>1 DEF Shares
  <2> QED
    BY <2>1, <2>2
<1>10. (lost.frames \cup L) \ S = lost2.frames /\ S \subseteq lost.frames \cup L
  BY <1>0, <1>4, <1>9 DEF O, L
<1>11. r.bitmap = s.m.bitmap \ S /\ MemSound(r) /\ r.heap = s.m.heap
  BY <1>6 DEF Freed
<1>12. HeapFrames(r) = HeapFrames(s.m) /\ Taken(r) = Taken(mem)
  BY <1>5, <1>11, SameHeapFrames
<1>13. FramesShared(r, after, kern, lost2)
  <2> DEFINE D == DOMAIN after
             gr == FramesBy(after)
             A == HeapFrames(s.m)
             K == {kern.frame}
             C == lost.frames \cup L
             b == s.m.bitmap
  <2>1. Shares(D, gr, A, K, C, b) /\ S \subseteq C
    BY <1>8, <1>10
  <2>2. C \ S = lost2.frames /\ b \ S = r.bitmap /\ A = HeapFrames(r)
    BY <1>10, <1>11, <1>12
  <2> HIDE DEF D, gr, A, K, C, b
  <2>3. Shares(D, gr, A, K, C \ S, b \ S)
    BY <2>1, SharesForget
  <2> QED
    BY <2>2, <2>3, Zenon DEF FramesShared, D, gr, K
<1>14. BlocksShared(r, after, kern, lost2, open)
  BY <1>0, <1>12, BlocksStay
<1> QED
  BY <1>11, <1>13, <1>14 DEF AllShared

\* A step that changes nothing keeps the invariant and the pages.
LEMMA Stutters ==
    ASSUME IInv, UNCHANGED vars
    PROVE  IInv' /\ \A p \in DOMAIN task \cap DOMAIN task' : KeepsPages(task[p], task'[p])
<1>1. /\ m' = m /\ task' = task /\ task_to_free' = task_to_free /\ pipes' = pipes
      /\ kernel' = kernel /\ leaked' = leaked /\ starved' = starved
  BY DEF vars
<1>2. IInv'
  BY <1>1 DEF IInv
<1>3. \A p \in DOMAIN task : KeepsPages(task[p], task[p])
  BY DEF KeepsPages
<1> QED
  BY <1>1, <1>2, <1>3

\* The process whose directory exec makes, and the one that it is to be.
Blank(t) == [t EXCEPT !.table = Nothing.table, !.page = Nothing.page]
Entered(old, t, n) ==
    IF 2 * n > old.heap_start THEN [t EXCEPT !.heap_start = 2 * n, !.heap_end = 2 * n] ELSE t

\* The directory of exec is made as for a process that has nothing yet but its
\* kernel stack.
LEMMA ExecDirectory ==
    ASSUME NEW mem, MemSound(mem), NEW old, Sound(old), old.kernel_stack \in mem.bitmap,
           NEW d, d = create_address_space(Building(mem, Blank(old))),
           NEW n \in Programs, NEW s, s = LoadProgram(d, n)
    PROVE  \E t : /\ t.kernel_stack = old.kernel_stack /\ Carries(old, t)
                  /\ Made(mem, t, s) /\ s.t.pd = d.t.pd /\ d.t.pd \notin mem.bitmap
                  /\ d.t.pd = 0 => d.m = mem
<1> DEFINE none == Nothing.table
           blank == Nothing.page
           z == [old EXCEPT !.table = none, !.page = blank]
           t == [z EXCEPT !.pd = 0]
           u == Building(mem, z)
           w == Building(mem, t)
<1>1. old \in Drafts
  BY SoundIs
<1>2. /\ none \in [Indices -> Frames \cup {0}] /\ \A i \in Indices : none[i] = 0
      /\ blank \in [Pages -> Frames \cup {0}] /\ \A v \in Pages : blank[v] = 0
  BY DEF Nothing
<1> HIDE DEF none, blank
<1>3. z \in Drafts
  BY <1>1, <1>2 DEF Drafts
<1>4. /\ z.table = none /\ z.page = blank /\ z.kernel_stack = old.kernel_stack /\ Carries(old, z)
  BY <1>1, <1>2 DEF Drafts, Carries
<1>5. t = [z EXCEPT !.pd = 0]
  OBVIOUS
<1> HIDE DEF z, t
<1>6. /\ t \in Drafts /\ t.pd = 0 /\ t.table = none /\ t.page = blank
      /\ t.kernel_stack = old.kernel_stack /\ Carries(old, t)
  BY <1>3, <1>4, <1>5 DEF Drafts, Carries
<1>7. Bare(t)
  BY <1>2, <1>6 DEF Bare
<1>8. /\ u \in Drafting /\ u.m = mem /\ u.t = z
      /\ w \in Drafting /\ w.m = mem /\ w.t = [u.t EXCEPT !.pd = 0] /\ w.short = u.short
  <2>1. u \in Drafting /\ u.m = mem /\ u.t = z
    <3>1. mem \in Memories /\ u = [m |-> mem, t |-> z, short |-> FALSE]
      BY DEF Building, MemSound
    <3> HIDE DEF u
    <3> QED
      BY <1>3, <3>1 DEF Drafting
  <2>2. w \in Drafting /\ w.m = mem /\ w.t = t
    <3>1. mem \in Memories /\ w = [m |-> mem, t |-> t, short |-> FALSE]
      BY DEF Building, MemSound
    <3> HIDE DEF w
    <3> QED
      BY <1>6, <3>1 DEF Drafting
  <2>3. w.short = u.short
    BY DEF Building
  <2> QED
    BY <1>5, <2>1, <2>2, <2>3
<1>9. d = create_address_space(u)
  BY DEF z, none, blank, Blank
<1>10. d = create_address_space(w)
  <2> HIDE DEF u, w
  <2>1. create_address_space(u) = create_address_space(w)
    BY <1>8, CreateOver
  <2> QED
    BY <1>9, <2>1
<1>11. {t.kernel_stack} \ {0} \subseteq mem.bitmap
  BY <1>6
<1>12. /\ Made(mem, t, s) /\ s.t.pd = d.t.pd /\ d.t.pd \notin mem.bitmap
       /\ d.t.pd = 0 => d.m = mem
  BY <1>7, <1>10, <1>11, ProgramMade
<1> QED
  BY <1>6, <1>12

\* The process after an exec.
LEMMA Executed ==
    ASSUME NEW old, Sound(old), NEW mem, NEW t, t.kernel_stack = old.kernel_stack, Carries(old, t),
           NEW s, Made(mem, t, s), s.t.pd # 0, NEW n \in Programs, NEW new,
           new = Entered(old, s.t, n)
    PROVE  Sound(new) /\ new.block = old.block /\ FramesOf(new) = FramesOf(s.t) /\ new.pd = s.t.pd
<1> DEFINE x == s.t
           end == 2 * n
<1>1. /\ x \in Drafts /\ Distinct(x) /\ x.page[Scratch] = 0 /\ x.kernel_stack = old.kernel_stack
      /\ x.block = old.block /\ x.pd # 0
  BY DEF Made, Kept, Drafting, Carries
<1>2. old.kernel_stack # 0
  BY SoundIs
<1>3. end \in 0 .. 2 * Entries
  BY Sizes
<1>4. new = x \/ new = [x EXCEPT !.heap_start = end, !.heap_end = end]
  BY Zenon DEF Entered
<1> HIDE DEF x, end
<1>5. /\ new \in Drafts /\ new.pd = x.pd /\ new.kernel_stack = x.kernel_stack /\ new.table = x.table
      /\ new.page = x.page /\ new.block = x.block
  <2>1. CASE new = x
    BY <1>1, <2>1
  <2>2. CASE new = [x EXCEPT !.heap_start = end, !.heap_end = end]
    BY <1>1, <1>3, <2>2 DEF Drafts
  <2> QED
    BY <1>4, <2>1, <2>2
<1>6. FramesOf(new) = FramesOf(x) /\ Distinct(new)
  BY <1>1, <1>5, SameFrames
<1>7. Sound(new)
  BY <1>1, <1>2, <1>5, <1>6, SoundFrom
<1> QED
  BY <1>1, <1>5, <1>6, <1>7 DEF x

\* exec keeps both, whether it fails or not.
LEMMA ExecStep ==
    ASSUME IInv, NEW pid \in Pids, NEW n \in Programs, Exec(pid, n)
    PROVE  IInv' /\ \A p \in DOMAIN task \cap DOMAIN task' : KeepsPages(task[p], task'[p])
<1> DEFINE old == task[pid]
           k == kmalloc(m, PHDRS)
           d == create_address_space(Building(k.m, Blank(old)))
           s == LoadProgram(d, n)
           new == Entered(old, s.t, n)
           r == FreeSpace(s.m, old, 1)
           O == OldProgram(old)
           open == pipes \cup ({k.at} \ {0})
<1>1. /\ ~starved /\ pid \in DOMAIN task
      /\ k.at = 0 => UNCHANGED vars
      /\ k.at # 0 /\ d.t.pd = 0 => m' = kfree(k.m, k.at)
                                   /\ UNCHANGED <<task, task_to_free, pipes, kernel, leaked, starved>>
      /\ k.at # 0 /\ d.t.pd # 0 => /\ m' = kfree(r, k.at) /\ task' = [task EXCEPT ![pid] = new]
                                   /\ leaked' = [leaked EXCEPT !.frames = @ \cup O]
                                   /\ UNCHANGED <<task_to_free, pipes, kernel>>
  BY Zenon DEF Exec, Alive, Becomes, Lost, FirstOfExec, OldProgram, Blank, Entered
<1>2. /\ MemSound(m) /\ \A p \in DOMAIN task : Sound(task[p])
      /\ FramesShared(m, task, kernel, leaked) /\ BlocksShared(m, task, kernel, leaked, pipes)
      /\ task_to_free \in DOMAIN task \cup {0} /\ DOMAIN task \subseteq Pids
      /\ leaked \in [frames : SUBSET Frames, blocks : SUBSET Nat]
  BY <1>1 DEF IInv
<1>3. /\ MemSound(k.m) /\ FramesShared(k.m, task, kernel, leaked)
      /\ BlocksShared(k.m, task, kernel, leaked, open)
  BY <1>2, Sizes, KmallocShares
<1>4. k.at \notin Taken(m)
  BY <1>2, Sizes, KmallocSound DEF KmallocIs
<1>5. pipes \subseteq Taken(m)
  BY <1>2, SharesIn DEF BlocksShared
<1> HIDE DEF k
<1>6. k.at # 0 => open \ {k.at} = pipes /\ k.at \in open
  BY <1>4, <1>5
<1> HIDE DEF open
<1>7. Sound(old) /\ FramesOf(old) \subseteq k.m.bitmap
  BY <1>1, <1>2, <1>3, OwnedFrames
<1>8. old.kernel_stack \in k.m.bitmap /\ old.pd \in k.m.bitmap
  BY <1>7, SoundIs
<1> DEFINE mem == k.m
<1>9. PICK t : /\ t.kernel_stack = old.kernel_stack /\ Carries(old, t)
               /\ Made(k.m, t, s) /\ s.t.pd = d.t.pd /\ d.t.pd \notin k.m.bitmap
               /\ d.t.pd = 0 => d.m = k.m
  <2>1. /\ d = create_address_space(Building(mem, Blank(old)))
        /\ s = LoadProgram(d, n)
    OBVIOUS
  <2>2. MemSound(mem) /\ old.kernel_stack \in mem.bitmap
    BY <1>3, <1>8
  <2> HIDE DEF old, d, s, mem
  <2>3. \E t : /\ t.kernel_stack = old.kernel_stack /\ Carries(old, t)
               /\ Made(mem, t, s) /\ s.t.pd = d.t.pd /\ d.t.pd \notin mem.bitmap
               /\ d.t.pd = 0 => d.m = mem
    BY <1>7, <2>1, <2>2, ExecDirectory
  <2> QED
    BY <2>3 DEF mem
<1>10. CASE k.at = 0
  BY <1>1, <1>10, Stutters
<1>11. CASE k.at # 0 /\ d.t.pd = 0
  <2>1. /\ m' = kfree(k.m, k.at) /\ UNCHANGED <<task, task_to_free, pipes, kernel, leaked, starved>>
    BY <1>1, <1>11
  <2> HIDE DEF d, s
  <2>2. MemSound(m') /\ FramesShared(m', task, kernel, leaked) /\ BlocksShared(m', task, kernel, leaked, pipes)
    BY <1>3, <1>6, <1>11, <2>1, KfreeShares
  <2>3. IInv'
    BY <1>2, <2>1, <2>2 DEF IInv
  <2>4. \A p \in DOMAIN task : KeepsPages(task[p], task[p])
    BY DEF KeepsPages
  <2> QED
    BY <2>1, <2>3, <2>4
<1>12. CASE k.at # 0 /\ d.t.pd # 0
  <2>1. /\ m' = kfree(r, k.at) /\ task' = [task EXCEPT ![pid] = new]
        /\ leaked' = [leaked EXCEPT !.frames = @ \cup O]
        /\ UNCHANGED <<task_to_free, pipes, kernel>>
    BY <1>1, <1>12
  <2>2. r = FreeSpace(s.m, old, 1) /\ s.t.pd # 0
    BY <1>9, <1>12
  <2>3. new = Entered(old, s.t, n)
    OBVIOUS
  <2> HIDE DEF d, s, r, new
  <2>4. Sound(new) /\ new.block = old.block /\ FramesOf(new) = FramesOf(s.t) /\ new.pd = s.t.pd
    <3>1. Made(mem, t, s)
      BY <1>9
    <3> HIDE DEF old, mem
    <3> QED
      BY <1>7, <1>9, <2>2, <2>3, <3>1, Executed
  <2>5. O \in SUBSET Frames
    BY <1>7, OldFrames
  <2>6. /\ leaked' \in [frames : SUBSET Frames, blocks : SUBSET Nat]
        /\ leaked'.frames = leaked.frames \cup O /\ leaked'.blocks = leaked.blocks
    <3> HIDE DEF O
    <3> QED
      BY <1>2, <2>1, <2>5, LostIs
  <2> DEFINE after == task'
             lost2 == leaked'
  <2>7. after = [task EXCEPT ![pid] = new] /\ lost2.frames = leaked.frames \cup O /\ lost2.blocks = leaked.blocks
    BY <2>1, <2>6
  <2> HIDE DEF after, lost2
  <2>8. AllShared(r, after, kernel, lost2, open)
    <3> HIDE DEF old, mem
    <3>1. old = task[pid] /\ pid \in DOMAIN task
      BY <1>1 DEF old
    <3>2. AllShared(mem, task, kernel, leaked, open) /\ Made(mem, t, s)
      BY <1>3, <1>9 DEF mem, AllShared
    <3>3. Replaced(mem, task, leaked, pid, old, t, s, new, r, after, lost2)
      BY <1>7, <1>9, <2>2, <2>4, <2>7, <3>1, <3>2 DEF Replaced
    <3> QED
      BY <3>2, <3>3, ExecShares
  <2>9. MemSound(m') /\ FramesShared(m', after, kernel, lost2) /\ BlocksShared(m', after, kernel, lost2, pipes)
    <3> DEFINE end == m'
    <3>1. end = kfree(r, k.at)
      BY <2>1
    <3> HIDE DEF end
    <3>2. MemSound(end) /\ FramesShared(end, after, kernel, lost2) /\ BlocksShared(end, after, kernel, lost2, pipes)
      BY <1>6, <1>12, <2>8, <3>1, KfreeShares DEF AllShared
    <3> QED
      BY <3>2 DEF end
  <2>10. DOMAIN task' = DOMAIN task /\ task'[pid] = new /\ \A p \in DOMAIN task : p # pid => task'[p] = task[p]
    BY <1>1, <2>1
  <2>11. IInv'
    <3>1. \A p \in DOMAIN task' : Sound(task'[p])
      BY <1>2, <2>4, <2>10
    <3>2. task_to_free' \in DOMAIN task' \cup {0} /\ DOMAIN task' \subseteq Pids
      BY <1>2, <2>1, <2>10
    <3>3. FramesShared(m', task', kernel', leaked') /\ BlocksShared(m', task', kernel', leaked', pipes')
      BY <2>1, <2>9 DEF after, lost2
    <3> QED
      BY <2>6, <2>9, <3>1, <3>2, <3>3 DEF IInv
  <2>12. KeepsPages(old, new)
    BY <1>8, <1>9, <2>4 DEF KeepsPages
  <2>13. \A p \in DOMAIN task \cap DOMAIN task' : KeepsPages(task[p], task'[p])
    BY <2>10, <2>12 DEF KeepsPages
  <2> QED
    BY <2>11, <2>13
<1> QED
  BY <1>10, <1>11, <1>12

-----------------------------------------------------------------------------
(* task_fork *)

\* The scratch page is mapped to f, and its table made if there was none.
Took(mem, g, new) == AllocIs(mem, [m |-> new, frame |-> g])
ScratchMapped(s, f, r) ==
    /\ r \in Drafting /\ MemSound(r.m) /\ Carries(s.t, r.t)
    /\ \A y \in Places : FrameIn(r.t, y) = IF y = PageAt(Scratch) THEN f
                                           ELSE IF y = TableAt(2) THEN r.t.table[2]
                                           ELSE FrameIn(s.t, y)
    /\ \/ s.t.table[2] # 0 /\ r.t.table[2] = s.t.table[2] /\ r.m = s.m
       \/ s.t.table[2] = 0 /\ Took(s.m, r.t.table[2], r.m)

\* pmm_alloc_page took a frame that was not marked.
LEMMA TookIs ==
    ASSUME NEW mem, NEW a, AllocIs(mem, a)
    PROVE  Took(mem, a.frame, a.m)
  BY DEF Took, AllocIs

\* The scratch page is mapped, with a table of its own the first time.
LEMMA MapScratch ==
    ASSUME NEW s \in Drafting, MemSound(s.m), NEW f \in Frames \cup {0},
           NEW r, r = vmm_map_page_ex(s, Scratch, f)
    PROVE  ScratchMapped(s, f, r)
<1> DEFINE t == [s.t EXCEPT !.page[Scratch] = f]
           a == pmm_alloc_page(s.m)
<1>1. s.t \in Drafts /\ Scratch \in Pages /\ IndexOf(Scratch) = 2 /\ 2 \in Indices
  BY ScratchIs DEF Drafting, Indices
<1>2. Mapped(r, s.m, a, 2, t)
  BY <1>1, MapPage
<1>3. AllocIs(s.m, a)
  BY AllocSound DEF AllocIs
<1>4. t = [s.t EXCEPT !.page[Scratch] = f]
  OBVIOUS
<1> HIDE DEF a, t
<1>5. PutIn(s.t, PageAt(Scratch), f, t) /\ t.table = s.t.table
  BY <1>1, <1>4, PutPage
<1>6. /\ r \in Drafting
      /\ t.table[2] = 0 => r.m = a.m /\ PutIn(t, TableAt(2), a.frame, r.t)
      /\ t.table[2] # 0 => r.m = s.m /\ r.t = t
  BY <1>2 DEF Mapped
<1>7. PageAt(Scratch) # TableAt(2) /\ PageAt(Scratch) \in Places /\ TableAt(2) \in Places
  BY <1>1, PlacesAre, PlacesApart
<1>8. FrameIn(r.t, TableAt(2)) = r.t.table[2] /\ FrameIn(t, TableAt(2)) = t.table[2]
      /\ FrameIn(s.t, TableAt(2)) = s.t.table[2]
  BY Cells
<1>9. CASE t.table[2] = 0
  <2>1. r.m = a.m /\ PutIn(t, TableAt(2), a.frame, r.t) /\ s.t.table[2] = 0
    BY <1>5, <1>6, <1>9
  <2>2. r.t.table[2] = a.frame
    BY <1>7, <1>8, <2>1 DEF PutIn
  <2>3. Took(s.m, r.t.table[2], r.m) /\ MemSound(r.m)
    BY <1>3, <2>1, <2>2, TookIs DEF AllocIs
  <2>4. ASSUME NEW y \in Places
        PROVE  FrameIn(r.t, y) = IF y = PageAt(Scratch) THEN f
                                 ELSE IF y = TableAt(2) THEN r.t.table[2] ELSE FrameIn(s.t, y)
    BY <1>5, <1>7, <2>1, <2>2 DEF PutIn
  <2>5. Carries(s.t, r.t)
    BY <1>5, <2>1 DEF PutIn, Carries
  <2> QED
    BY <1>6, <2>1, <2>3, <2>4, <2>5 DEF ScratchMapped
<1>10. CASE t.table[2] # 0
  <2>1. r.m = s.m /\ r.t = t /\ s.t.table[2] # 0 /\ r.t.table[2] = s.t.table[2]
    BY <1>5, <1>6, <1>10
  <2>2. ASSUME NEW y \in Places
        PROVE  FrameIn(r.t, y) = IF y = PageAt(Scratch) THEN f
                                 ELSE IF y = TableAt(2) THEN r.t.table[2] ELSE FrameIn(s.t, y)
    BY <1>5, <1>7, <1>8, <2>1 DEF PutIn
  <2>3. Carries(s.t, r.t)
    BY <1>5, <2>1 DEF PutIn
  <2> QED
    BY <1>6, <2>1, <2>2, <2>3 DEF ScratchMapped
<1> QED
  BY <1>9, <1>10

\* What fork leaves of its mapping: the table, when there was none.
ScratchLeft(mem, old, r) ==
    /\ r \in Drafting /\ MemSound(r.m) /\ PutIn(old, TableAt(2), r.t.table[2], r.t)
    /\ \/ r.t.table[2] = old.table[2] /\ r.m = mem
       \/ old.table[2] = 0 /\ Took(mem, r.t.table[2], r.m)

\* The parent after it used the scratch page: it may have a table more.
LEMMA ScratchUsed ==
    ASSUME NEW mem, MemSound(mem), NEW old, Sound(old), NEW f \in Frames \cup {0},
           NEW s, s = vmm_map_page_ex(Building(mem, old), Scratch, f),
           NEW r, r = vmm_map_page_ex(s, Scratch, 0)
    PROVE  ScratchLeft(mem, old, r)
<1> DEFINE b == Building(mem, old)
<1>1. b \in Drafting /\ b.m = mem /\ b.t = old
  BY SoundIs DEF Building, Drafting, MemSound
<1> HIDE DEF b
<1>2. ScratchMapped(b, f, s)
  BY <1>1, MapScratch DEF b
<1>3. s \in Drafting /\ MemSound(s.m) /\ 0 \in Frames \cup {0}
  BY <1>2 DEF ScratchMapped
<1>4. ScratchMapped(s, 0, r)
  BY <1>3, MapScratch
<1>5. old.page[Scratch] = 0 /\ FrameIn(old, PageAt(Scratch)) = 0
  BY SoundIs, Cells
<1>6. PageAt(Scratch) # TableAt(2)
  BY PlacesApart
<1>7. PutIn(old, TableAt(2), r.t.table[2], r.t)
  <2>1. ASSUME NEW y \in Places
        PROVE  FrameIn(r.t, y) = IF y = TableAt(2) THEN r.t.table[2] ELSE FrameIn(old, y)
    BY <1>1, <1>2, <1>4, <1>5, <1>6 DEF ScratchMapped
  <2>2. r.t \in Drafts /\ Carries(old, r.t)
    BY <1>1, <1>2, <1>4 DEF ScratchMapped, Drafting, Carries
  <2> QED
    BY <2>1, <2>2 DEF PutIn
<1>8. \/ r.t.table[2] = old.table[2] /\ r.m = mem
      \/ old.table[2] = 0 /\ Took(mem, r.t.table[2], r.m)
  <2>1. \/ old.table[2] # 0 /\ s.t.table[2] = old.table[2] /\ s.m = mem
        \/ old.table[2] = 0 /\ Took(mem, s.t.table[2], s.m)
    BY <1>1, <1>2 DEF ScratchMapped
  <2>2. \/ s.t.table[2] # 0 /\ r.t.table[2] = s.t.table[2] /\ r.m = s.m
        \/ s.t.table[2] = 0 /\ Took(s.m, r.t.table[2], r.m)
    BY <1>4 DEF ScratchMapped
  <2>3. ASSUME Took(mem, 0, s.m) PROVE s.m = mem
    BY <2>3 DEF Took, AllocIs
  <2> QED
    BY <2>1, <2>2, <2>3
<1> QED
  BY <1>4, <1>7, <1>8 DEF ScratchLeft, ScratchMapped

\* The parent has what it had, and the table.
LEMMA ParentLeft ==
    ASSUME NEW mem, MemSound(mem), NEW old, Sound(old), FramesOf(old) \subseteq mem.bitmap,
           NEW r, ScratchLeft(mem, old, r)
    PROVE  /\ Sound(r.t) /\ r.t.block = old.block /\ KeepsPages(old, r.t)
           /\ MemSound(r.m) /\ r.m.heap = mem.heap /\ mem.bitmap \subseteq r.m.bitmap
           /\ FramesOf(r.t) = FramesOf(old) \cup (r.m.bitmap \ mem.bitmap)
<1> DEFINE t == r.t
           g == t.table[2]
<1>1. /\ r \in Drafting /\ MemSound(r.m) /\ PutIn(old, TableAt(2), g, t)
      /\ \/ g = old.table[2] /\ r.m = mem
         \/ old.table[2] = 0 /\ Took(mem, g, r.m)
  BY DEF ScratchLeft
<1>2. t \in Drafts
  BY <1>1 DEF Drafting
<1>3. /\ old.pd # 0 /\ old.kernel_stack # 0 /\ old.page[Scratch] = 0 /\ Distinct(old) /\ Scratch \in Pages
  BY SoundIs, ScratchIs
<1>4. 2 \in Indices /\ TableAt(2) \in Places /\ FrameIn(old, TableAt(2)) = old.table[2]
  BY PlacesAre, Cells DEF Indices
<1>5. /\ t.pd = old.pd /\ t.kernel_stack = old.kernel_stack
      /\ \A v \in Pages : t.page[v] = old.page[v]
      /\ Carries(old, t)
  BY <1>1, <1>4, PutInTable DEF OnlyTable
<1>6. \A y \in Places : FrameIn(t, y) = IF y = TableAt(2) THEN g ELSE FrameIn(old, y)
  BY <1>1 DEF PutIn
<1>7. t.block = old.block /\ KeepsPages(old, t)
  BY <1>5 DEF Carries, KeepsPages
<1>8. /\ Distinct(t) /\ r.m.heap = mem.heap /\ mem.bitmap \subseteq r.m.bitmap
      /\ FramesOf(t) = FramesOf(old) \cup (r.m.bitmap \ mem.bitmap)
  <2> HIDE DEF t, g
  <2>1. CASE g = old.table[2] /\ r.m = mem
    <3>1. \A y \in Places : FrameIn(t, y) = FrameIn(old, y)
      BY <1>4, <1>6, <2>1
    <3>2. Distinct(t)
      BY <1>3, <3>1 DEF Distinct
    <3>3. FramesOf(t) = FramesOf(old)
      BY <3>1, FramesOfPlaces
    <3> QED
      BY <2>1, <3>2, <3>3
  <2>2. CASE old.table[2] = 0 /\ Took(mem, g, r.m)
    <3>1. /\ r.m.heap = mem.heap /\ g \notin mem.bitmap /\ r.m.bitmap = mem.bitmap \cup ({g} \ {0})
      BY <2>2 DEF Took, AllocIs
    <3>2. g \notin FramesOf(old)
      BY <3>1
    <3>3. Distinct(t) /\ FramesOf(t) = FramesOf(old) \cup ({g} \ {0})
      BY <1>3, <1>4, <1>6, <2>2, <3>2, PutEmpty
    <3> QED
      BY <3>1, <3>3
  <2> QED
    BY <1>1, <2>1, <2>2 DEF t, g
<1>9. Sound(t)
  <2> HIDE DEF t
  <2> QED
    BY <1>2, <1>3, <1>5, <1>8, SoundFrom
<1> QED
  BY <1>1, <1>7, <1>8, <1>9

\* The child, of the clone s, the block and the frame of a kernel stack.
ChildOf(s, block, frame, old) ==
    [s.t EXCEPT !.block = block, !.kernel_stack = frame,
                !.heap_start = old.heap_start, !.heap_end = old.heap_end]

\* What a fork has of the child when all its frames were to be had.
CanHaveChild(mem, old, s, block, frame) ==
    /\ Sound(old) /\ IsClone(mem, {}, Building(mem, Nothing), old, s) /\ s.t.pd # 0
    /\ block \in Nat /\ frame \in Frames /\ frame \notin s.m.bitmap
IsChild(mem, s, block, frame, new) ==
    /\ Sound(new) /\ new.block = block
    /\ FramesOf(new) = (s.m.bitmap \ mem.bitmap) \cup {frame}

\* The child of a fork has what was cloned, a block and a kernel stack.
LEMMA ChildMade ==
    ASSUME NEW mem, NEW old, NEW s, NEW block, NEW frame, CanHaveChild(mem, old, s, block, frame)
    PROVE  IsChild(mem, s, block, frame, ChildOf(s, block, frame, old))
<1> DEFINE t == s.t
           new == ChildOf(s, block, frame, old)
           F == FramesOf(t)
<1>0. /\ Sound(old) /\ IsClone(mem, {}, Building(mem, Nothing), old, s) /\ t.pd # 0
      /\ block \in Nat /\ frame \in Frames /\ frame \notin s.m.bitmap
  BY DEF CanHaveChild
<1>1. /\ t \in Drafts /\ Distinct(t) /\ F = s.m.bitmap \ mem.bitmap
      /\ t.kernel_stack = 0
      /\ \A v \in Pages : old.page[v] = 0 => t.page[v] = 0
  <2>1. /\ s \in Drafting /\ Distinct(t) /\ F \cup {} = {} \cup (s.m.bitmap \ mem.bitmap)
    BY <1>0 DEF IsClone, Kept
  <2>2. t.kernel_stack = Building(mem, Nothing).t.kernel_stack /\ \A v \in Pages : old.page[v] = 0 => t.page[v] = 0
    BY <1>0 DEF IsClone
  <2>3. Building(mem, Nothing).t = Nothing
    BY DEF Building
  <2> QED
    BY <2>1, <2>2, <2>3, NothingBare DEF Drafting
<1>2. t.page[Scratch] = 0
  BY <1>0, <1>1, ScratchIs, SoundIs
<1>3. old.heap_start \in 0 .. 2 * Entries /\ old.heap_end \in 0 .. 2 * Entries
  BY <1>0, SoundIs DEF Drafts
<1>4. new = [t EXCEPT !.block = block, !.kernel_stack = frame,
                      !.heap_start = old.heap_start, !.heap_end = old.heap_end]
  BY Zenon DEF ChildOf
<1>5. frame # 0 /\ t.pd # 0
  BY <1>0, FramesAssumption DEF FramesAssumption
<1> HIDE DEF t, F, new
<1>6. /\ new \in Drafts /\ new.pd = t.pd /\ new.table = t.table /\ new.page = t.page
      /\ new.kernel_stack = frame /\ new.block = block
  BY <1>0, <1>1, <1>3, <1>4 DEF Drafts
<1>7. \A y \in Places : FrameIn(new, y) = IF y = StackAt THEN frame ELSE FrameIn(t, y)
  BY <1>6, PutStack
<1>8. frame \notin F
  BY <1>0, <1>1
<1>9. Distinct(new) /\ FramesOf(new) = F \cup ({frame} \ {0})
  <2>1. StackAt \in Places /\ FrameIn(t, StackAt) = 0
    BY <1>1, Cells, PlacesAre
  <2>2. frame \notin FramesOf(t)
    BY <1>8 DEF F
  <2>3. Distinct(new) /\ FramesOf(new) = FramesOf(t) \cup ({frame} \ {0})
    BY <1>1, <1>7, <2>1, <2>2, PutEmpty
  <2> QED
    BY <2>3 DEF F
<1>10. Sound(new)
  BY <1>2, <1>5, <1>6, <1>9, SoundFrom
<1> QED
  BY <1>1, <1>5, <1>6, <1>9, <1>10 DEF IsChild, new

\* A new owner has N, an old one has G more, and the first part has H more.
Forking(D, fr, all, q, child, N, H, G, gr) ==
    /\ q \in D /\ child \notin D
    /\ N \cap all = {} /\ H \cap (all \cup N) = {} /\ G \cap (all \cup N \cup H) = {}
    /\ gr[child] = N /\ gr[q] = fr[q] \cup G /\ \A p \in D : p # q => gr[p] = fr[p]

\* A new owner, an old one with more, and a first part with more.
LEMMA SharesFork ==
    ASSUME NEW D, NEW fr, NEW A, NEW B, NEW C, NEW all, Shares(D, fr, A, B, C, all),
           NEW q, NEW child, NEW N, NEW H, NEW G, NEW gr, Forking(D, fr, all, q, child, N, H, G, gr)
    PROVE  Shares(D \cup {child}, gr, A \cup H, B, C, all \cup N \cup H \cup G)
<1> DEFINE E == D \cup {child}
           P == A \cup H
           many == all \cup N \cup H \cup G
<1>0. /\ q \in D /\ child \notin D
      /\ N \cap all = {} /\ H \cap (all \cup N) = {} /\ G \cap (all \cup N \cup H) = {}
      /\ gr[child] = N /\ gr[q] = fr[q] \cup G /\ \A p \in D : p # q => gr[p] = fr[p]
  BY DEF Forking
<1>1. Points(D, fr, A, B, C, all)
  BY SharesToPoints
<1>2. /\ \A x : x \in N => x \notin all
      /\ \A x : x \in H => x \notin all /\ x \notin N
      /\ \A x : x \in G => x \notin all /\ x \notin N /\ x \notin H
      /\ \A x : x \in P <=> x \in A \/ x \in H
      /\ \A x : x \in many <=> x \in all \/ x \in N \/ x \in H \/ x \in G
      /\ \A p : p \in E <=> p \in D \/ p = child
      /\ q \in D /\ child \notin D
  BY <1>0
<1>3. /\ \A x : x \in gr[child] <=> x \in N
      /\ \A x : x \in gr[q] <=> x \in fr[q] \/ x \in G
      /\ \A p \in D : p # q => gr[p] = fr[p]
      /\ child # q
  BY <1>0
<1> HIDE DEF E, P, many
<1>4. ASSUME NEW p \in E, NEW x, x \in gr[p] PROVE x \notin P /\ x \notin B /\ x \notin C /\ x \in many
  <2>1. CASE p = child
    BY <1>1, <1>2, <1>3, <1>4, <2>1 DEF Points
  <2>2. CASE p = q
    BY <1>1, <1>2, <1>3, <1>4, <2>2 DEF Points
  <2>3. CASE p \in D /\ p # q
    BY <1>1, <1>2, <1>3, <1>4, <2>3 DEF Points
  <2> QED
    BY <1>2, <1>4, <2>1, <2>2, <2>3
<1>5. ASSUME NEW p \in D, NEW x, x \in gr[p] PROVE x \in fr[p] \/ (p = q /\ x \in G)
  BY <1>3, <1>5
<1>6. ASSUME NEW p \in E, NEW o \in E, NEW x, x \in gr[p], x \in gr[o] PROVE p = o
  <2>1. CASE p \in D /\ o \in D
    BY <1>1, <1>2, <1>5, <1>6, <2>1 DEF Points
  <2>2. CASE p = child /\ o \in D
    BY <1>1, <1>2, <1>3, <1>5, <1>6, <2>2 DEF Points
  <2>3. CASE p \in D /\ o = child
    BY <1>1, <1>2, <1>3, <1>5, <1>6, <2>3 DEF Points
  <2> QED
    BY <1>2, <2>1, <2>2, <2>3
<1>7. \A x : ~(x \in P /\ x \in B) /\ ~(x \in P /\ x \in C) /\ ~(x \in B /\ x \in C)
  BY <1>1, <1>2 DEF Points
<1>8. \A x : (x \in P \/ x \in B \/ x \in C) => x \in many
  BY <1>1, <1>2 DEF Points
<1>9. ASSUME NEW x \in many PROVE x \in P \/ x \in B \/ x \in C \/ \E p \in E : x \in gr[p]
  <2>1. CASE x \in all
    <3>1. ASSUME NEW p \in D, x \in fr[p] PROVE x \in gr[p] /\ p \in E
      BY <1>2, <1>3, <3>1
    <3> QED
      BY <1>1, <1>2, <2>1, <3>1 DEF Points
  <2>2. CASE x \in N
    BY <1>2, <1>3, <2>2
  <2>3. CASE x \in H
    BY <1>2, <2>3
  <2>4. CASE x \in G
    BY <1>2, <1>3, <2>4
  <2> QED
    BY <1>2, <1>9, <2>1, <2>2, <2>3, <2>4
<1>10. Points(E, gr, P, B, C, many)
  BY <1>4, <1>6, <1>7, <1>8, <1>9 DEF Points
<1>11. Shares(E, gr, P, B, C, many)
  BY <1>10, PointsToShares
<1> QED
  BY <1>11 DEF E, P, many

\* What is shared after a fork whose allocations all succeeded: mem before it,
\* the clone's frames, those of the heap, the kernel stack and the table.
Forked(mem, tasks, pid, child, after, N, H, G, r) ==
    /\ pid \in DOMAIN tasks /\ child \notin DOMAIN tasks /\ DOMAIN after = DOMAIN tasks \cup {child}
    /\ \A p \in DOMAIN tasks : p # pid => after[p] = tasks[p]
    /\ after[pid].block = tasks[pid].block
    /\ N \cap mem.bitmap = {} /\ H \cap (mem.bitmap \cup N) = {} /\ G \cap (mem.bitmap \cup N \cup H) = {}
    /\ FramesOf(after[child]) = N /\ FramesOf(after[pid]) = FramesOf(tasks[pid]) \cup G
    /\ after[child].block \notin Taken(mem)
    /\ MemSound(r) /\ r.bitmap = mem.bitmap \cup N \cup H \cup G
    /\ HeapFrames(r) = HeapFrames(mem) \cup H /\ Taken(r) = Taken(mem) \cup {after[child].block}

\* A fork keeps frames and blocks apart.
LEMMA ForkShares ==
    ASSUME NEW mem, NEW tasks, NEW kern, NEW lost, NEW open, AllShared(mem, tasks, kern, lost, open),
           NEW pid, NEW child, NEW after, NEW N, NEW H, NEW G, NEW r,
           Forked(mem, tasks, pid, child, after, N, H, G, r)
    PROVE  AllShared(r, after, kern, lost, open)
<1> DEFINE D == DOMAIN tasks
           b == mem.bitmap
           C == lost.frames
<1>0. /\ pid \in DOMAIN tasks /\ child \notin DOMAIN tasks /\ DOMAIN after = DOMAIN tasks \cup {child}
      /\ \A p \in DOMAIN tasks : p # pid => after[p] = tasks[p]
      /\ after[pid].block = tasks[pid].block
      /\ N \cap mem.bitmap = {} /\ H \cap (mem.bitmap \cup N) = {} /\ G \cap (mem.bitmap \cup N \cup H) = {}
      /\ FramesOf(after[child]) = N /\ FramesOf(after[pid]) = FramesOf(tasks[pid]) \cup G
      /\ after[child].block \notin Taken(mem)
      /\ MemSound(r) /\ r.bitmap = mem.bitmap \cup N \cup H \cup G
      /\ HeapFrames(r) = HeapFrames(mem) \cup H /\ Taken(r) = Taken(mem) \cup {after[child].block}
      /\ child # pid
  BY DEF Forked
<1>1. FramesShared(r, after, kern, lost)
  <2> DEFINE fr == FramesBy(tasks)
             gr == FramesBy(after)
             A == HeapFrames(mem)
             K == {kern.frame}
  <2>1. Shares(D, fr, A, K, C, b)
    BY DEF AllShared, FramesShared
  <2>2. gr[child] = N /\ gr[pid] = fr[pid] \cup G /\ \A p \in D : p # pid => gr[p] = fr[p]
    BY <1>0 DEF FramesBy
  <2>3. /\ N \cap b = {} /\ H \cap (b \cup N) = {} /\ G \cap (b \cup N \cup H) = {}
        /\ child \notin D /\ pid \in D /\ DOMAIN after = D \cup {child}
        /\ r.bitmap = b \cup N \cup H \cup G /\ HeapFrames(r) = A \cup H
    BY <1>0
  <2> HIDE DEF D, b, C, fr, gr, A, K
  <2>4. Shares(D \cup {child}, gr, A \cup H, K, C, b \cup N \cup H \cup G)
    <3>1. Forking(D, fr, b, pid, child, N, H, G, gr)
      BY <2>2, <2>3 DEF Forking
    <3> QED
      BY <2>1, <3>1, SharesFork
  <2> QED
    BY <2>3, <2>4, Zenon DEF FramesShared, gr, K, C
<1>2. BlocksShared(r, after, kern, lost, open)
  <2> DEFINE fr == BlocksBy(tasks)
             gr == BlocksBy(after)
             T == Taken(mem)
             K == {kern.block}
             L == lost.blocks
             B == {after[child].block}
  <2>1. Shares(D, fr, open, K, L, T)
    BY DEF AllShared, BlocksShared
  <2>2. gr[child] = B /\ \A p \in D : gr[p] = fr[p]
    BY <1>0 DEF BlocksBy
  <2>3. B \cap T = {} /\ child \notin D /\ DOMAIN after = D \cup {child} /\ Taken(r) = T \cup B
    BY <1>0
  <2> HIDE DEF D, fr, gr, T, K, L, B
  <2>4. Shares(D \cup {child}, gr, open, K, L, T \cup B)
    BY <2>1, <2>2, <2>3, SharesNew
  <2> QED
    BY <2>3, <2>4, Zenon DEF BlocksShared, gr, K, L
<1> QED
  BY <1>0, <1>1, <1>2 DEF AllShared

\* fork keeps the invariant and the pages of the parent, whether it fails or not.
LEMMA ForkStep ==
    ASSUME IInv, NEW pid \in Pids, NEW child \in Pids, Fork(pid, child)
    PROVE  IInv' /\ \A p \in DOMAIN task \cap DOMAIN task' : KeepsPages(task[p], task'[p])
<1> DEFINE old == task[pid]
           s == clone_address_space(Building(m, Nothing), old)
           k == kmalloc(s.m, TASK)
           a == pmm_alloc_page(k.m)
           scratch == vmm_map_page_ex(Building(a.m, old), Scratch, a.frame)
           r == vmm_map_page_ex(scratch, Scratch, 0)
           new == ChildOf(s, k.at, a.frame, old)
<1>1. /\ ~starved /\ pid \in DOMAIN task /\ child \notin DOMAIN task
      /\ s.t.pd = 0 => UNCHANGED vars
      /\ s.t.pd # 0 => /\ m' = r.m
                       /\ task' = [p \in DOMAIN task \cup {child} |->
                                     IF p = pid THEN r.t ELSE IF p = child THEN new ELSE task[p]]
                       /\ starved' = (s.short \/ k.at = 0 \/ a.frame = 0 \/ r.short)
                       /\ UNCHANGED <<task_to_free, pipes, kernel, leaked>>
  BY Zenon DEF Fork, Alive, ChildOf
<1>2. /\ MemSound(m) /\ \A p \in DOMAIN task : Sound(task[p])
      /\ FramesShared(m, task, kernel, leaked) /\ BlocksShared(m, task, kernel, leaked, pipes)
      /\ task_to_free \in DOMAIN task \cup {0} /\ DOMAIN task \subseteq Pids
      /\ leaked \in [frames : SUBSET Frames, blocks : SUBSET Nat]
  BY <1>1 DEF IInv
<1>3. Sound(old) /\ FramesOf(old) \subseteq m.bitmap
  BY <1>1, <1>2, OwnedFrames
<1>4. IsClone(m, {}, Building(m, Nothing), old, s)
  <2> DEFINE b == Building(m, Nothing)
  <2>1. Kept(m, {}, b, {})
    BY <1>2, NothingKept
  <2>2. b.t = Nothing
    BY DEF Building
  <2>3. s = clone_address_space(b, old)
    OBVIOUS
  <2> HIDE DEF b, s, old
  <2>4. b.t.pd = 0 /\ (\A i \in Indices : b.t.table[i] = 0) /\ (\A v \in Pages : b.t.page[v] = 0)
    BY <2>2, NothingBare DEF Bare
  <2>5. IsClone(m, {}, b, old, s)
    BY <2>1, <2>3, <2>4, CloneKept
  <2> QED
    BY <2>5 DEF b
<1>5. MemSound(s.m) /\ s.m.heap = m.heap /\ m.bitmap \subseteq s.m.bitmap
  BY <1>4 DEF IsClone, Kept
<1> HIDE DEF s
<1>6. KmallocIs(s.m, k)
  BY <1>5, Sizes, KmallocSound
<1>7. MemSound(k.m)
  BY <1>6 DEF KmallocIs
<1> HIDE DEF k
<1>8. AllocIs(k.m, a) /\ HeapFrames(a.m) = HeapFrames(k.m) /\ Taken(a.m) = Taken(k.m)
  BY <1>7, AllocSound DEF AllocIs
<1> HIDE DEF a
<1>9. /\ MemSound(a.m) /\ a.frame \in Frames \cup {0} /\ a.m.heap = k.m.heap
      /\ a.frame \notin k.m.bitmap /\ a.m.bitmap = k.m.bitmap \cup ({a.frame} \ {0})
  BY <1>8 DEF AllocIs
<1>10. /\ HeapFrames(k.m) = HeapFrames(m) \cup (k.m.bitmap \ s.m.bitmap)
       /\ Taken(k.m) = Taken(m) \cup ({k.at} \ {0}) /\ k.at \notin Taken(m) /\ k.at \in Nat
       /\ s.m.bitmap \subseteq k.m.bitmap
  BY <1>5, <1>6, SameHeapFrames DEF KmallocIs
<1>11. ScratchLeft(a.m, old, r)
  <2> DEFINE mem == a.m
  <2>1. MemSound(mem) /\ scratch = vmm_map_page_ex(Building(mem, old), Scratch, a.frame)
    BY <1>9
  <2>2. r = vmm_map_page_ex(scratch, Scratch, 0)
    OBVIOUS
  <2> HIDE DEF mem, scratch, r, old
  <2>3. ScratchLeft(mem, old, r)
    BY <1>3, <1>9, <2>1, <2>2, ScratchUsed
  <2> QED
    BY <2>3 DEF mem
<1> HIDE DEF scratch, r
<1>12. FramesOf(old) \subseteq a.m.bitmap
  BY <1>3, <1>5, <1>9, <1>10
<1>13. /\ Sound(r.t) /\ r.t.block = old.block /\ KeepsPages(old, r.t)
       /\ MemSound(r.m) /\ r.m.heap = a.m.heap /\ a.m.bitmap \subseteq r.m.bitmap
       /\ FramesOf(r.t) = FramesOf(old) \cup (r.m.bitmap \ a.m.bitmap)
  <2> DEFINE mem == a.m
  <2>1. MemSound(mem) /\ FramesOf(old) \subseteq mem.bitmap /\ ScratchLeft(mem, old, r)
    BY <1>9, <1>11, <1>12
  <2> HIDE DEF mem, old
  <2>2. /\ Sound(r.t) /\ r.t.block = old.block /\ KeepsPages(old, r.t)
        /\ MemSound(r.m) /\ r.m.heap = mem.heap /\ mem.bitmap \subseteq r.m.bitmap
        /\ FramesOf(r.t) = FramesOf(old) \cup (r.m.bitmap \ mem.bitmap)
    BY <1>3, <2>1, ParentLeft
  <2> QED
    BY <2>2 DEF mem
<1>14. new = ChildOf(s, k.at, a.frame, old)
  OBVIOUS
<1> HIDE DEF new
<1>15. CASE s.t.pd = 0
  BY <1>1, <1>15, Stutters
<1>16. CASE s.t.pd # 0
  <2>1. /\ m' = r.m
        /\ task' = [p \in DOMAIN task \cup {child} |->
                      IF p = pid THEN r.t ELSE IF p = child THEN new ELSE task[p]]
        /\ starved' = (s.short \/ k.at = 0 \/ a.frame = 0 \/ r.short)
        /\ UNCHANGED <<task_to_free, pipes, kernel, leaked>>
    BY <1>1, <1>16
  <2>2. /\ DOMAIN task' = DOMAIN task \cup {child} /\ task'[pid] = r.t /\ task'[child] = new
        /\ \A p \in DOMAIN task : p # pid => task'[p] = task[p]
    BY <1>1, <2>1
  <2>3. \A p \in DOMAIN task \cap DOMAIN task' : KeepsPages(task[p], task'[p])
    BY <1>13, <2>2 DEF KeepsPages
  <2>4. /\ MemSound(m') /\ task_to_free' \in DOMAIN task' \cup {0} /\ DOMAIN task' \subseteq Pids
        /\ leaked' \in [frames : SUBSET Frames, blocks : SUBSET Nat]
    BY <1>2, <1>13, <2>1, <2>2
  <2>5. ASSUME ~starved'
        PROVE  /\ \A p \in DOMAIN task' : Sound(task'[p])
               /\ FramesShared(m', task', kernel', leaked')
               /\ BlocksShared(m', task', kernel', leaked', pipes')
    <3> DEFINE after == task'
               N == (s.m.bitmap \ m.bitmap) \cup {a.frame}
               H == k.m.bitmap \ s.m.bitmap
               G == r.m.bitmap \ a.m.bitmap
    <3>1. k.at # 0 /\ a.frame # 0
      BY <2>1, <2>5, Zenon
    <3>2. a.frame \in Frames /\ a.frame \notin s.m.bitmap
      BY <1>9, <1>10, <3>1
    <3>3. Sound(new) /\ new.block = k.at /\ FramesOf(new) = N
      <4> DEFINE block == k.at
                 frame == a.frame
      <4>1. block \in Nat /\ frame \in Frames /\ frame \notin s.m.bitmap
        BY <1>10, <3>2
      <4>2. new = ChildOf(s, block, frame, old)
        BY <1>14
      <4> HIDE DEF block, frame, old
      <4>3. CanHaveChild(m, old, s, block, frame)
        BY <1>3, <1>4, <1>16, <4>1 DEF CanHaveChild
      <4>4. IsChild(m, s, block, frame, new)
        <5>1. IsChild(m, s, block, frame, ChildOf(s, block, frame, old))
          BY <4>3, ChildMade
        <5> QED
          BY <4>2, <5>1, Zenon
      <4>5. Sound(new) /\ new.block = block /\ FramesOf(new) = (s.m.bitmap \ m.bitmap) \cup {frame}
        BY <4>4 DEF IsChild
      <4> QED
        BY <4>5 DEF block, frame
    <3>4. /\ N \cap m.bitmap = {} /\ H \cap (m.bitmap \cup N) = {} /\ G \cap (m.bitmap \cup N \cup H) = {}
          /\ r.m.bitmap = m.bitmap \cup N \cup H \cup G
      <4> DEFINE b == m.bitmap
                 c == s.m.bitmap
                 e == k.m.bitmap
                 f == a.m.bitmap
                 g == r.m.bitmap
                 x == a.frame
      <4>1. b \subseteq c /\ c \subseteq e /\ f = e \cup {x} /\ x \notin e /\ f \subseteq g
        BY <1>5, <1>9, <1>10, <1>13, <3>1
      <4>2. N = (c \ b) \cup {x} /\ H = e \ c /\ G = g \ f
        OBVIOUS
      <4> HIDE DEF b, c, e, f, g, x, N, H, G
      <4>3. N \cap b = {} /\ H \cap (b \cup N) = {} /\ G \cap (b \cup N \cup H) = {} /\ g = b \cup N \cup H \cup G
        BY <4>1, <4>2
      <4> QED
        BY <4>3 DEF b, g
    <3>5. HeapFrames(r.m) = HeapFrames(m) \cup H /\ Taken(r.m) = Taken(m) \cup {k.at}
      <4>1. HeapFrames(r.m) = HeapFrames(a.m) /\ Taken(r.m) = Taken(a.m)
        BY <1>13, SameHeapFrames
      <4> QED
        BY <1>8, <1>10, <3>1, <4>1
    <3>6. /\ DOMAIN after = DOMAIN task \cup {child} /\ \A p \in DOMAIN task : p # pid => after[p] = task[p]
          /\ after[pid].block = task[pid].block /\ FramesOf(after[child]) = N
          /\ FramesOf(after[pid]) = FramesOf(task[pid]) \cup G
          /\ after[child].block = k.at
      BY <1>13, <2>2, <3>3
    <3> HIDE DEF after, N, H, G, old
    <3> DEFINE end == r.m
    <3>7. /\ MemSound(end) /\ end.bitmap = m.bitmap \cup N \cup H \cup G
          /\ HeapFrames(end) = HeapFrames(m) \cup H /\ Taken(end) = Taken(m) \cup {after[child].block}
          /\ after[child].block \notin Taken(m)
      BY <1>10, <1>13, <3>4, <3>5, <3>6
    <3> HIDE DEF end
    <3>8. AllShared(m, task, kernel, leaked, pipes)
      BY <1>2 DEF AllShared
    <3>9. AllShared(end, after, kernel, leaked, pipes)
      <4>1. Forked(m, task, pid, child, after, N, H, G, end)
        BY <1>1, <3>4, <3>6, <3>7 DEF Forked
      <4> QED
        BY <3>8, <4>1, ForkShares
    <3>10. FramesShared(m', task', kernel', leaked') /\ BlocksShared(m', task', kernel', leaked', pipes')
      BY <2>1, <3>9 DEF AllShared, after, end
    <3>11. \A p \in DOMAIN task' : Sound(task'[p])
      BY <1>2, <1>13, <2>2, <3>3
    <3> QED
      BY <3>10, <3>11
  <2>6. IInv'
    BY <2>4, <2>5 DEF IInv
  <2> QED
    BY <2>3, <2>6
<1> QED
  BY <1>15, <1>16

-----------------------------------------------------------------------------
(* Start-up *)

\* The memory that memory_init leaves is sound.
LEMMA FirstMemory == MemSound(memory_init) /\ Taken(memory_init) = {} /\ HeapFrames(memory_init) = {}
<1> DEFINE h == memory_init.heap
<1>1. memory_init.bitmap = {} /\ memory_init.used = 0 /\ h = <<>>
  BY DEF memory_init
<1>2. memory_init \in Memories
  <2>1. <<>> \in Seq(Blocks) /\ 0 \in Nat /\ {} \in SUBSET Frames
    OBVIOUS
  <2> QED
    BY <2>1 DEF memory_init, Memories
<1>3. h \in Seq(Blocks) /\ Len(h) = 0 /\ DOMAIN h = {} /\ ToSet(h) = {}
  BY <1>1 DEF ToSet
<1> HIDE DEF h
<1>4. FramesUnder(h) = {} /\ TakenIn(h) = {}
  BY <1>3 DEF FramesUnder, TakenIn
<1>5. SumOf(h) = 0
  <2>1. PICK f : SumsOf(h, f)
    BY <1>3, SumRun
  <2> QED
    BY <1>3, <2>1 DEF SumsOf
<1>6. AllApart(h) /\ AllSettled(h)
  BY <1>3 DEF AllApart, AllSettled
<1>7. Cardinality({}) = 0
  BY FS_EmptySet
<1>8. Tiled(memory_init)
  <2>1. SumOf(h) = PAGE_SIZE * Cardinality(FramesUnder(h))
    BY <1>4, <1>5, <1>7, Units
  <2> QED
    BY <1>3, <1>6, <2>1, TiledParts DEF h
<1>9. HeapFrames(memory_init) = {}
  BY <1>4, HeapFramesUnder DEF h
<1> QED
  BY <1>1, <1>2, <1>4, <1>7, <1>8, <1>9 DEF MemSound, Taken, h

\* A process that lacks nothing but its struct and its kernel stack gets them.
LEMMA ProcessCreated ==
    ASSUME NEW s \in Drafting, MemSound(s.m), Distinct(s.t), s.t.pd # 0, s.t.kernel_stack = 0,
           s.t.page[Scratch] = 0, FramesOf(s.t) \subseteq s.m.bitmap,
           NEW k, k = kmalloc(s.m, TASK), NEW a, a = pmm_alloc_page(k.m),
           NEW r, r = create_process(s)
    PROVE  /\ r.m = a.m /\ r.t.block = k.at /\ r.t.pd = s.t.pd
           /\ ~r.short => /\ k.at # 0 /\ a.frame # 0 /\ Sound(r.t)
                          /\ FramesOf(r.t) = FramesOf(s.t) \cup {a.frame}
<1> DEFINE x == s.t
           new == [x EXCEPT !.block = k.at, !.kernel_stack = a.frame]
           short == s.short \/ k.at = 0 \/ a.frame = 0
<1>1. KmallocIs(s.m, k)
  BY Sizes, KmallocSound
<1>2. MemSound(k.m) /\ k.at \in Nat /\ s.m.bitmap \subseteq k.m.bitmap
  BY <1>1 DEF KmallocIs
<1>3. /\ MemSound(a.m) /\ a.frame \in Frames \cup {0} /\ a.frame \notin k.m.bitmap
  BY <1>2, AllocSound
<1>4. x \in Drafts /\ s.m \in Memories /\ a.m \in Memories /\ s.short \in BOOLEAN
  BY <1>3 DEF Drafting, MemSound
<1>5. r = [s EXCEPT !.m = a.m, !.t.block = k.at, !.t.kernel_stack = a.frame,
                    !.short = @ \/ k.at = 0 \/ a.frame = 0]
  BY Zenon DEF create_process
<1>6. short \in BOOLEAN /\ short = (s.short \/ k.at = 0 \/ a.frame = 0)
  BY Zenon
<1>7. r = [s EXCEPT !.m = a.m, !.t.block = k.at, !.t.kernel_stack = a.frame, !.short = short]
  BY <1>5, Zenon DEF short
<1> HIDE DEF short
<1>8. r.m = a.m /\ r.short = short
  BY <1>4, <1>6, <1>7 DEF Drafting
<1>9. r.t = new
  BY <1>4, <1>7 DEF Drafting, Drafts
<1> HIDE DEF new
<1>10. /\ new \in Drafts /\ new.pd = x.pd /\ new.table = x.table /\ new.page = x.page
       /\ new.kernel_stack = a.frame /\ new.block = k.at
  BY <1>2, <1>3, <1>4 DEF Drafts, new
<1>11. ASSUME ~short
       PROVE  /\ k.at # 0 /\ a.frame # 0 /\ Sound(new) /\ FramesOf(new) = FramesOf(x) \cup {a.frame}
  <2> DEFINE f == a.frame
  <2>1. k.at # 0 /\ f # 0
    BY <1>6, <1>11, Zenon
  <2>2. \A y \in Places : FrameIn(new, y) = IF y = StackAt THEN new.kernel_stack ELSE FrameIn(x, y)
    BY <1>10, PutStack
  <2>3. StackAt \in Places /\ FrameIn(x, StackAt) = 0 /\ new.kernel_stack = f
    BY <1>10, Cells, PlacesAre
  <2>4. f \notin FramesOf(x)
    BY <1>2, <1>3
  <2> HIDE DEF f, x
  <2>5. Distinct(new) /\ FramesOf(new) = FramesOf(x) \cup ({f} \ {0})
    BY <2>2, <2>3, <2>4, PutEmpty DEF x
  <2>6. new.page[Scratch] = 0 /\ new.pd # 0 /\ new.kernel_stack # 0
    BY <1>10, <2>1, <2>3 DEF x
  <2>7. Sound(new)
    BY <1>10, <2>5, <2>6, SoundFrom
  <2> QED
    BY <2>1, <2>5, <2>7 DEF f
<1> QED
  BY <1>8, <1>9, <1>10, <1>11

\* The first process has what was taken for it, but for what the heap has.
Loaded(mem, new, t, H) ==
    /\ Sound(t) /\ FramesOf(t) \cap mem.bitmap = {} /\ H \cap (mem.bitmap \cup FramesOf(t)) = {}
    /\ HeapFrames(new) = HeapFrames(mem) \cup H
    /\ new.bitmap = mem.bitmap \cup FramesOf(t) \cup H
    /\ Taken(new) = Taken(mem) \cup {t.block} /\ t.block \notin Taken(mem)

\* elf_load: what it marks is the first process's or the heap's.
LEMMA ElfLoaded ==
    ASSUME NEW mem, MemSound(mem), NEW n \in Programs, NEW s, s = elf_load(mem, n), s.t.pd # 0
    PROVE  MemSound(s.m) /\ (~s.short => \E H : Loaded(mem, s.m, s.t, H))
<1> DEFINE k == kmalloc(mem, PHDRS)
           d == create_address_space(Building(k.m, Nothing))
           p == LoadProgram(d, n)
           x == [p EXCEPT !.m = kfree(@, k.at)]
           j == kmalloc(x.m, TASK)
           a == pmm_alloc_page(j.m)
<1>1. s = create_process(x) /\ k.at # 0 /\ d.t.pd # 0
  <2>1. CASE k.at = 0 \/ d.t.pd = 0
    <3>1. s = Building(mem, Nothing)
      BY <2>1, Zenon DEF elf_load
    <3>2. s.t = Nothing
      BY <3>1 DEF Building
    <3> QED
      BY <3>2, NothingBare DEF Bare
  <2>2. CASE ~(k.at = 0 \/ d.t.pd = 0)
    BY <2>2, Zenon DEF elf_load
  <2> QED
    BY <2>1, <2>2
<1>2. /\ KmallocIs(mem, k)
  BY Sizes, KmallocSound
<1>3. /\ MemSound(k.m) /\ k.at \in Nat /\ mem.bitmap \subseteq k.m.bitmap
      /\ HeapFrames(k.m) = HeapFrames(mem) \cup (k.m.bitmap \ mem.bitmap)
      /\ Taken(k.m) = Taken(mem) \cup {k.at} /\ k.at \notin Taken(mem)
  BY <1>1, <1>2 DEF KmallocIs
<1>4. Made(k.m, Nothing, p) /\ p.t.pd # 0
  <2> DEFINE c == k.m
  <2>1. MemSound(c) /\ Bare(Nothing) /\ {Nothing.kernel_stack} \ {0} \subseteq c.bitmap
    BY <1>3, NothingBare
  <2>2. d = create_address_space(Building(c, Nothing)) /\ p = LoadProgram(d, n)
    OBVIOUS
  <2> HIDE DEF c, d, p
  <2>3. Made(c, Nothing, p) /\ p.t.pd = d.t.pd
    BY <2>1, <2>2, ProgramMade
  <2> QED
    BY <1>1, <2>3 DEF c
<1> HIDE DEF k, d, p
<1>5. /\ p \in Drafting /\ MemSound(p.m) /\ p.m.heap = k.m.heap /\ k.m.bitmap \subseteq p.m.bitmap
      /\ Distinct(p.t) /\ FramesOf(p.t) = p.m.bitmap \ k.m.bitmap
      /\ p.t.kernel_stack = 0 /\ p.t.page[Scratch] = 0
  <2>1. {Nothing.kernel_stack} \ {0} = {}
    BY NothingBare
  <2>2. Kept(k.m, {}, p, {}) /\ p.t.kernel_stack = 0 /\ p.t.page[Scratch] = 0
    BY <1>4, <2>1, NothingBare DEF Made
  <2> QED
    BY <2>2 DEF Kept
<1>6. HeapFrames(p.m) = HeapFrames(k.m) /\ Taken(p.m) = Taken(k.m)
  BY <1>5, SameHeapFrames
<1>7. /\ MemSound(kfree(p.m, k.at)) /\ kfree(p.m, k.at).bitmap = p.m.bitmap
      /\ HeapFrames(kfree(p.m, k.at)) = HeapFrames(p.m) /\ Taken(kfree(p.m, k.at)) = Taken(p.m) \ {k.at}
  BY <1>5, KfreeSound
<1>8. /\ x \in Drafting /\ x.t = p.t /\ x.m = kfree(p.m, k.at)
  <2> DEFINE f == kfree(p.m, k.at)
  <2>1. f \in Memories /\ x = [p EXCEPT !.m = f]
    BY <1>7 DEF MemSound
  <2> HIDE DEF x, f
  <2>2. x \in Drafting /\ x.t = p.t /\ x.m = f
    BY <1>5, <2>1 DEF Drafting
  <2> QED
    BY <2>2 DEF f
<1> HIDE DEF x
<1>9. /\ MemSound(x.m) /\ x.m.bitmap = p.m.bitmap /\ HeapFrames(x.m) = HeapFrames(k.m)
      /\ Taken(x.m) = Taken(mem)
  BY <1>3, <1>6, <1>7, <1>8
<1>10. /\ s.m = a.m /\ s.t.block = j.at
       /\ ~s.short => /\ j.at # 0 /\ a.frame # 0 /\ Sound(s.t)
                      /\ FramesOf(s.t) = FramesOf(p.t) \cup {a.frame}
  <2>1. j = kmalloc(x.m, TASK) /\ a = pmm_alloc_page(j.m)
    OBVIOUS
  <2>2. /\ Distinct(x.t) /\ x.t.pd # 0 /\ x.t.kernel_stack = 0 /\ x.t.page[Scratch] = 0
        /\ FramesOf(x.t) \subseteq x.m.bitmap /\ FramesOf(x.t) = FramesOf(p.t)
    BY <1>4, <1>5, <1>8, <1>9
  <2> HIDE DEF j, a
  <2>3. /\ s.m = a.m /\ s.t.block = j.at
        /\ ~s.short => /\ j.at # 0 /\ a.frame # 0 /\ Sound(s.t)
                       /\ FramesOf(s.t) = FramesOf(x.t) \cup {a.frame}
    BY <1>1, <1>8, <1>9, <2>1, <2>2, ProcessCreated
  <2> QED
    BY <2>2, <2>3
<1>11. /\ MemSound(j.m) /\ x.m.bitmap \subseteq j.m.bitmap
       /\ HeapFrames(j.m) = HeapFrames(x.m) \cup (j.m.bitmap \ x.m.bitmap)
       /\ Taken(j.m) = Taken(x.m) \cup ({j.at} \ {0}) /\ j.at \notin Taken(x.m)
  BY <1>9, Sizes, KmallocSound DEF KmallocIs
<1>12. /\ MemSound(a.m) /\ a.frame \notin j.m.bitmap /\ a.m.bitmap = j.m.bitmap \cup ({a.frame} \ {0})
       /\ HeapFrames(a.m) = HeapFrames(j.m) /\ Taken(a.m) = Taken(j.m)
  BY <1>11, AllocSound
<1> HIDE DEF j, a
<1>13. ASSUME ~s.short
       PROVE  Loaded(mem, s.m, s.t, (k.m.bitmap \ mem.bitmap) \cup (j.m.bitmap \ x.m.bitmap))
  <2> DEFINE b == mem.bitmap
             c == k.m.bitmap
             e == p.m.bitmap
             g == j.m.bitmap
             f == a.frame
             F == FramesOf(s.t)
             H == (c \ b) \cup (g \ e)
  <2>1. /\ b \subseteq c /\ c \subseteq e /\ e \subseteq g /\ f \notin g /\ f # 0
        /\ F = (e \ c) \cup {f} /\ s.m.bitmap = g \cup {f}
    BY <1>3, <1>5, <1>9, <1>10, <1>11, <1>12, <1>13
  <2>2. /\ HeapFrames(s.m) = (HeapFrames(mem) \cup (c \ b)) \cup (g \ e)
        /\ Taken(s.m) = Taken(mem) \cup {s.t.block} /\ s.t.block \notin Taken(mem) /\ Sound(s.t)
    BY <1>3, <1>9, <1>10, <1>11, <1>12, <1>13
  <2>3. H = (c \ b) \cup (g \ e) /\ (k.m.bitmap \ mem.bitmap) \cup (j.m.bitmap \ x.m.bitmap) = H
    BY <1>9
  <2> HIDE DEF b, c, e, g, f, F, H
  <2>4. F \cap b = {} /\ H \cap (b \cup F) = {} /\ s.m.bitmap = b \cup F \cup H
        /\ HeapFrames(s.m) = HeapFrames(mem) \cup H
    BY <2>1, <2>2, <2>3
  <2>5. Loaded(mem, s.m, s.t, H)
    BY <2>2, <2>4 DEF Loaded, b, F
  <2> QED
    BY <2>3, <2>5
<1> QED
  BY <1>10, <1>12, <1>13

\* What is shared when there is one process.
LEMMA SharesOne ==
    ASSUME NEW q, NEW fr, NEW A, NEW B, fr[q] \cap (A \cup B) = {}, A \cap B = {}
    PROVE  Shares({q}, fr, A, B, {}, fr[q] \cup A \cup B)
<1>1. UNION {fr[p] : p \in {q}} = fr[q]
  OBVIOUS
<1>2. fr[q] \cup A \cup B = (UNION {fr[p] : p \in {q}}) \cup A \cup B \cup {}
  BY <1>1
<1> QED
  BY <1>2 DEF Shares

\* The first process makes the invariant true.
LEMMA InitInv == Init => IInv
<1> SUFFICES ASSUME Init PROVE IInv
  OBVIOUS
<1> DEFINE a == pmm_alloc_page(memory_init)
           k == kmalloc(a.m, TASK)
<1>1. PICK n \in Programs :
        LET s == elf_load(k.m, n)
        IN  /\ a.frame # 0 /\ s.t.pd # 0
            /\ m = s.m /\ task = [pid \in {1} |-> s.t]
            /\ task_to_free = 0 /\ pipes = {}
            /\ kernel = [frame |-> a.frame, block |-> k.at]
            /\ leaked = [frames |-> {}, blocks |-> {}]
            /\ starved = (s.short \/ k.at = 0)
  BY Zenon DEF Init
<1> DEFINE s == elf_load(k.m, n)
<1>2. /\ a.frame # 0 /\ s.t.pd # 0 /\ m = s.m /\ task = [pid \in {1} |-> s.t]
      /\ task_to_free = 0 /\ pipes = {} /\ kernel = [frame |-> a.frame, block |-> k.at]
      /\ leaked = [frames |-> {}, blocks |-> {}] /\ starved = (s.short \/ k.at = 0)
  BY <1>1
<1>3. /\ MemSound(a.m) /\ HeapFrames(a.m) = {} /\ Taken(a.m) = {} /\ a.m.bitmap = {a.frame}
  <2>1. memory_init.bitmap = {}
    BY DEF memory_init
  <2>2. /\ MemSound(a.m) /\ HeapFrames(a.m) = HeapFrames(memory_init) /\ Taken(a.m) = Taken(memory_init)
        /\ a.m.bitmap = memory_init.bitmap \cup ({a.frame} \ {0})
    BY FirstMemory, AllocSound
  <2> HIDE DEF a
  <2> QED
    BY <1>2, <2>1, <2>2, FirstMemory
<1> HIDE DEF a
<1>a. KmallocIs(a.m, k)
  <2> DEFINE c == a.m
  <2>1. MemSound(c)
    BY <1>3
  <2> HIDE DEF c
  <2>2. KmallocIs(c, kmalloc(c, TASK))
    BY <2>1, Sizes, KmallocSound
  <2> QED
    BY <2>2 DEF c
<1> HIDE DEF k
<1>4. /\ MemSound(k.m) /\ a.m.bitmap \subseteq k.m.bitmap
      /\ HeapFrames(k.m) = HeapFrames(a.m) \cup (k.m.bitmap \ a.m.bitmap)
      /\ Taken(k.m) = Taken(a.m) \cup ({k.at} \ {0})
  BY <1>a DEF KmallocIs
<1>5. MemSound(s.m) /\ (~s.short => \E H : Loaded(k.m, s.m, s.t, H))
  BY <1>2, <1>4, ElfLoaded
<1> HIDE DEF s
<1>6. /\ DOMAIN task = {1} /\ task[1] = s.t
      /\ kernel.frame = a.frame /\ kernel.block = k.at /\ leaked.frames = {} /\ leaked.blocks = {}
  BY <1>2
<1>7. /\ MemSound(m) /\ task_to_free \in DOMAIN task \cup {0} /\ DOMAIN task \subseteq Pids
      /\ leaked \in [frames : SUBSET Frames, blocks : SUBSET Nat]
  BY <1>2, <1>5, <1>6, PidsAssumption DEF PidsAssumption
<1>8. ASSUME ~starved
      PROVE  /\ \A p \in DOMAIN task : Sound(task[p])
             /\ FramesShared(m, task, kernel, leaked) /\ BlocksShared(m, task, kernel, leaked, pipes)
  <2>1. ~s.short /\ k.at # 0
    BY <1>2, <1>8, Zenon
  <2>2. PICK H : Loaded(k.m, s.m, s.t, H)
    BY <1>5, <2>1
  <2> DEFINE F == FramesOf(s.t)
             b == k.m.bitmap
             f == a.frame
  <2>3. /\ Sound(s.t) /\ F \cap b = {} /\ H \cap (b \cup F) = {}
        /\ HeapFrames(s.m) = HeapFrames(k.m) \cup H /\ s.m.bitmap = b \cup F \cup H
        /\ Taken(s.m) = Taken(k.m) \cup {s.t.block} /\ s.t.block \notin Taken(k.m)
    BY <2>2 DEF Loaded
  <2>4. f \in b /\ HeapFrames(k.m) = b \ {f} /\ Taken(k.m) = {k.at}
    BY <1>3, <1>4, <2>1
  <2>5. FramesShared(m, task, kernel, leaked)
    <3> DEFINE fr == FramesBy(task)
               A == HeapFrames(m)
               K == {kernel.frame}
    <3>1. fr[1] = F /\ K = {f} /\ m.bitmap = b \cup F \cup H /\ A = (b \ {f}) \cup H
      BY <1>2, <1>6, <2>3, <2>4 DEF FramesBy
    <3> HIDE DEF fr, A, K, F, b, f
    <3>2. fr[1] \cap (A \cup K) = {} /\ A \cap K = {} /\ m.bitmap = fr[1] \cup A \cup K
      BY <2>3, <2>4, <3>1
    <3>3. Shares({1}, fr, A, K, {}, fr[1] \cup A \cup K)
      BY <3>2, SharesOne
    <3> QED
      BY <1>6, <3>2, <3>3, Zenon DEF FramesShared, fr, A, K
  <2>6. BlocksShared(m, task, kernel, leaked, pipes)
    <3> DEFINE fr == BlocksBy(task)
               K == {kernel.block}
    <3>1. fr[1] = {s.t.block} /\ K = {k.at} /\ Taken(m) = fr[1] \cup {} \cup K
          /\ fr[1] \cap ({} \cup K) = {} /\ {} \cap K = {}
      BY <1>2, <1>6, <2>3, <2>4 DEF BlocksBy
    <3> HIDE DEF fr, K
    <3>3. Shares({1}, fr, {}, K, {}, fr[1] \cup {} \cup K)
      BY <3>1, SharesOne
    <3> QED
      BY <1>2, <1>6, <3>1, <3>3, Zenon DEF BlocksShared, fr, K
  <2>7. \A p \in DOMAIN task : Sound(task[p])
    BY <1>6, <2>3
  <2> QED
    BY <2>5, <2>6, <2>7
<1> QED
  BY <1>7, <1>8 DEF IInv

\* Every step keeps the invariant, and the pages of every process that did not exec.
LEMMA NextStep ==
    ASSUME IInv, [Next]_vars
    PROVE  IInv' /\ \A p \in DOMAIN task \cap DOMAIN task' : KeepsPages(task[p], task'[p])
<1>1. ASSUME NEW pid \in Pids, NEW child \in Pids, Fork(pid, child)
      PROVE  IInv' /\ \A p \in DOMAIN task \cap DOMAIN task' : KeepsPages(task[p], task'[p])
  BY <1>1, ForkStep
<1>2. ASSUME NEW pid \in Pids, NEW n \in Programs, Exec(pid, n)
      PROVE  IInv' /\ \A p \in DOMAIN task \cap DOMAIN task' : KeepsPages(task[p], task'[p])
  BY <1>2, ExecStep
<1>3. ASSUME NEW pid \in Pids, NEW end \in 1 .. 2 * Entries, Brk(pid, end)
      PROVE  IInv' /\ \A p \in DOMAIN task \cap DOMAIN task' : KeepsPages(task[p], task'[p])
  <2>1. CASE Up(end) > task[pid].heap_end
    BY <1>3, <2>1, BrkGrows
  <2>2. CASE ~(Up(end) > task[pid].heap_end)
    BY <1>3, <2>2, BrkShrinks
  <2> QED
    BY <2>1, <2>2
<1>4. ASSUME IInv', \A p \in DOMAIN task \cap DOMAIN task' : task'[p] = task[p]
      PROVE  IInv' /\ \A p \in DOMAIN task \cap DOMAIN task' : KeepsPages(task[p], task'[p])
  BY <1>4 DEF KeepsPages
<1>5. ASSUME NEW pid \in Pids, Exit(pid)
      PROVE  IInv' /\ \A p \in DOMAIN task \cap DOMAIN task' : KeepsPages(task[p], task'[p])
  <2>1. \A p \in DOMAIN task \cap DOMAIN task' : task'[p] = task[p]
    <3>1. CASE task_to_free = 0
      BY <1>5, <3>1 DEF Exit
    <3>2. CASE task_to_free # 0
      <4>1. task' = [p \in DOMAIN task \ {task_to_free} |-> task[p]]
        BY <1>5, <3>2 DEF Exit
      <4> QED
        BY <4>1
    <3> QED
      BY <3>1, <3>2
  <2> QED
    BY <1>4, <1>5, <2>1, ExitStep
<1>6. ASSUME CleanUp
      PROVE  IInv' /\ \A p \in DOMAIN task \cap DOMAIN task' : KeepsPages(task[p], task'[p])
  <2>1. task' = [p \in DOMAIN task \ {task_to_free} |-> task[p]]
    BY <1>6 DEF CleanUp
  <2>2. \A p \in DOMAIN task \cap DOMAIN task' : task'[p] = task[p]
    BY <2>1
  <2> QED
    BY <1>4, <1>6, <2>2, CleanUpStep
<1>7. ASSUME OpenPipe
      PROVE  IInv' /\ \A p \in DOMAIN task \cap DOMAIN task' : KeepsPages(task[p], task'[p])
  <2>1. task' = task
    BY <1>7 DEF OpenPipe
  <2> QED
    BY <1>4, <1>7, <2>1, OpenPipeStep
<1>8. ASSUME NEW at \in pipes, ClosePipe(at)
      PROVE  IInv' /\ \A p \in DOMAIN task \cap DOMAIN task' : KeepsPages(task[p], task'[p])
  <2>1. task' = task
    BY <1>8 DEF ClosePipe
  <2> QED
    BY <1>4, <1>8, <2>1, ClosePipeStep
<1>9. ASSUME NEW size \in Buffers, UseBuffer(size)
      PROVE  IInv' /\ \A p \in DOMAIN task \cap DOMAIN task' : KeepsPages(task[p], task'[p])
  <2>1. task' = task
    BY <1>9 DEF UseBuffer
  <2> QED
    BY <1>4, <1>9, <2>1, UseBufferStep
<1>10. CASE UNCHANGED vars
  BY <1>10, Stutters
<1>11. CASE Next
  BY <1>1, <1>2, <1>3, <1>5, <1>6, <1>7, <1>8, <1>9, <1>11, Zenon DEF Next
<1> QED
  BY <1>10, <1>11

\* What is marked is divided among the processes, the heap, the kernel and what is
\* leaked, and so are the blocks that the heap gave out, after any calls.
THEOREM SpaceIInv == Spec => []IInv
<1>1. IInv /\ [Next]_vars => IInv'
  BY NextStep
<1> QED
  BY <1>1, InitInv, PTL DEF Spec

\* Everything has its type for ever, and the heap is in the frames there are.
THEOREM SpaceTypeOK == Spec => []MemoryTypeOK
<1>1. IInv => MemoryTypeOK
  <2> SUFFICES ASSUME IInv PROVE MemoryTypeOK
    OBVIOUS
  <2>1. m.bitmap \subseteq Frames /\ m.used \in Nat /\ HeapFrames(m) \subseteq Frames
    BY DEF IInv, MemSound, Memories
  <2>2. starved \/ \A pid \in DOMAIN task : task[pid] \in Processes
    BY Zenon DEF IInv, Sound
  <2>3. leaked.frames \subseteq Frames
    BY DEF IInv
  <2> QED
    BY <2>1, <2>2, <2>3 DEF MemoryTypeOK, IInv
<1> QED
  BY <1>1, SpaceIInv, PTL

\* The blocks of the heap cover its frames exactly and two that are free and next
\* to each other are one, after any kmalloc and kfree of the kernel.
THEOREM SpaceHeapTiled == Spec => []HeapTiled
<1>1. IInv => HeapTiled
  BY DEF IInv, MemSound, HeapTiled
<1> QED
  BY <1>1, SpaceIInv, PTL

\* Until it execs, a process keeps the frames of its pages whatever it and others
\* do: no fork, brk, exit or clean-up of anybody takes a page that is in use.
THEOREM SpacePagesKept == Spec => PagesKept
<1>1. IInv /\ [Next]_vars =>
        [\A pid \in DOMAIN task \cap DOMAIN task' :
           ~starved' /\ task'[pid].pd = task[pid].pd =>
             \A v \in Pages :
                /\ task[pid].page[v] # 0
                /\ v >= Entries \/ 2 * (v + 1) <= task[pid].heap_end
                => \/ task'[pid].page[v] = task[pid].page[v]
                   \/ 2 * v >= task'[pid].heap_end /\ v < Entries]_vars
  <2> SUFFICES ASSUME IInv, [Next]_vars, NEW p \in DOMAIN task \cap DOMAIN task',
                      task'[p].pd = task[p].pd, NEW v \in Pages, task[p].page[v] # 0,
                      v >= Entries \/ 2 * (v + 1) <= task[p].heap_end
               PROVE  \/ task'[p].page[v] = task[p].page[v]
                      \/ 2 * v >= task'[p].heap_end /\ v < Entries
    OBVIOUS
  <2>1. KeepsPages(task[p], task'[p])
    BY NextStep
  <2> QED
    BY <2>1, Zenon DEF KeepsPages
<1> QED
  BY <1>1, SpaceIInv, PTL DEF Spec, PagesKept

\* What the processes hold is what FramesBy gives them.
LEMMA HeldIs ==
    HeldFrames = UNION {FramesBy(task)[p] : p \in DOMAIN task}
<1> DEFINE U == UNION {FramesBy(task)[p] : p \in DOMAIN task}
<1>1. ASSUME NEW p \in DOMAIN task PROVE FramesBy(task)[p] = {FrameIn(task[p], x) : x \in Places} \ {0}
  BY FramesOfPlaces DEF FramesBy
<1>2. ASSUME NEW f \in HeldFrames PROVE f \in U
  <2>1. PICK h \in Held : f = FrameIn(task[h[1]], h[2])
    BY <1>2 DEF HeldFrames
  <2>2. h[1] \in DOMAIN task /\ h[2] \in Places /\ f # 0
    BY <2>1 DEF Held
  <2>3. f \in FramesBy(task)[h[1]]
    BY <1>1, <2>1, <2>2
  <2> QED
    BY <2>2, <2>3
<1>3. ASSUME NEW f \in U PROVE f \in HeldFrames
  <2>1. PICK p \in DOMAIN task : f \in FramesBy(task)[p]
    OBVIOUS
  <2>2. PICK x \in Places : f = FrameIn(task[p], x) /\ f # 0
    BY <1>1, <2>1
  <2>3. <<p, x>> \in Held
    BY <2>2 DEF Held
  <2> QED
    BY <2>2, <2>3 DEF HeldFrames
<1> QED
  BY <1>2, <1>3

\* No frame is in two places, whoever they belong to.
LEMMA HeldOnce ==
    ASSUME IInv, ~starved
    PROVE  Cardinality(HeldFrames) = Cardinality(Held)
<1> DEFINE fr == FramesBy(task)
           F == [h \in Held |-> FrameIn(task[h[1]], h[2])]
<1>1. /\ \A p \in DOMAIN task : Distinct(task[p])
      /\ FramesShared(m, task, kernel, leaked) /\ m.bitmap \subseteq Frames
  BY DEF IInv, Sound, MemSound, Memories
<1>2. /\ \A p, q \in DOMAIN task : p # q => fr[p] \cap fr[q] = {}
      /\ m.bitmap = (UNION {fr[p] : p \in DOMAIN task}) \cup HeapFrames(m) \cup {kernel.frame} \cup leaked.frames
  BY <1>1 DEF FramesShared, Shares
<1>3. \A p \in DOMAIN task : fr[p] = {FrameIn(task[p], x) : x \in Places} \ {0}
  BY FramesOfPlaces DEF FramesBy
<1>4. IsFiniteSet(HeldFrames)
  <2> DEFINE U == UNION {fr[p] : p \in DOMAIN task}
             A == HeapFrames(m)
  <2>1. HeldFrames = U /\ m.bitmap = U \cup A \cup {kernel.frame} \cup leaked.frames
    BY <1>2, HeldIs
  <2> HIDE DEF U, A
  <2>2. HeldFrames \subseteq Frames
    BY <1>1, <2>1
  <2> QED
    BY <2>2, FinitelyMany
<1>5. ASSUME NEW h \in Held
      PROVE  /\ h = <<h[1], h[2]>> /\ h[1] \in DOMAIN task /\ h[2] \in Places
             /\ F[h] # 0 /\ F[h] = FrameIn(task[h[1]], h[2])
  BY DEF Held
<1> HIDE DEF fr
<1>6. ASSUME NEW h \in Held, NEW g \in Held, F[h] = F[g] PROVE h = g
  <2> DEFINE p == h[1]
             q == g[1]
             x == h[2]
             y == g[2]
             f == F[h]
  <2>1. /\ p \in DOMAIN task /\ q \in DOMAIN task /\ x \in Places /\ y \in Places
        /\ f # 0 /\ f = FrameIn(task[p], x) /\ f = FrameIn(task[q], y)
        /\ h = <<p, x>> /\ g = <<q, y>>
    BY <1>5, <1>6
  <2> HIDE DEF p, q, x, y, f
  <2>2. f \in fr[p] /\ f \in fr[q]
    BY <1>3, <2>1
  <2>3. p = q
    BY <1>2, <2>1, <2>2
  <2>4. x = y
    BY <1>1, <2>1, <2>3 DEF Distinct
  <2> QED
    BY <2>1, <2>3, <2>4
<1>7. F \in [Held -> HeldFrames] /\ \A f \in HeldFrames : \E h \in Held : F[h] = f
  BY DEF HeldFrames
<1> HIDE DEF F
<1>8. F \in Injection(Held, HeldFrames)
  BY <1>6, <1>7, Fun_IsInj
<1>9. F \in Surjection(Held, HeldFrames)
  BY <1>7, Fun_IsSurj
<1> QED
  BY <1>4, <1>8, <1>9, FS_Injection

\* FramesApart follows from the invariant.
LEMMA FramesAreApart == IInv => FramesApart
<1> SUFFICES ASSUME IInv, ~starved PROVE FramesApart
  BY Zenon DEF FramesApart
<1> DEFINE fr == FramesBy(task)
           A == HeapFrames(m)
           K == {kernel.frame}
           b == m.bitmap
           U == UNION {fr[p] : p \in DOMAIN task}
<1>1. Shares(DOMAIN task, fr, A, K, leaked.frames, b)
  BY DEF IInv, FramesShared
<1>2. /\ \A p \in DOMAIN task : fr[p] \cap (A \cup K \cup leaked.frames) = {}
      /\ A \cap K = {} /\ b = U \cup A \cup K \cup leaked.frames
  BY <1>1 DEF Shares
<1>3. HeldFrames = U
  BY HeldIs
<1>4. U \cap (A \cup K) = {}
  <2> HIDE DEF fr, A, K
  <2>1. ASSUME NEW f \in U PROVE f \notin A \cup K
    BY <1>2
  <2> QED
    BY <2>1
<1>5. Cardinality(HeldFrames) = Cardinality(Held)
  BY HeldOnce
<1>6. m.used = Cardinality(b)
  BY DEF IInv, MemSound
<1> HIDE DEF U, A, b
<1>7. /\ HeldFrames \cap (A \cup {kernel.frame}) = {} /\ kernel.frame \notin A
      /\ HeldFrames \cup A \cup {kernel.frame} \subseteq b
  BY <1>2, <1>3, <1>4
<1> QED
  BY <1>5, <1>6, <1>7, Zenon DEF FramesApart, A, b

\* A frame is one thing of one process, or the heap's, or the kernel's, and is
\* marked; the count of used memory is that of the marks.
THEOREM SpaceFramesApart == Spec => []FramesApart
  BY FramesAreApart, SpaceIInv, PTL

\* OnlyTheseLeak follows from the invariant.
LEMMA OnlyTheseAreLeaked == IInv => OnlyTheseLeak
<1> SUFFICES ASSUME IInv, ~starved PROVE OnlyTheseLeak
  BY Zenon DEF OnlyTheseLeak
<1>1. m.bitmap = HeldFrames \cup HeapFrames(m) \cup {kernel.frame} \cup leaked.frames
  BY HeldIs, Zenon DEF IInv, FramesShared, Shares
<1>2. Taken(m) = (UNION {BlocksBy(task)[p] : p \in DOMAIN task}) \cup pipes \cup {kernel.block} \cup leaked.blocks
  BY Zenon DEF IInv, BlocksShared, Shares
<1>3. UNION {BlocksBy(task)[p] : p \in DOMAIN task} = {task[pid].block : pid \in DOMAIN task}
  <2>1. \A p \in DOMAIN task : BlocksBy(task)[p] = {task[p].block}
    BY DEF BlocksBy
  <2> QED
    BY <2>1
<1>4. {x.at : x \in {c \in ToSet(m.heap) : ~c.is_free}} = Taken(m)
  BY DEF Taken, TakenIn
<1>5. {x.at : x \in {c \in ToSet(m.heap) : ~c.is_free}} =
        {kernel.block} \cup {task[pid].block : pid \in DOMAIN task} \cup pipes \cup leaked.blocks
  <2> DEFINE S == {x.at : x \in {c \in ToSet(m.heap) : ~c.is_free}}
             T == {task[pid].block : pid \in DOMAIN task}
  <2>1. S = T \cup pipes \cup {kernel.block} \cup leaked.blocks
    BY <1>2, <1>3, <1>4, Zenon
  <2> HIDE DEF S, T
  <2>2. S = {kernel.block} \cup T \cup pipes \cup leaked.blocks
    BY <2>1
  <2> QED
    BY <2>2 DEF S, T
<1> QED
  BY <1>1, <1>5, Zenon DEF OnlyTheseLeak

\* Nothing is lost but what the three known leaks lose.
THEOREM SpaceOnlyTheseLeak == Spec => []OnlyTheseLeak
  BY OnlyTheseAreLeaked, SpaceIInv, PTL

=============================================================================
