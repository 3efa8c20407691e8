---------------------------- MODULE SequenceLemmas ----------------------------
(***************************************************************************)
(* Facts on sequences that the proofs of several components need.          *)
(*                                                                         *)
(* Rings: what the buffers of the pipe (src/src/fs/pipe.c) and of the      *)
(* keyboard (src/src/drivers/keyboard/keyboard.c) have in common: an array *)
(* of S elements, filled in a ring by positions that advance modulo S.     *)
(*                                                                         *)
(* Loops: what a loop computes, when the loop is a FoldLeft.  The library  *)
(* defines FoldLeft by a recursive function on sets of indices (Fold       *)
(* writes that out); here it is shown to be the last of a sequence of      *)
(* results, one for each turn, and a fact that each turn keeps to hold of  *)
(* the last.  The turn and the fact are constants of the module, so that   *)
(* each loop gets its own instance; the rings do not use them.             *)
(***************************************************************************)
EXTENDS Integers, Sequences, Folds, WellFoundedInduction, TLAPS

CONSTANTS Body(_, _, _), Kept(_, _, _, _)

\* The position x stands for, where x is less than twice the size.
Turn(x, S) == IF x < S THEN x ELSE x - S

\* The n elements of buf from position r on, oldest first.
Segment(buf, r, n, S) == [i \in 1 .. n |-> buf[(r + i - 1) % S]]

\* The same as a sequence over V.
Lists(s, V, buf, r, n, S) ==
    /\ s \in Seq(V) /\ Len(s) = n
    /\ \A i \in 1 .. n : s[i] = buf[Turn(r + i - 1, S)]

\* From position r it is n to position w.
Apart(r, w, n, S) == n \in 0 .. S - 1 /\ w = Turn(r + n, S) /\ (n = 0 <=> w = r)

\* The buffer new is buf with v at position w.
Stored(new, buf, w, v, S) ==
    \A x \in 0 .. S - 1 : new[x] = IF x = w THEN v ELSE buf[x]

-----------------------------------------------------------------------------
(* Positions.                                                              *)

\* A number below the size is its own remainder.
LEMMA ModSmall ==
    ASSUME NEW S \in Nat \ {0}, NEW x \in 0 .. S - 1
    PROVE  x % S = x
BY SMT

\* One turn of the ring: the remainder takes off one size.
LEMMA ModBig ==
    ASSUME NEW S \in Nat \ {0}, NEW x \in S .. 2 * S - 1
    PROVE  x % S = x - S
BY SMT

\* Less than one turn back: the remainder adds one size.
LEMMA ModBack ==
    ASSUME NEW S \in Nat \ {0}, NEW x \in Int, -S < x, x < 0
    PROVE  x % S = x + S
BY SMT

\* What % does with the sums of two positions that the drivers compute.
LEMMA ModIsTurn ==
    ASSUME NEW S \in Nat \ {0}, NEW x \in 0 .. 2 * S - 1
    PROVE  x % S = Turn(x, S) /\ Turn(x, S) \in 0 .. S - 1
<1>1. CASE x < S
  BY <1>1, ModSmall DEF Turn
<1>2. CASE x >= S
  BY <1>2, ModBig DEF Turn
<1> QED
  BY <1>1, <1>2

\* What it does with their difference, which is how many positions lie between.
LEMMA DistanceIsTurn ==
    ASSUME NEW S \in Nat \ {0}, NEW r \in 0 .. S - 1, NEW w \in 0 .. S - 1,
           NEW n, n = (w - r) % S
    PROVE  Apart(r, w, n, S)
<1>1. CASE w >= r
  <2>1. n = w - r
    BY <1>1, ModSmall
  <2> QED
    BY <1>1, <2>1 DEF Apart, Turn
<1>2. CASE w < r
  <2>1. n = (w - r) + S
    <3>1. w - r \in Int /\ -S < w - r /\ w - r < 0
      BY <1>2
    <3> QED
      BY <3>1, ModBack
  <2> QED
    BY <1>2, <2>1 DEF Apart, Turn
<1> QED
  BY <1>1, <1>2

\* One more at the end, which leaves none where there was room for no more.
LEMMA OneMore ==
    ASSUME NEW S \in Nat \ {0}, NEW r \in 0 .. S - 1, NEW n \in 0 .. S - 1,
           NEW m \in 0 .. S - 1, Turn(r + m, S) = Turn(Turn(r + n, S) + 1, S)
    PROVE  m = IF n < S - 1 THEN n + 1 ELSE 0
<1>1. CASE r + n < S
  BY <1>1 DEF Turn
<1>2. CASE r + n >= S
  BY <1>2 DEF Turn
<1> QED
  BY <1>1, <1>2

\* One fewer at the beginning.
LEMMA OneLess ==
    ASSUME NEW S \in Nat \ {0}, NEW r \in 0 .. S - 1, NEW n \in 1 .. S - 1,
           NEW m \in 0 .. S - 1, Turn(Turn(r + 1, S) + m, S) = Turn(r + n, S)
    PROVE  m = n - 1
<1>1. CASE r + 1 < S
  BY <1>1 DEF Turn
<1>2. CASE r + 1 >= S
  BY <1>2 DEF Turn
<1> QED
  BY <1>1, <1>2

-----------------------------------------------------------------------------
(* The elements between two positions.                                     *)

\* Their sequence, with the remainder worked out.
LEMMA SegmentIsSeq ==
    ASSUME NEW S \in Nat \ {0}, NEW V, NEW buf, \A x \in 0 .. S - 1 : buf[x] \in V,
           NEW r \in 0 .. S - 1, NEW n \in 0 .. S
    PROVE  Lists(Segment(buf, r, n, S), V, buf, r, n, S)
<1>1. ASSUME NEW i \in 1 .. n
      PROVE  /\ (r + i - 1) % S = Turn(r + i - 1, S)
             /\ Turn(r + i - 1, S) \in 0 .. S - 1
  <2>1. r + i - 1 \in 0 .. 2 * S - 1
    OBVIOUS
  <2> QED
    BY <2>1, ModIsTurn
<1>2. n \in Nat
  OBVIOUS
<1>3. \A i \in 1 .. n : Segment(buf, r, n, S)[i] = buf[Turn(r + i - 1, S)]
  BY <1>1 DEF Segment
<1>4. \A i \in 1 .. n : Segment(buf, r, n, S)[i] \in V
  BY <1>1, <1>3
<1>5. Segment(buf, r, n, S) \in [1 .. n -> V]
  BY <1>4 DEF Segment
<1> QED
  BY <1>2, <1>3, <1>5 DEF Lists

\* Two sequences of the same elements are the same sequence.
LEMMA SameElements ==
    ASSUME NEW V, NEW s \in Seq(V), NEW t \in Seq(V), Len(s) = Len(t),
           \A i \in 1 .. Len(s) : s[i] = t[i]
    PROVE  s = t
OBVIOUS

\* Taking the oldest element is Tail.
LEMMA SegmentTail ==
    ASSUME NEW S \in Nat \ {0}, NEW buf, NEW r \in 0 .. S - 1, NEW n \in 1 .. S
    PROVE  /\ Segment(buf, r, n, S) # <<>>
           /\ Head(Segment(buf, r, n, S)) = buf[r]
           /\ Segment(buf, (r + 1) % S, n - 1, S) = Tail(Segment(buf, r, n, S))
<1> DEFINE V == {buf[x] : x \in 0 .. S - 1}
           next == (r + 1) % S
           s == Segment(buf, r, n, S)
           t == Segment(buf, next, n - 1, S)
<1>1. n \in 0 .. S /\ n - 1 \in 0 .. S /\ n \in Nat /\ n > 0
  OBVIOUS
<1>2. next \in 0 .. S - 1 /\ next = Turn(r + 1, S)
  <2>1. r + 1 \in 0 .. 2 * S - 1
    OBVIOUS
  <2> QED
    BY <2>1, ModIsTurn
<1> HIDE DEF next
<1>3. Lists(s, V, buf, r, n, S) /\ Lists(t, V, buf, next, n - 1, S)
  <2>1. \A x \in 0 .. S - 1 : buf[x] \in V
    OBVIOUS
  <2> HIDE DEF V
  <2> QED
    BY <1>1, <1>2, <2>1, SegmentIsSeq
<1> HIDE DEF s, t, V
<1> USE DEF Lists
<1>5. s # <<>>
  BY <1>1, <1>3
<1>6. Head(s) = buf[r]
  <2>1. Turn(r + 1 - 1, S) = r
    BY DEF Turn
  <2>2. 1 \in 1 .. n
    BY <1>1
  <2> QED
    BY <1>3, <1>5, <2>1, <2>2
<1>7. /\ Tail(s) \in Seq(V) /\ Len(Tail(s)) = n - 1
      /\ \A i \in 1 .. n - 1 : Tail(s)[i] = s[i + 1]
  BY <1>3, <1>5
<1>8. ASSUME NEW i \in 1 .. n - 1
      PROVE  t[i] = Tail(s)[i]
  <2>1. i + 1 \in 1 .. n
    BY <1>1
  <2>2. Turn(next + i - 1, S) = Turn(r + (i + 1) - 1, S)
    BY <1>2 DEF Turn
  <2> QED
    BY <1>3, <1>7, <2>1, <2>2, ZenonT(30)
<1>9. t = Tail(s)
  BY <1>3, <1>7, <1>8, SameElements
<1> QED
  BY <1>5, <1>6, <1>9 DEF s, t, next

\* Writing behind the newest element is Append: the position written to is not
\* one of those that are still held.
LEMMA SegmentAppend ==
    ASSUME NEW S \in Nat \ {0}, NEW r \in 0 .. S - 1, NEW n \in 0 .. S - 1,
           NEW m, NEW w, NEW v, NEW buf, NEW new,
           m = n + 1, w = Turn(r + n, S), Stored(new, buf, w, v, S)
    PROVE  Segment(new, r, m, S) = Append(Segment(buf, r, n, S), v)
<1> DEFINE V == {v} \cup {buf[x] : x \in 0 .. S - 1}
           s == Segment(buf, r, n, S)
           t == Segment(new, r, m, S)
<1>1. n \in 0 .. S /\ m \in 0 .. S /\ n \in Nat
  OBVIOUS
<1>2. w \in 0 .. S - 1
  BY DEF Turn
<1>3. new[w] = v /\ \A i \in (0 .. S - 1) \ {w} : new[i] = buf[i]
  BY <1>2 DEF Stored
<1>4. \A x \in 0 .. S - 1 : buf[x] \in V /\ new[x] \in V
  BY DEF Stored
<1> HIDE DEF V
<1>5. Lists(s, V, buf, r, n, S) /\ Lists(t, V, new, r, m, S)
  BY <1>1, <1>4, SegmentIsSeq
<1> HIDE DEF s, t
<1> USE DEF Lists
<1>6. /\ Append(s, v) \in Seq(V) /\ Len(Append(s, v)) = m
      /\ \A i \in 1 .. n : Append(s, v)[i] = s[i]
      /\ Append(s, v)[m] = v
  <2>1. v \in V
    BY DEF V
  <2> QED
    BY <1>5, <2>1
<1>7. ASSUME NEW i \in 1 .. m
      PROVE  t[i] = Append(s, v)[i]
  <2>1. CASE i = m
    <3>1. Turn(r + i - 1, S) = w
      BY <1>1, <2>1
    <3> QED
      BY <1>3, <1>5, <1>6, <2>1, <3>1
  <2>2. CASE i # m
    <3>1. i \in 1 .. n
      BY <1>1, <2>2
    <3>2. Turn(r + i - 1, S) # w /\ Turn(r + i - 1, S) \in 0 .. S - 1
      BY <3>1 DEF Turn
    <3>3. t[i] = buf[Turn(r + i - 1, S)]
      BY <1>3, <1>5, <3>2
    <3> QED
      BY <1>5, <1>6, <3>1, <3>3
  <2> QED
    BY <2>1, <2>2
<1>8. t = Append(s, v)
  BY <1>5, <1>6, <1>7
<1> QED
  BY <1>8 DEF s, t

-----------------------------------------------------------------------------
(* Loops.                                                                  *)

\* FoldLeft of the library, written out: an instance of this module brings no
\* more than it needs.
Largest(s) == CHOOSE x \in s : \A y \in s : x >= y
Fold(c, base, seq) ==
    MapThenFoldSet(LAMBDA a, b : Body(c, b, a), base, LAMBDA i : seq[i], LAMBDA s : Largest(s), DOMAIN seq)

\* Induction on the numbers, over a set: no operator is a parameter here.
LEMMA SetInduction ==
    ASSUME NEW S, 0 \in S, \A n \in Nat : n \in S => n + 1 \in S
    PROVE  Nat \subseteq S
<1> DEFINE T == Nat \ S
           R == OpToRel(<, Nat)
<1>1. ASSUME T # {} PROVE FALSE
  <2>1. IsWellFoundedOn(R, Nat)
    BY NatLessThanWellFounded
  <2>2. T \subseteq Nat
    OBVIOUS
  <2> HIDE DEF R, T
  <2>3. \E x \in T : \A y \in T : ~(<<y, x>> \in R)
    BY <1>1, <2>1, <2>2, WFMin
  <2>4. PICK x \in T : \A y \in T : ~(<<y, x>> \in R)
    BY <2>3
  <2>5. \A y \in Nat : y < x => <<y, x>> \in R
    BY <2>2 DEF R, OpToRel
  <2>6. \A y \in T : ~(y < x)
    BY <2>2, <2>4, <2>5
  <2>7. x # 0
    BY DEF T
  <2>8. x - 1 \in Nat /\ x - 1 \notin T
    BY <2>2, <2>6, <2>7
  <2> QED
    BY <2>8, <2>2 DEF T
<1> QED
  BY <1>1

\* The function on the sets of positions behind a fold.
Iter(c, base, seq, n, g) ==
    g = [s \in SUBSET (1 .. n) |->
            IF s = {} THEN base ELSE Body(c, g[s \ {Largest(s)}], seq[Largest(s)])]

\* The largest of the numbers that are left is the one a fold takes.
LEMMA MaxOf ==
    ASSUME NEW n \in Nat, NEW s \in SUBSET (1 .. n + 1), n + 1 \in s
    PROVE  Largest(s) = n + 1
<1>1. \A y \in s : y \in Int /\ y <= n + 1
  OBVIOUS
<1>2. \A x \in s : (\A y \in s : x >= y) => x = n + 1
  BY <1>1
<1>3. n + 1 \in s /\ \A y \in s : n + 1 >= y
  BY <1>1
<1>4. \E x \in s : \A y \in s : x >= y
  BY <1>3
<1>5. Largest(s) \in s /\ \A y \in s : Largest(s) >= y
  BY <1>4 DEF Largest
<1> QED
  BY <1>2, <1>5

\* The functions from sets that a fold is defined by exist for every length.
LEMMA IterExists ==
    ASSUME NEW c, NEW base, NEW seq
    PROVE  \A n \in Nat : \E g : Iter(c, base, seq, n, g)
<1> DEFINE S == {n \in Nat : \E g : Iter(c, base, seq, n, g)}
<1>1. 0 \in S
  <2> DEFINE g == [s \in {{}} |-> base]
  <2>1. SUBSET (1 .. 0) = {{}}
    OBVIOUS
  <2>2. g = [s \in SUBSET (1 .. 0) |->
            IF s = {} THEN base ELSE Body(c, g[s \ {Largest(s)}], seq[Largest(s)])]
    BY <2>1
  <2>3. Iter(c, base, seq, 0, g)
    BY <2>2 DEF Iter
  <2> QED
    BY <2>3
<1>2. ASSUME NEW n \in Nat, n \in S PROVE n + 1 \in S
  <2>1. PICK g : Iter(c, base, seq, n, g)
    BY <1>2
  <2> DEFINE h == [s \in SUBSET (1 .. n + 1) |->
                      IF n + 1 \in s THEN Body(c, g[s \ {n + 1}], seq[n + 1]) ELSE g[s]]
  <2>2. ASSUME NEW s \in SUBSET (1 .. n + 1)
        PROVE  h[s] = IF s = {} THEN base ELSE Body(c, h[s \ {Largest(s)}], seq[Largest(s)])
    <3>1. CASE n + 1 \in s
      <4>1. Largest(s) = n + 1 /\ s # {}
        BY <3>1, MaxOf
      <4>2. s \ {n + 1} \in SUBSET (1 .. n + 1) /\ n + 1 \notin s \ {n + 1}
        OBVIOUS
      <4>3. h[s \ {n + 1}] = g[s \ {n + 1}]
        BY <4>2
      <4> QED
        BY <3>1, <4>1, <4>3
    <3>2. CASE n + 1 \notin s
      <4>1. s \in SUBSET (1 .. n)
        BY <3>2
      <4>2. h[s] = g[s]
        BY <3>2
      <4>3. s \ {Largest(s)} \in SUBSET (1 .. n) /\ n + 1 \notin s \ {Largest(s)}
        BY <4>1, <3>2
      <4>4. h[s \ {Largest(s)}] = g[s \ {Largest(s)}]
        BY <4>3
      <4>5. g[s] = IF s = {} THEN base ELSE Body(c, g[s \ {Largest(s)}], seq[Largest(s)])
        BY <2>1, <4>1 DEF Iter
      <4> QED
        BY <4>2, <4>4, <4>5
    <3> QED
      BY <3>1, <3>2
  <2>3. h = [s \in SUBSET (1 .. n + 1) |->
            IF s = {} THEN base ELSE Body(c, h[s \ {Largest(s)}], seq[Largest(s)])]
    BY <2>2
  <2> HIDE DEF h
  <2>4. Iter(c, base, seq, n + 1, h)
    BY <2>3 DEF Iter
  <2> QED
    BY <2>4
<1> QED
  BY <1>1, <1>2, SetInduction

\* FoldLeft over the sequence is the last of these functions.
LEMMA FoldIsIter ==
    ASSUME NEW c, NEW base, NEW seq, NEW n \in Nat, DOMAIN seq = 1 .. n
    PROVE  \E g : Iter(c, base, seq, n, g) /\ Fold(c, base, seq) = g[1 .. n]
<1> DEFINE g == CHOOSE g : g = [s \in SUBSET (1 .. n) |->
            IF s = {} THEN base ELSE Body(c, g[s \ {Largest(s)}], seq[Largest(s)])]
<1>1. \E f : f = [s \in SUBSET (1 .. n) |->
            IF s = {} THEN base ELSE Body(c, f[s \ {Largest(s)}], seq[Largest(s)])]
  <2>1. PICK f : Iter(c, base, seq, n, f)
    BY IterExists
  <2> QED
    BY <2>1, Zenon DEF Iter
<1>3. g = [s \in SUBSET (1 .. n) |->
            IF s = {} THEN base ELSE Body(c, g[s \ {Largest(s)}], seq[Largest(s)])]
  BY <1>1, Zenon
<1>4. Iter(c, base, seq, n, g)
  BY <1>3 DEF Iter
<1>2. Fold(c, base, seq) = g[1 .. n]
  BY DEF Fold, MapThenFoldSet
<1> QED
  BY <1>2, <1>4

\* The values a loop over seq goes through, the first to the last.
Run(c, base, seq, n, h) ==
    /\ h[0] = base
    /\ \A i \in 0 .. n - 1 : h[i + 1] = Body(c, h[i], seq[i + 1])

\* A fold is the last of the values that its loop goes through.
THEOREM FoldRun ==
    ASSUME NEW c, NEW base, NEW seq, NEW n \in Nat, DOMAIN seq = 1 .. n
    PROVE  \E h : Run(c, base, seq, n, h) /\ Fold(c, base, seq) = h[n]
<1>1. PICK g : Iter(c, base, seq, n, g) /\ Fold(c, base, seq) = g[1 .. n]
  BY FoldIsIter
<1> DEFINE h == [i \in 0 .. n |-> g[1 .. i]]
<1>2. h[0] = base
  <2>1. 1 .. 0 = {} /\ {} \in SUBSET (1 .. n)
    OBVIOUS
  <2>2. g[{}] = base
    BY <1>1, <2>1 DEF Iter
  <2> QED
    BY <2>1, <2>2
<1>3. ASSUME NEW i \in 0 .. n - 1 PROVE h[i + 1] = Body(c, h[i], seq[i + 1])
  <2> DEFINE s == 1 .. i + 1
  <2>1. s \in SUBSET (1 .. n) /\ s \in SUBSET (1 .. i + 1) /\ i \in Nat
    OBVIOUS
  <2>6. i + 1 \in s
    OBVIOUS
  <2>2. Largest(s) = i + 1
    BY <2>1, <2>6, MaxOf
  <2>3. s \ {i + 1} = 1 .. i
    OBVIOUS
  <2>7. s # {}
    BY <2>6
  <2>4. g[s] = Body(c, g[s \ {Largest(s)}], seq[Largest(s)])
    BY <1>1, <2>1, <2>7 DEF Iter
  <2>5. h[i + 1] = g[s] /\ h[i] = g[1 .. i]
    OBVIOUS
  <2> QED
    BY <2>2, <2>3, <2>4, <2>5
<1>4. Fold(c, base, seq) = h[n]
  BY <1>1
<1> HIDE DEF h
<1>5. Run(c, base, seq, n, h)
  BY <1>2, <1>3 DEF Run
<1> QED
  BY <1>4, <1>5

\* What holds of the first value and is kept by every turn holds of the fold.
THEOREM LoopRule ==
    ASSUME NEW c, NEW base, NEW seq, NEW n \in Nat, DOMAIN seq = 1 .. n,
           Kept(c, seq, 0, base),
           \A i \in 0 .. n - 1 : \A b : Kept(c, seq, i, b) => Kept(c, seq, i + 1, Body(c, b, seq[i + 1]))
    PROVE  Kept(c, seq, n, Fold(c, base, seq))
<1>1. PICK h : Run(c, base, seq, n, h) /\ Fold(c, base, seq) = h[n]
  BY FoldRun
<1> DEFINE S == {i \in Nat : i <= n => Kept(c, seq, i, h[i])}
<1>2. 0 \in S
  BY <1>1 DEF Run
<1>3. ASSUME NEW i \in Nat, i \in S PROVE i + 1 \in S
  <2>1. CASE i + 1 <= n
    <3>1. i \in 0 .. n - 1 /\ Kept(c, seq, i, h[i])
      BY <1>3, <2>1
    <3>2. Kept(c, seq, i + 1, Body(c, h[i], seq[i + 1]))
      BY <3>1
    <3> QED
      BY <1>1, <3>1, <3>2 DEF Run
  <2>2. CASE ~(i + 1 <= n)
    BY <2>2
  <2> QED
    BY <2>1, <2>2
<1>4. Nat \subseteq S
  <2> HIDE DEF S
  <2> QED
    BY <1>2, <1>3, SetInduction
<1> QED
  BY <1>1, <1>4

\* Two functions, or sequences, have the same values from k to n.
Alike(k, n, g, h) == \A i \in k .. n : g[i] = h[i]

\* Two runs over sequences that begin alike begin alike.
LEMMA RunsAgree ==
    ASSUME NEW c, NEW base, NEW n \in Nat, NEW s, NEW t, Alike(1, n, s, t),
           NEW m \in Nat, n <= m, NEW g, NEW h, Run(c, base, s, n, g), Run(c, base, t, m, h)
    PROVE  Alike(0, n, g, h)
<1> DEFINE S == {i \in Nat : i <= n => g[i] = h[i]}
<1>1. 0 \in S
  BY DEF Run
<1>2. ASSUME NEW i \in Nat, i \in S PROVE i + 1 \in S
  <2>1. CASE i + 1 <= n
    <3>1. i \in 0 .. n - 1 /\ i \in 0 .. m - 1 /\ i + 1 \in 1 .. n /\ g[i] = h[i]
      BY <1>2, <2>1
    <3>2. g[i + 1] = Body(c, g[i], s[i + 1]) /\ h[i + 1] = Body(c, h[i], t[i + 1])
      BY <3>1 DEF Run
    <3> QED
      BY <3>1, <3>2 DEF Alike
  <2>2. CASE ~(i + 1 <= n)
    BY <2>2
  <2> QED
    BY <2>1, <2>2
<1>3. Nat \subseteq S
  <2> HIDE DEF S
  <2> QED
    BY <1>1, <1>2, SetInduction
<1> QED
  BY <1>3 DEF Alike

\* A fold over nothing is where it begins.
THEOREM FoldEmpty == ASSUME NEW c, NEW base PROVE Fold(c, base, <<>>) = base
<1>1. DOMAIN <<>> = 1 .. 0
  OBVIOUS
<1>2. PICK h : Run(c, base, <<>>, 0, h) /\ Fold(c, base, <<>>) = h[0]
  BY <1>1, FoldRun
<1> QED
  BY <1>2 DEF Run

\* A fold over a sequence with one more element takes one more turn.
THEOREM FoldStep ==
    ASSUME NEW c, NEW base, NEW V, NEW s \in Seq(V), NEW x \in V
    PROVE  Fold(c, base, Append(s, x)) = Body(c, Fold(c, base, s), x)
<1> DEFINE t == Append(s, x)
           n == Len(s)
<1>1. n \in Nat /\ DOMAIN s = 1 .. n /\ DOMAIN t = 1 .. n + 1
  OBVIOUS
<1>2. t[n + 1] = x /\ \A i \in 1 .. n : s[i] = t[i]
  OBVIOUS
<1> HIDE DEF t, n
<1>3. PICK g : Run(c, base, s, n, g) /\ Fold(c, base, s) = g[n]
  BY <1>1, FoldRun, ZenonT(30)
<1>4. PICK h : Run(c, base, t, n + 1, h) /\ Fold(c, base, t) = h[n + 1]
  <2>1. n + 1 \in Nat
    BY <1>1
  <2> QED
    BY <1>1, <2>1, FoldRun
<1>5. n + 1 \in Nat /\ n <= n + 1 /\ n \in 0 .. n /\ n \in 0 .. (n + 1) - 1
  BY <1>1
<1>6. Alike(0, n, g, h)
  <2>1. Alike(1, n, s, t)
    BY <1>2 DEF Alike
  <2> DEFINE m == n + 1
  <2>2. m \in Nat /\ n <= m /\ Run(c, base, t, m, h)
    BY <1>4, <1>5
  <2> HIDE DEF m
  <2> QED
    BY <1>1, <1>3, <2>1, <2>2, RunsAgree
<1>7. g[n] = h[n]
  BY <1>5, <1>6 DEF Alike
<1>8. h[n + 1] = Body(c, h[n], t[n + 1])
  BY <1>4, <1>5 DEF Run
<1>9. Fold(c, base, t) = Body(c, Fold(c, base, s), x)
  BY <1>2, <1>3, <1>4, <1>7, <1>8
<1> QED
  BY <1>9 DEF t

\* Induction on sequences, over a set.
THEOREM SeqInduction ==
    ASSUME NEW V, NEW S, <<>> \in S, \A s \in Seq(V) : \A x \in V : s \in S => Append(s, x) \in S
    PROVE  Seq(V) \subseteq S
<1> DEFINE T == {n \in Nat : \A s \in Seq(V) : Len(s) = n => s \in S}
<1>1. 0 \in T
  OBVIOUS
<1>2. ASSUME NEW n \in Nat, n \in T PROVE n + 1 \in T
  <2> SUFFICES ASSUME NEW s \in Seq(V), Len(s) = n + 1 PROVE s \in S
    OBVIOUS
  <2> DEFINE t == SubSeq(s, 1, n)
  <2>1. t \in Seq(V) /\ Len(t) = n /\ s[n + 1] \in V
    OBVIOUS
  <2>2. \A i \in 1 .. n : t[i] = s[i]
    OBVIOUS
  <2> HIDE DEF t
  <2>3. Append(t, s[n + 1]) \in S
    BY <1>2, <2>1
  <2>4. Append(t, s[n + 1]) \in Seq(V) /\ Len(Append(t, s[n + 1])) = n + 1
    BY <2>1
  <2>5. ASSUME NEW i \in 1 .. n + 1 PROVE Append(t, s[n + 1])[i] = s[i]
    <3>1. CASE i = n + 1
      BY <2>1, <3>1
    <3>2. CASE i # n + 1
      <4>1. i \in 1 .. n
        BY <3>2
      <4> QED
        BY <2>1, <2>2, <4>1
    <3> QED
      BY <3>1, <3>2
  <2>6. Append(t, s[n + 1]) = s
    BY <2>4, <2>5, SameElements
  <2> QED
    BY <2>3, <2>6
<1>3. Nat \subseteq T
  <2> HIDE DEF T
  <2> QED
    BY <1>1, <1>2, SetInduction
<1>4. \A s \in Seq(V) : Len(s) \in Nat
  OBVIOUS
<1> QED
  BY <1>3, <1>4

\* A fold over two sequences in a row goes on where the first one ends.
THEOREM FoldConcat ==
    ASSUME NEW c, NEW base, NEW V, NEW s \in Seq(V), NEW t \in Seq(V)
    PROVE  Fold(c, base, s \o t) = Fold(c, Fold(c, base, s), t)
<1> DEFINE S == {u \in Seq(V) : Fold(c, base, s \o u) = Fold(c, Fold(c, base, s), u)}
<1>1. <<>> \in S
  <2>1. s \o <<>> = s /\ <<>> \in Seq(V)
    OBVIOUS
  <2> QED
    BY <2>1, FoldEmpty
<1>2. ASSUME NEW u \in Seq(V), NEW x \in V, u \in S PROVE Append(u, x) \in S
  <2>1. s \o u \in Seq(V) /\ Append(u, x) \in Seq(V)
    OBVIOUS
  <2>2. s \o Append(u, x) = Append(s \o u, x)
    OBVIOUS
  <2>3. Fold(c, base, Append(s \o u, x)) = Body(c, Fold(c, base, s \o u), x)
    <3> DEFINE su == s \o u
    <3>1. su \in Seq(V)
      BY <2>1
    <3> HIDE DEF su
    <3>2. Fold(c, base, Append(su, x)) = Body(c, Fold(c, base, su), x)
      BY <3>1, FoldStep
    <3> QED
      BY <3>2 DEF su
  <2>4. Fold(c, Fold(c, base, s), Append(u, x)) = Body(c, Fold(c, Fold(c, base, s), u), x)
    BY FoldStep
  <2> QED
    BY <1>2, <2>1, <2>2, <2>3, <2>4
<1>3. Seq(V) \subseteq S
  <2> HIDE DEF S
  <2> QED
    BY <1>1, <1>2, SeqInduction
<1> QED
  BY <1>3

\* The function that a recursive definition over 0 .. n chooses.
Recursive(c, base, n) == CHOOSE f : f = [k \in 0 .. n |-> IF k = 0 THEN base ELSE Body(c, f[k - 1], k)]

\* It goes through the values of a loop over the numbers.
THEOREM RecursionRun ==
    ASSUME NEW c, NEW base, NEW n \in Nat, NEW seq, seq = [k \in 1 .. n |-> k]
    PROVE  Run(c, base, seq, n, Recursive(c, base, n))
<1> DEFINE f == Recursive(c, base, n)
<1>1. PICK h : Run(c, base, seq, n, h)
  BY FoldRun
<1>2. \E g : g = [k \in 0 .. n |-> IF k = 0 THEN base ELSE Body(c, g[k - 1], k)]
  <2> DEFINE g == [k \in 0 .. n |-> h[k]]
  <2>1. ASSUME NEW k \in 0 .. n PROVE g[k] = IF k = 0 THEN base ELSE Body(c, g[k - 1], k)
    <3>1. CASE k = 0
      BY <1>1, <3>1 DEF Run
    <3>2. CASE k # 0
      <4>1. k - 1 \in 0 .. n - 1 /\ k - 1 \in 0 .. n /\ (k - 1) + 1 = k /\ k \in 1 .. n
        BY <3>2
      <4>2. h[(k - 1) + 1] = Body(c, h[k - 1], seq[(k - 1) + 1])
        BY <1>1, <4>1 DEF Run
      <4> QED
        BY <3>2, <4>1, <4>2
    <3> QED
      BY <3>1, <3>2
  <2>2. g = [k \in 0 .. n |-> IF k = 0 THEN base ELSE Body(c, g[k - 1], k)]
    BY <2>1
  <2> HIDE DEF g
  <2> QED
    BY <2>2
<1>3. f = [k \in 0 .. n |-> IF k = 0 THEN base ELSE Body(c, f[k - 1], k)]
  BY <1>2, Zenon DEF Recursive
<1> HIDE DEF f
<1>4. f[0] = base
  BY <1>3
<1>5. ASSUME NEW i \in 0 .. n - 1 PROVE f[i + 1] = Body(c, f[i], seq[i + 1])
  <2>1. i + 1 \in 0 .. n /\ i + 1 # 0 /\ (i + 1) - 1 = i /\ seq[i + 1] = i + 1
    OBVIOUS
  <2> QED
    BY <1>3, <2>1
<1> QED
  BY <1>4, <1>5 DEF f, Run

\* What holds of the first value and is kept by every step holds of each value.
THEOREM RecursionRule ==
    ASSUME NEW c, NEW base, NEW n \in Nat, NEW seq, seq = [k \in 1 .. n |-> k],
           Kept(c, seq, 0, base),
           \A i \in 0 .. n - 1 : \A b : Kept(c, seq, i, b) => Kept(c, seq, i + 1, Body(c, b, i + 1))
    PROVE  \A i \in 0 .. n : Kept(c, seq, i, Recursive(c, base, n)[i])
<1> DEFINE f == Recursive(c, base, n)
<1>1. Run(c, base, seq, n, f)
  BY RecursionRun
<1> HIDE DEF f
<1> DEFINE S == {i \in Nat : i <= n => Kept(c, seq, i, f[i])}
<1>4. 0 \in S
  BY <1>1 DEF Run
<1>5. ASSUME NEW i \in Nat, i \in S PROVE i + 1 \in S
  <2>1. CASE i + 1 <= n
    <3>1. i \in 0 .. n - 1 /\ Kept(c, seq, i, f[i]) /\ seq[i + 1] = i + 1
      BY <1>5, <2>1
    <3>2. Kept(c, seq, i + 1, Body(c, f[i], i + 1))
      BY <3>1
    <3>3. f[i + 1] = Body(c, f[i], i + 1)
      BY <1>1, <3>1 DEF Run
    <3> QED
      BY <3>2, <3>3
  <2>2. CASE ~(i + 1 <= n)
    BY <2>2
  <2> QED
    BY <2>1, <2>2
<1>6. Nat \subseteq S
  <2> HIDE DEF S
  <2> QED
    BY <1>4, <1>5, SetInduction
<1> QED
  BY <1>6 DEF f

=============================================================================
