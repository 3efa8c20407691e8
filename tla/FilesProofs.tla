------------------------------ MODULE FilesProofs ------------------------------
(***************************************************************************)
(* Proofs about Files, and so about Ext2 and Accounts.                     *)
(*                                                                         *)
(* A disk is Sound for a set S of inodes, with the ancestors A[n] of each  *)
(* n, if S has the root and all that the directories of S lead to, its     *)
(* inodes and their blocks are marked, no block has two pointers in S and  *)
(* no inode two entries.  S may have more than what the root leads to.     *)
(* The ancestors say what a delete takes out of S: the inode and all below *)
(* it, if it is a directory that has entries.                              *)
(*                                                                         *)
(* In the middle of a call a volume is Ready: its disk is sound, its       *)
(* counts are right, and each disk on the way is one in which the machine  *)
(* may stop.  A delete alone passes disks that are not sound; those are    *)
(* Dangling, for the entry that is to go still leads to what is free       *)
(* already (Standing).                                                     *)
(***************************************************************************)
EXTENDS Files, FiniteSetTheorems, FunctionTheorems, SequenceTheorems, WellFoundedInduction, TLAPS

\* What is in an inode, in a block and on a disk.
Rights == {"u", "g", "o"} \X {"r", "w", "x"}
Nodes == [kind : {"none", "file", "dir"}, uid : Users, gid : Users, size : 0 .. Direct + 1,
          mode : SUBSET Rights, i_block : [0 .. Direct - 1 -> Blocks \cup {0}],
          indirect : Blocks \cup {0}]
DirEntries == [inode : Inodes \cup {0}, name : Names \cup {NoName, ".", ".."}]
Counts == [Kinds -> Nat]
Bitmaps == {used \in [Kinds -> SUBSET (Blocks \cup Inodes)] : \A k \in Kinds : used[k] \subseteq Units(k)}
Disks == [used : Bitmaps, sb : Counts, bgd : Counts,
          node : [Inodes -> Nodes], data : [Blocks -> Contents]]
Volumes == [d : Disks, sb : Counts, bgd : Counts, via : SUBSET Disks]

\* Entry j of what the direct pointer i of an inode leads to, whatever its size.
Place(d, n, i, j) == EntryIn(d, d.node[n].i_block[i], j)
DirsIn(d, S) == {n \in S : d.node[n].kind = "dir"}

\* The inodes of S are marked, and so are the blocks they point to.
MarkedIn(d, S) ==
    /\ S \subseteq d.used["inode"]
    /\ \A n \in S : \A i \in 0 .. Direct + 1 : Pointer(d, n, i) \in d.used["block"] \cup {0}

\* No block has two pointers in S.
ApartIn(d, S) ==
    \A n, m \in S : \A i, j \in 0 .. Direct + 1 :
        Pointer(d, n, i) # 0 /\ Pointer(d, n, i) = Pointer(d, m, j) => n = m /\ i = j

\* An indirect block names a block.
IndirectIn(d, S) ==
    \A n \in S : d.node[n].indirect # 0 => d.data[d.node[n].indirect] \in [kind : {"indirect"}, to : Blocks]

\* An entry of directory n leads to a member of S: to one that has n and the
\* ancestors of n for its ancestors, to n, or to the parent of n.
Leads(e, n, S, A) ==
    /\ e.inode \in S
    /\ \/ e.name \in Names /\ e.inode \notin A[n] /\ A[e.inode] = A[n] \cup {e.inode}
       \/ e.name = "." /\ e.inode = n
       \/ e.name = ".." /\ A[n] = A[e.inode] \cup {n}
EntriesIn(d, S, A) ==
    \A n \in DirsIn(d, S) : \A i \in 0 .. Direct - 1 : \A j \in 0 .. Slots - 1 :
        Place(d, n, i, j).inode # 0 => Leads(Place(d, n, i, j), n, S, A)

\* No inode has two entries that name it.
Links2(d, n, i, j, m, k, l) ==
    /\ Place(d, n, i, j).inode # 0 /\ Place(d, n, i, j).inode = Place(d, m, k, l).inode
    /\ Place(d, n, i, j).name \in Names /\ Place(d, m, k, l).name \in Names
OneLink(d, S) ==
    \A n, m \in DirsIn(d, S) : \A i, k \in 0 .. Direct - 1 : \A j, l \in 0 .. Slots - 1 :
        Links2(d, n, i, j, m, k, l) => n = m /\ i = k /\ j = l

\* Ancestors of the inodes of a tree.
Ancestors(S, A) ==
    /\ ROOT \in S /\ S \subseteq Inodes /\ A[ROOT] = {ROOT}
    /\ \A x \in S : x \in A[x] /\ A[x] \subseteq S
    /\ \A x \in S : \A y \in A[x] : A[y] \subseteq A[x]

\* S has the root, what the root leads to, and perhaps what is lost.
Sound(d, S, A) ==
    /\ Ancestors(S, A) /\ MarkedIn(d, S) /\ ApartIn(d, S) /\ IndirectIn(d, S)
    /\ EntriesIn(d, S, A) /\ OneLink(d, S)
Held(d) == \E S, A : Sound(d, S, A)

\* The two counts of a disk are off by n at most.
Off(d, k) == Cardinality(Units(k) \ d.used[k])
Near(d, n) == \A k \in Kinds : d.sb[k] - Off(d, k) \in -n .. n /\ d.bgd[k] - Off(d, k) \in -n .. n

\* A volume between two operations of the driver, what stops may leave in V.
Steady(s, n, V) ==
    s \in Volumes /\ s.sb = s.d.sb /\ s.bgd = s.d.bgd /\ Near(s.d, n) /\ s.via \subseteq V

\* Where a call other than a delete may be stopped, and where a delete may.
Halts(n) == {x \in Disks : Near(x, n + 1) /\ Held(x)}
DeleteHalts(n) == {x \in Disks : Near(x, n + 1) /\ (Held(x) \/ Dangling(x))}

\* What is inductive, of the disk and of the update.
DiskInv ==
    /\ disk \in Disks /\ disk.sb = sb /\ disk.bgd = bgd
    /\ euid \in Users /\ stops \in 0 .. MaxStops /\ damage \subseteq {"stop", "lost", "dangling"}
    /\ Followed => Held(disk) /\ Near(disk, stops)
UpdateInv ==
    /\ update \in [at : {"no", "read", "unlinked", "created", "done"}, path : AllPaths]
    /\ update.at \in {"read", "unlinked", "created"} => update.path \in Paths
IInv == DiskInv /\ UpdateInv
-----------------------------------------------------------------------------
(* Disks *)

\* What is on a disk.
LEMMA DiskIs ==
    ASSUME NEW d \in Disks
    PROVE  /\ \A n \in Inodes : /\ d.node[n] \in Nodes
                                /\ d.node[n].i_block \in [0 .. Direct - 1 -> Blocks \cup {0}]
                                /\ d.node[n].indirect \in Blocks \cup {0}
           /\ \A b \in Blocks : d.data[b] \in Contents
  BY DEF Disks, Nodes

\* The pointers of an inode.
LEMMA PointerIs ==
    ASSUME NEW d \in Disks, NEW n \in Inodes
    PROVE  /\ \A i \in 0 .. Direct - 1 : Pointer(d, n, i) = d.node[n].i_block[i]
           /\ Pointer(d, n, Direct) = d.node[n].indirect
           /\ d.node[n].indirect = 0 => Pointer(d, n, Direct + 1) = 0
           /\ d.node[n].indirect # 0 => Pointer(d, n, Direct + 1) = d.data[d.node[n].indirect].to
<1>1. Direct \in Nat
  BY SizesAssumption DEF SizesAssumption
<1>2. \A i \in 0 .. Direct - 1 : Pointer(d, n, i) = d.node[n].i_block[i]
  BY <1>1 DEF Pointer
<1>3. Pointer(d, n, Direct) = d.node[n].indirect
  BY <1>1 DEF Pointer
<1> DEFINE node == [d.node[n] EXCEPT !.i_block = NoBlocks]
<1>4. node.indirect = d.node[n].indirect
  BY DEF Disks, Nodes
<1>5. ~(Direct + 1 < Direct) /\ Direct + 1 # Direct
  BY <1>1
<1>6. Pointer(d, n, Direct + 1) = ext2_get_file_block(d, node, Direct)
  BY <1>5 DEF Pointer
<1> HIDE DEF node
<1>7. ~(Direct < Direct)
  BY <1>1
<1>8. d.node[n].indirect # 0 => ext2_get_file_block(d, node, Direct) = d.data[d.node[n].indirect].to
  BY <1>4, <1>7 DEF ext2_get_file_block
<1>9. d.node[n].indirect = 0 => ext2_get_file_block(d, node, Direct) = 0
  BY <1>4, <1>7 DEF ext2_get_file_block
<1> QED
  BY <1>2, <1>3, <1>6, <1>8, <1>9

\* The numbers of the pointers.
LEMMA IndexIs ==
    /\ Direct \in Nat \ {0} /\ Slots \in Nat \ {0} /\ Direct \in 0 .. Direct + 1 /\ Direct + 1 \in 0 .. Direct + 1
    /\ 0 .. Direct - 1 \subseteq 0 .. Direct + 1 /\ Direct \notin 0 .. Direct - 1 /\ Direct + 1 \notin 0 .. Direct - 1
    /\ 0 \in 0 .. Direct - 1 /\ 0 \in 0 .. Slots - 1 /\ Direct # Direct + 1
    /\ \A i \in 0 .. Direct + 1 : i \in 0 .. Direct - 1 \/ i = Direct \/ i = Direct + 1
  BY SizesAssumption DEF SizesAssumption

\* A number of an inode or of a block is not 0.
LEMMA UnitIs == 0 \notin Inodes /\ 0 \notin Blocks /\ ROOT \in Inodes /\ Inodes \subseteq Nat /\ Blocks \subseteq Nat
  BY UnitsAssumption DEF UnitsAssumption

\* What an entry holds.
LEMMA PlaceIs ==
    ASSUME NEW d \in Disks, NEW n \in Inodes, NEW i \in 0 .. Direct - 1, NEW j \in 0 .. Slots - 1,
           Place(d, n, i, j).inode # 0
    PROVE  /\ Place(d, n, i, j) \in DirEntries /\ d.node[n].i_block[i] \in Blocks
           /\ d.data[d.node[n].i_block[i]].kind = "dir"
           /\ Place(d, n, i, j) = d.data[d.node[n].i_block[i]].entry[j]
<1> DEFINE b == d.node[n].i_block[i]
<1>1. b \in Blocks \cup {0}
  BY DiskIs
<1>2. Place(d, n, i, j) = IF b # 0 /\ d.data[b].kind = "dir" THEN d.data[b].entry[j] ELSE NoEntry
  BY DEF Place, EntryIn, Formatted
<1> HIDE DEF b
<1>3. NoEntry.inode = 0
  BY DEF NoEntry
<1>4. b # 0 /\ d.data[b].kind = "dir" /\ Place(d, n, i, j) = d.data[b].entry[j]
  BY <1>2, <1>3
<1>5. b \in Blocks /\ d.data[b] \in Contents
  BY <1>1, <1>4, DiskIs
<1>6. d.data[b] \in [kind : {"dir"}, entry : [0 .. Slots - 1 -> DirEntries]]
  BY <1>4, <1>5 DEF Contents, Zeroed, DataBlock, DirEntries
<1>7. d.data[b].entry[j] \in DirEntries
  BY <1>6
<1> QED
  BY <1>4, <1>5, <1>7 DEF b

\* On disk e the inodes T have no pointer and no entry they had not on d.
Fewer(d, e, T) ==
    /\ \A n \in T : \A i \in 0 .. Direct + 1 :
          Pointer(e, n, i) # 0 => Pointer(e, n, i) = Pointer(d, n, i) /\ Pointer(e, n, i) \in e.used["block"]
    /\ \A n \in DirsIn(e, T) : n \in DirsIn(d, T) /\
          \A i \in 0 .. Direct - 1 : \A j \in 0 .. Slots - 1 :
              Place(e, n, i, j).inode # 0 => Place(e, n, i, j) = Place(d, n, i, j)

\* A part of a sound set stays sound when nothing leads out of it.
LEMMA SoundLess ==
    ASSUME NEW d, NEW e, NEW S, NEW T, NEW A, Sound(d, S, A), T \subseteq S,
           Ancestors(T, A), T \subseteq e.used["inode"], IndirectIn(e, T), Fewer(d, e, T),
           \A n \in DirsIn(e, T) : \A i \in 0 .. Direct - 1 : \A j \in 0 .. Slots - 1 :
               Place(e, n, i, j).inode # 0 => Place(e, n, i, j).inode \in T
    PROVE  Sound(e, T, A)
<1>1. MarkedIn(e, T)
  BY DEF MarkedIn, Fewer
<1>2. ApartIn(e, T)
  BY DEF ApartIn, Fewer, Sound
<1>3. EntriesIn(e, T, A)
  <2> SUFFICES ASSUME NEW n \in DirsIn(e, T), NEW i \in 0 .. Direct - 1, NEW j \in 0 .. Slots - 1,
                      Place(e, n, i, j).inode # 0
               PROVE  Leads(Place(e, n, i, j), n, T, A)
    BY DEF EntriesIn
  <2>1. n \in DirsIn(d, S) /\ Place(e, n, i, j) = Place(d, n, i, j)
    BY DEF Fewer, DirsIn
  <2>2. Leads(Place(d, n, i, j), n, S, A)
    BY <2>1 DEF Sound, EntriesIn
  <2> QED
    BY <2>1, <2>2 DEF Leads
<1>4. OneLink(e, T)
  <2> SUFFICES ASSUME NEW n \in DirsIn(e, T), NEW m \in DirsIn(e, T),
                      NEW i \in 0 .. Direct - 1, NEW k \in 0 .. Direct - 1,
                      NEW j \in 0 .. Slots - 1, NEW l \in 0 .. Slots - 1, Links2(e, n, i, j, m, k, l)
               PROVE  n = m /\ i = k /\ j = l
    BY DEF OneLink
  <2>1. /\ n \in DirsIn(d, S) /\ Place(e, n, i, j) = Place(d, n, i, j)
        /\ m \in DirsIn(d, S) /\ Place(e, m, k, l) = Place(d, m, k, l)
    BY DEF Fewer, DirsIn, Links2
  <2>2. Links2(d, n, i, j, m, k, l)
    BY <2>1 DEF Links2
  <2> QED
    BY <2>1, <2>2 DEF Sound, OneLink
<1> QED
  BY <1>1, <1>2, <1>3, <1>4 DEF Sound

\* The same without an inode that has no entry: what is below it goes too.
LEMMA SoundWithout ==
    ASSUME NEW d, NEW e, NEW S, NEW A, Sound(d, S, A), NEW n, n # ROOT,
           NEW T, T = {x \in S : n \notin A[x]},
           T \subseteq e.used["inode"], IndirectIn(e, T), Fewer(d, e, T),
           \A m \in DirsIn(e, T) : \A i \in 0 .. Direct - 1 : \A j \in 0 .. Slots - 1 :
               Place(e, m, i, j).inode = n => Place(e, m, i, j).name \notin Names
    PROVE  Sound(e, T, A)
<1>1. Ancestors(T, A)
  BY DEF Sound, Ancestors
<1>2. ASSUME NEW m \in DirsIn(e, T), NEW i \in 0 .. Direct - 1, NEW j \in 0 .. Slots - 1,
             Place(e, m, i, j).inode # 0
      PROVE  Place(e, m, i, j).inode \in T
  <2> DEFINE x == Place(e, m, i, j)
  <2>1. m \in DirsIn(d, S) /\ x = Place(d, m, i, j) /\ n \notin A[m] /\ m \in S
    BY <1>2 DEF Fewer, DirsIn
  <2>2. Leads(x, m, S, A)
    BY <1>2, <2>1 DEF Sound, EntriesIn
  <2>3. x.inode = n => x.name \notin Names
    OBVIOUS
  <2> HIDE DEF x
  <2>4. ASSUME x.name \in Names, x.inode \notin A[m], A[x.inode] = A[m] \cup {x.inode} PROVE x.inode \in T
    BY <2>1, <2>2, <2>3, <2>4 DEF Leads
  <2>5. ASSUME x.inode = m PROVE x.inode \in T
    BY <2>1, <2>5
  <2>6. ASSUME A[m] = A[x.inode] \cup {m} PROVE x.inode \in T
    BY <2>1, <2>2, <2>6 DEF Leads
  <2>7. x.inode \in T
    BY <2>2, <2>4, <2>5, <2>6 DEF Leads
  <2> QED
    BY <2>7 DEF x
<1> QED
  BY <1>1, <1>2, SoundLess

-----------------------------------------------------------------------------
(* What makes a sound set larger                                           *)

\* Nothing in S points to block q.
Unpointed(d, S, q) == \A n \in S : \A i \in 0 .. Direct + 1 : Pointer(d, n, i) # q

\* Inode n has q for its direct pointer i0, and else what it had.
Points(d, e, n, i0, q) ==
    /\ e.used = d.used /\ e.data = d.data
    /\ \A m \in Inodes : m # n => e.node[m] = d.node[m]
    /\ e.node[n].kind = d.node[n].kind /\ e.node[n].indirect = d.node[n].indirect
    /\ \A i \in 0 .. Direct - 1 : e.node[n].i_block[i] = IF i = i0 THEN q ELSE d.node[n].i_block[i]

\* A block without entries gets a pointer.
LEMMA SoundPointer ==
    ASSUME NEW d \in Disks, NEW e \in Disks, NEW S, NEW A, Sound(d, S, A), NEW n \in Inodes,
           NEW i0 \in 0 .. Direct - 1, NEW q \in Blocks, q \in d.used["block"],
           Unpointed(d, S, q), d.data[q].kind # "dir", Points(d, e, n, i0, q)
    PROVE  Sound(e, S, A)
<1>1. S \subseteq Inodes /\ Ancestors(S, A)
  BY DEF Sound, Ancestors
<1> USE IndexIs, UnitIs
<1>2. ASSUME NEW m \in S, NEW i \in 0 .. Direct + 1
      PROVE  Pointer(e, m, i) = IF m = n /\ i = i0 THEN q ELSE Pointer(d, m, i)
  <2>1. e.node[m].indirect = d.node[m].indirect
    BY <1>1 DEF Points
  <2>2. CASE i \in 0 .. Direct - 1
    <3>1. Pointer(e, m, i) = e.node[m].i_block[i] /\ Pointer(d, m, i) = d.node[m].i_block[i]
      BY <1>1, <2>2, PointerIs
    <3>2. CASE m = n
      BY <2>2, <3>1, <3>2 DEF Points
    <3>3. CASE m # n
      BY <1>1, <3>1, <3>3 DEF Points
    <3> QED
      BY <3>2, <3>3
  <2>3. CASE i = Direct
    BY <1>1, <2>1, <2>3, PointerIs
  <2>4. CASE i = Direct + 1
    <3>1. i # i0
      BY <2>4
    <3>2. CASE d.node[m].indirect = 0
      BY <1>1, <2>1, <2>4, <3>1, <3>2, PointerIs
    <3>3. CASE d.node[m].indirect # 0
      <4>1. Pointer(e, m, i) = e.data[e.node[m].indirect].to /\ Pointer(d, m, i) = d.data[d.node[m].indirect].to
        BY <1>1, <2>1, <2>4, <3>3, PointerIs
      <4>2. e.data = d.data
        BY DEF Points
      <4> QED
        BY <2>1, <3>1, <4>1, <4>2
    <3> QED
      BY <3>2, <3>3
  <2> QED
    BY <2>2, <2>3, <2>4
<1>3. \A m \in S : \A i \in 0 .. Direct + 1 :
          Pointer(e, m, i) = IF m = n /\ i = i0 THEN q ELSE Pointer(d, m, i)
  BY <1>2
<1>4. e.used = d.used
  BY DEF Points
<1>5. MarkedIn(e, S)
  <2>1. MarkedIn(d, S)
    BY DEF Sound
  <2> QED
    BY <1>3, <1>4, <2>1 DEF MarkedIn
<1>6. ApartIn(e, S)
  <2>1. ApartIn(d, S)
    BY DEF Sound
  <2> SUFFICES ASSUME NEW m \in S, NEW x \in S, NEW i \in 0 .. Direct + 1, NEW j \in 0 .. Direct + 1,
                      Pointer(e, m, i) # 0, Pointer(e, m, i) = Pointer(e, x, j)
               PROVE  m = x /\ i = j
    BY DEF ApartIn
  <2>2. Pointer(d, m, i) # q /\ Pointer(d, x, j) # q
    BY DEF Unpointed
  <2>3. Pointer(e, m, i) = (IF m = n /\ i = i0 THEN q ELSE Pointer(d, m, i))
    BY <1>2
  <2>4. Pointer(e, x, j) = (IF x = n /\ j = i0 THEN q ELSE Pointer(d, x, j))
    BY <1>2
  <2>5. CASE m = n /\ i = i0
    BY <2>2, <2>3, <2>4, <2>5
  <2>6. CASE ~(m = n /\ i = i0)
    <3>1. Pointer(d, m, i) # 0 /\ Pointer(d, m, i) = Pointer(d, x, j)
      BY <2>2, <2>3, <2>4, <2>6
    <3> QED
      BY <2>1, <3>1 DEF ApartIn
  <2> QED
    BY <2>5, <2>6
<1>7. IndirectIn(e, S)
  <2>1. IndirectIn(d, S)
    BY DEF Sound
  <2> QED
    BY <1>1, <2>1 DEF IndirectIn, Points
<1>8. \A m \in S : e.node[m].kind = d.node[m].kind
  BY <1>1 DEF Points
<1>9. ASSUME NEW m \in DirsIn(e, S), NEW i \in 0 .. Direct - 1, NEW j \in 0 .. Slots - 1,
             Place(e, m, i, j).inode # 0
      PROVE  m \in DirsIn(d, S) /\ Place(e, m, i, j) = Place(d, m, i, j)
  <2>1. m \in DirsIn(d, S) /\ m \in S
    BY <1>8 DEF DirsIn
  <2>2. e.node[m].i_block[i] = (IF m = n /\ i = i0 THEN q ELSE d.node[m].i_block[i])
    BY <1>1, <2>1 DEF Points
  <2>3. e.data = d.data
    BY DEF Points
  <2>4. e.node[m].i_block[i] # q
    BY <1>1, <1>9, <2>1, <2>3, PlaceIs, SMTT(30)
  <2>5. e.node[m].i_block[i] = d.node[m].i_block[i]
    BY <2>2, <2>4
  <2> QED
    BY <2>1, <2>3, <2>5 DEF Place, EntryIn, Formatted
<1>10. EntriesIn(e, S, A)
  <2>1. EntriesIn(d, S, A)
    BY DEF Sound
  <2> QED
    BY <1>9, <2>1 DEF EntriesIn
<1>11. OneLink(e, S)
  <2>1. OneLink(d, S)
    BY DEF Sound
  <2> SUFFICES ASSUME NEW x \in DirsIn(e, S), NEW m \in DirsIn(e, S),
                      NEW i \in 0 .. Direct - 1, NEW k \in 0 .. Direct - 1,
                      NEW j \in 0 .. Slots - 1, NEW l \in 0 .. Slots - 1, Links2(e, x, i, j, m, k, l)
               PROVE  x = m /\ i = k /\ j = l
    BY DEF OneLink
  <2>2. /\ x \in DirsIn(d, S) /\ Place(e, x, i, j) = Place(d, x, i, j)
        /\ m \in DirsIn(d, S) /\ Place(e, m, k, l) = Place(d, m, k, l)
    BY <1>9 DEF Links2
  <2> QED
    BY <2>1, <2>2 DEF OneLink, Links2
<1> QED
  BY <1>1, <1>5, <1>6, <1>7, <1>10, <1>11 DEF Sound

\* Block b of disk e has another content; the rest is as on d.
Rewrites(d, e, b, content) ==
    /\ e.used = d.used /\ e.node = d.node
    /\ \A x \in Blocks : e.data[x] = IF x = b THEN content ELSE d.data[x]

\* Pointers stay when a block is written that is not an indirect block.
LEMMA PointersStay ==
    ASSUME NEW d \in Disks, NEW e \in Disks, NEW S, NEW A, Sound(d, S, A), NEW b \in Blocks, NEW content,
           Rewrites(d, e, b, content), \A m \in S : d.node[m].indirect # b
    PROVE  /\ \A m \in S : \A i \in 0 .. Direct + 1 : Pointer(e, m, i) = Pointer(d, m, i)
           /\ MarkedIn(e, S) /\ ApartIn(e, S) /\ IndirectIn(e, S)
<1>1. S \subseteq Inodes
  BY DEF Sound, Ancestors
<1>2. e.used = d.used /\ e.node = d.node /\ \A x \in Blocks : x # b => e.data[x] = d.data[x]
  BY DEF Rewrites
<1>3. \A m \in S : d.node[m].indirect # 0 => e.data[d.node[m].indirect] = d.data[d.node[m].indirect]
  BY <1>1, <1>2, DiskIs
<1>4. ASSUME NEW m \in S, NEW i \in 0 .. Direct + 1
      PROVE  Pointer(e, m, i) = Pointer(d, m, i)
  <2>1. CASE i \in 0 .. Direct - 1
    BY <1>1, <1>2, <2>1, PointerIs
  <2>2. CASE i = Direct
    BY <1>1, <1>2, <2>2, PointerIs
  <2>3. CASE i = Direct + 1
    <3>1. CASE d.node[m].indirect = 0
      BY <1>1, <1>2, <2>3, <3>1, PointerIs
    <3>2. CASE d.node[m].indirect # 0
      BY <1>1, <1>2, <1>3, <2>3, <3>2, PointerIs
    <3> QED
      BY <3>1, <3>2
  <2> QED
    BY <2>1, <2>2, <2>3, IndexIs
<1>5. MarkedIn(e, S)
  BY <1>2, <1>4 DEF Sound, MarkedIn
<1>6. ApartIn(e, S)
  BY <1>4 DEF Sound, ApartIn
<1>7. IndirectIn(e, S)
  BY <1>2, <1>3 DEF Sound, IndirectIn
<1> QED
  BY <1>4, <1>5, <1>6, <1>7

\* A direct block is not an indirect block.
LEMMA DirectIs ==
    ASSUME NEW d \in Disks, NEW S, NEW A, Sound(d, S, A), NEW n \in S, NEW i \in 0 .. Direct - 1,
           NEW b, b = d.node[n].i_block[i], b # 0
    PROVE  /\ b \in Blocks
           /\ \A m \in S : d.node[m].indirect # b
           /\ \A m \in S : \A k \in 0 .. Direct - 1 : d.node[m].i_block[k] = b => m = n /\ k = i
<1>1. S \subseteq Inodes
  BY DEF Sound, Ancestors
<1>2. b \in Blocks
  BY <1>1, DiskIs
<1>3. Pointer(d, n, i) = b
  BY <1>1, PointerIs
<1>4. \A m \in S : Pointer(d, m, Direct) = d.node[m].indirect
  BY <1>1, PointerIs
<1>5. \A m \in S : \A k \in 0 .. Direct - 1 : Pointer(d, m, k) = d.node[m].i_block[k]
  BY <1>1, PointerIs
<1>6. ApartIn(d, S)
  BY DEF Sound
<1>7. \A m \in S : d.node[m].indirect # b
  BY <1>3, <1>4, <1>6, IndexIs DEF ApartIn
<1>8. \A m \in S : \A k \in 0 .. Direct - 1 : d.node[m].i_block[k] = b => m = n /\ k = i
  BY <1>3, <1>5, <1>6, IndexIs DEF ApartIn
<1> QED
  BY <1>2, <1>7, <1>8

\* What is read of a block, written or not.
LEMMA PlaceRead ==
    ASSUME NEW d \in Disks, NEW e \in Disks, NEW b \in Blocks, NEW content, Rewrites(d, e, b, content),
           NEW m \in Inodes, NEW k \in 0 .. Direct - 1, NEW l \in 0 .. Slots - 1
    PROVE  /\ d.node[m].i_block[k] # b => Place(e, m, k, l) = Place(d, m, k, l)
           /\ d.node[m].i_block[k] = b =>
                 /\ Place(e, m, k, l) = (IF content.kind = "dir" THEN content.entry[l] ELSE NoEntry)
                 /\ Place(d, m, k, l) = (IF d.data[b].kind = "dir" THEN d.data[b].entry[l] ELSE NoEntry)
<1> DEFINE x == d.node[m].i_block[k]
<1>1. x \in Blocks \cup {0} /\ b # 0
  BY DiskIs, UnitIs
<1>2. e.node[m].i_block[k] = x /\ e.data[b] = content /\ (x # b /\ x # 0 => e.data[x] = d.data[x])
  BY <1>1 DEF Rewrites
<1>3. Place(d, m, k, l) = IF x # 0 /\ d.data[x].kind = "dir" THEN d.data[x].entry[l] ELSE NoEntry
  BY DEF Place, EntryIn, Formatted
<1>4. Place(e, m, k, l) = IF x # 0 /\ e.data[x].kind = "dir" THEN e.data[x].entry[l] ELSE NoEntry
  BY <1>2 DEF Place, EntryIn, Formatted
<1> HIDE DEF x
<1>5. x # b => Place(e, m, k, l) = Place(d, m, k, l)
  <2>1. CASE x = 0
    BY <1>3, <1>4, <2>1
  <2>2. CASE x # 0
    BY <1>2, <1>3, <1>4, <2>2
  <2> QED
    BY <2>1, <2>2
<1>6. x = b => /\ Place(e, m, k, l) = (IF content.kind = "dir" THEN content.entry[l] ELSE NoEntry)
               /\ Place(d, m, k, l) = (IF d.data[b].kind = "dir" THEN d.data[b].entry[l] ELSE NoEntry)
  BY <1>1, <1>2, <1>3, <1>4
<1> QED
  BY <1>5, <1>6 DEF x

\* The content has no entry that block b of disk d has not.
NoNewEntry(d, b, content) ==
    content.kind = "dir" =>
        \A l \in 0 .. Slots - 1 :
            content.entry[l].inode = 0 \/ (d.data[b].kind = "dir" /\ content.entry[l] = d.data[b].entry[l])

\* A block that is not an indirect block is written, without a new entry.
LEMMA SoundBlock ==
    ASSUME NEW d \in Disks, NEW e \in Disks, NEW S, NEW A, Sound(d, S, A), NEW b \in Blocks, NEW content,
           Rewrites(d, e, b, content), \A m \in S : d.node[m].indirect # b, NoNewEntry(d, b, content)
    PROVE  Sound(e, S, A)
<1>1. S \subseteq Inodes /\ Ancestors(S, A)
  BY DEF Sound, Ancestors
<1>2. /\ \A m \in S : \A i \in 0 .. Direct + 1 : Pointer(e, m, i) = Pointer(d, m, i)
      /\ MarkedIn(e, S) /\ ApartIn(e, S) /\ IndirectIn(e, S)
  BY PointersStay
<1>3. ASSUME NEW n \in DirsIn(e, S), NEW i \in 0 .. Direct - 1, NEW j \in 0 .. Slots - 1,
             Place(e, n, i, j).inode # 0
      PROVE  Place(e, n, i, j) = Place(d, n, i, j)
  <2>1. n \in Inodes
    BY <1>1 DEF DirsIn
  <2>2. CASE d.node[n].i_block[i] # b
    BY <2>1, <2>2, PlaceRead
  <2>3. CASE d.node[n].i_block[i] = b
    <3>1. Place(e, n, i, j) = (IF content.kind = "dir" THEN content.entry[j] ELSE NoEntry)
      BY <2>1, <2>3, PlaceRead
    <3>2. Place(d, n, i, j) = (IF d.data[b].kind = "dir" THEN d.data[b].entry[j] ELSE NoEntry)
      BY <2>1, <2>3, PlaceRead
    <3>3. NoEntry.inode = 0
      BY DEF NoEntry
    <3>4. content.kind = "dir" /\ content.entry[j].inode # 0
      BY <1>3, <3>1, <3>3
    <3>5. d.data[b].kind = "dir" /\ content.entry[j] = d.data[b].entry[j]
      BY <3>4 DEF NoNewEntry
    <3> QED
      BY <3>1, <3>2, <3>4, <3>5
  <2> QED
    BY <2>2, <2>3
<1>4. DirsIn(e, S) = DirsIn(d, S)
  BY DEF Rewrites, DirsIn
<1>5. Fewer(d, e, S)
  BY <1>2, <1>3, <1>4 DEF Fewer, MarkedIn
<1>6. EntriesIn(d, S, A)
  BY DEF Sound
<1>7. \A n \in DirsIn(e, S) : \A i \in 0 .. Direct - 1 : \A j \in 0 .. Slots - 1 :
          Place(e, n, i, j).inode # 0 => Place(e, n, i, j).inode \in S
  BY <1>3, <1>4, <1>6 DEF EntriesIn, Leads
<1>8. S \subseteq e.used["inode"]
  BY <1>2 DEF MarkedIn
<1> QED
  BY <1>1, <1>2, <1>5, <1>7, <1>8, SoundLess

\* No directory in S has an entry for inode c, but for dots.
Unlinked(d, S, c) ==
    \A m \in DirsIn(d, S) : \A i \in 0 .. Direct - 1 : \A j \in 0 .. Slots - 1 :
        Place(d, m, i, j).inode = c => Place(d, m, i, j).name \notin Names

\* A directory block with one entry more, in place j0.
OneMoreEntry(d, b, content, j0, new) ==
    /\ content.kind = "dir" /\ content.entry[j0] = new
    /\ \A l \in 0 .. Slots - 1 :
          l # j0 => \/ content.entry[l].inode = 0
                    \/ d.data[b].kind = "dir" /\ content.entry[l] = d.data[b].entry[l]

\* An inode gets its entry in a block of n, whether n is a directory or not.
LEMMA SoundEntry ==
    ASSUME NEW d \in Disks, NEW e \in Disks, NEW S, NEW A, Sound(d, S, A), NEW n \in S,
           NEW i0 \in 0 .. Direct - 1, NEW j0 \in 0 .. Slots - 1, NEW b, b = d.node[n].i_block[i0], b # 0,
           NEW content, Rewrites(d, e, b, content), NEW c \in S, NEW name \in Names,
           c \notin A[n], A[c] = A[n] \cup {c}, Unlinked(d, S, c),
           OneMoreEntry(d, b, content, j0, [inode |-> c, name |-> name])
    PROVE  Sound(e, S, A)
<1>1. S \subseteq Inodes /\ Ancestors(S, A)
  BY DEF Sound, Ancestors
<1>2. b \in Blocks /\ (\A m \in S : d.node[m].indirect # b)
      /\ \A m \in S : \A k \in 0 .. Direct - 1 : d.node[m].i_block[k] = b => m = n /\ k = i0
  BY DirectIs
<1>3. MarkedIn(e, S) /\ ApartIn(e, S) /\ IndirectIn(e, S)
  BY <1>2, PointersStay
<1>4. DirsIn(e, S) = DirsIn(d, S) /\ DirsIn(e, S) \subseteq S
  BY DEF Rewrites, DirsIn
<1> DEFINE new == [inode |-> c, name |-> name]
<1>5. new.inode = c /\ new.name = name /\ c # 0
  BY <1>1, UnitIs
<1> HIDE DEF new
<1>6. ASSUME NEW m \in DirsIn(e, S), NEW k \in 0 .. Direct - 1, NEW l \in 0 .. Slots - 1,
             Place(e, m, k, l).inode # 0
      PROVE  \/ m = n /\ k = i0 /\ l = j0 /\ Place(e, m, k, l) = new
             \/ Place(e, m, k, l) = Place(d, m, k, l)
  <2>1. m \in Inodes /\ m \in S
    BY <1>1, <1>4
  <2>2. CASE d.node[m].i_block[k] # b
    BY <1>2, <2>1, <2>2, PlaceRead
  <2>3. CASE d.node[m].i_block[k] = b
    <3>1. m = n /\ k = i0
      BY <1>2, <2>1, <2>3
    <3>2. Place(e, m, k, l) = content.entry[l]
      BY <1>2, <2>1, <2>3, PlaceRead, SMTT(30) DEF OneMoreEntry
    <3>3. Place(d, m, k, l) = (IF d.data[b].kind = "dir" THEN d.data[b].entry[l] ELSE NoEntry)
      BY <1>2, <2>1, <2>3, PlaceRead, SMTT(30)
    <3>4. CASE l = j0
      BY <3>1, <3>2, <3>4 DEF OneMoreEntry, new
    <3>5. CASE l # j0
      BY <1>6, <3>2, <3>3, <3>5 DEF OneMoreEntry
    <3> QED
      BY <3>4, <3>5
  <2> QED
    BY <2>2, <2>3
<1>7. EntriesIn(d, S, A) /\ OneLink(d, S)
  BY DEF Sound
<1>8. EntriesIn(e, S, A)
  <2> SUFFICES ASSUME NEW m \in DirsIn(e, S), NEW k \in 0 .. Direct - 1, NEW l \in 0 .. Slots - 1,
                      Place(e, m, k, l).inode # 0
               PROVE  Leads(Place(e, m, k, l), m, S, A)
    BY DEF EntriesIn
  <2>1. CASE m = n /\ Place(e, m, k, l) = new
    <3>1. Leads(new, n, S, A)
      BY <1>5 DEF Leads
    <3> QED
      BY <2>1, <3>1
  <2>2. CASE Place(e, m, k, l) = Place(d, m, k, l)
    BY <1>4, <1>7, <2>2 DEF EntriesIn
  <2> QED
    BY <1>6, <2>1, <2>2
<1>9. OneLink(e, S)
  <2> SUFFICES ASSUME NEW x \in DirsIn(e, S), NEW m \in DirsIn(e, S),
                      NEW i \in 0 .. Direct - 1, NEW k \in 0 .. Direct - 1,
                      NEW j \in 0 .. Slots - 1, NEW l \in 0 .. Slots - 1, Links2(e, x, i, j, m, k, l)
               PROVE  x = m /\ i = k /\ j = l
    BY DEF OneLink
  <2>1. /\ Place(e, x, i, j).inode # 0 /\ Place(e, m, k, l).inode = Place(e, x, i, j).inode
        /\ Place(e, x, i, j).name \in Names /\ Place(e, m, k, l).name \in Names
    BY DEF Links2
  <2>2. \/ x = n /\ i = i0 /\ j = j0 /\ Place(e, x, i, j) = new
        \/ Place(e, x, i, j) = Place(d, x, i, j)
    BY <1>6, <2>1
  <2>3. \/ m = n /\ k = i0 /\ l = j0 /\ Place(e, m, k, l) = new
        \/ Place(e, m, k, l) = Place(d, m, k, l)
    BY <1>6, <2>1
  <2>4. ASSUME NEW y \in DirsIn(e, S), NEW p \in 0 .. Direct - 1, NEW q \in 0 .. Slots - 1,
               Place(e, y, p, q) = Place(d, y, p, q), Place(e, y, p, q).name \in Names
        PROVE  Place(e, y, p, q).inode # c
    BY <1>4, <2>4 DEF Unlinked
  <2>5. CASE x = n /\ i = i0 /\ j = j0 /\ Place(e, x, i, j) = new
    <3>1. Place(e, m, k, l).inode = c
      BY <1>5, <2>1, <2>5
    <3> QED
      BY <2>1, <2>3, <2>4, <2>5, <3>1
  <2>6. CASE Place(e, x, i, j) = Place(d, x, i, j)
    <3>1. Place(e, x, i, j).inode # c
      BY <2>1, <2>4, <2>6
    <3>2. Place(e, m, k, l) # new
      BY <1>5, <2>1, <3>1
    <3>3. Links2(d, x, i, j, m, k, l)
      BY <2>1, <2>3, <2>6, <3>2 DEF Links2
    <3> QED
      BY <1>4, <1>7, <3>3 DEF OneLink
  <2> QED
    BY <2>2, <2>5, <2>6
<1> QED
  BY <1>1, <1>3, <1>8, <1>9 DEF Sound

\* Inode c is as a call makes it, in directory p: without pointers, or with one
\* to a block that has the dots.
Fresh(d, S, c, p) ==
    /\ d.node[c].indirect = 0
    /\ \A i \in 1 .. Direct - 1 : d.node[c].i_block[i] = 0
    /\ \/ d.node[c].i_block[0] = 0
       \/ /\ d.node[c].i_block[0] \in d.used["block"] /\ Unpointed(d, S, d.node[c].i_block[0])
          /\ d.data[d.node[c].i_block[0]].kind = "dir" =>
                \A j \in 0 .. Slots - 1 :
                    LET e == d.data[d.node[c].i_block[0]].entry[j]
                    IN  e.inode # 0 => (e.name = "." /\ e.inode = c) \/ (e.name = ".." /\ e.inode = p)

\* Its ancestors.
With(A, p, c) == [x \in Inodes |-> IF x = c THEN A[p] \cup {c} ELSE A[x]]

\* An inode that is new comes into the set before its entry is written.
LEMMA SoundInode ==
    ASSUME NEW d \in Disks, NEW S, NEW A, Sound(d, S, A), NEW p \in S, NEW c \in Inodes, c \notin S,
           c \in d.used["inode"], Fresh(d, S, c, p)
    PROVE  /\ Sound(d, S \cup {c}, With(A, p, c)) /\ Unlinked(d, S \cup {c}, c)
           /\ c \notin With(A, p, c)[p] /\ With(A, p, c)[c] = With(A, p, c)[p] \cup {c}
<1> DEFINE T == S \cup {c}
           B == With(A, p, c)
<1>1. S \subseteq Inodes /\ Ancestors(S, A) /\ p # c
  BY DEF Sound, Ancestors
<1>2. B[c] = A[p] \cup {c} /\ \A x \in S : B[x] = A[x]
  BY <1>1 DEF With
<1>3. \A x \in S : c \notin A[x]
  BY <1>1 DEF Ancestors
<1> HIDE DEF B
<1>4. Ancestors(T, B)
  BY <1>1, <1>2, <1>3 DEF Ancestors
<1>5. \A i \in 0 .. Direct + 1 :
          \/ Pointer(d, c, i) = 0
          \/ i = 0 /\ Pointer(d, c, i) \in d.used["block"] /\ Unpointed(d, S, Pointer(d, c, i))
  <2> SUFFICES ASSUME NEW i \in 0 .. Direct + 1, Pointer(d, c, i) # 0
               PROVE  i = 0 /\ Pointer(d, c, i) \in d.used["block"] /\ Unpointed(d, S, Pointer(d, c, i))
    OBVIOUS
  <2>1. i # Direct /\ i # Direct + 1
    <3>1. d.node[c].indirect = 0
      BY DEF Fresh
    <3>2. Pointer(d, c, Direct) = 0 /\ Pointer(d, c, Direct + 1) = 0
      BY <3>1, PointerIs
    <3> QED
      BY <3>2
  <2>2. i \in 0 .. Direct - 1
    BY <2>1, IndexIs
  <2>3. Pointer(d, c, i) = d.node[c].i_block[i]
    BY <2>2, PointerIs
  <2>5. i \in 1 .. Direct - 1 \/ i = 0
    BY <2>2, IndexIs
  <2>4. i = 0
    BY <2>3, <2>5 DEF Fresh
  <2> QED
    BY <2>3, <2>4 DEF Fresh
<1>6. MarkedIn(d, T)
  BY <1>5 DEF Sound, MarkedIn
<1>7. ApartIn(d, T)
  <2>1. ApartIn(d, S)
    BY DEF Sound
  <2> SUFFICES ASSUME NEW n \in T, NEW m \in T, NEW i \in 0 .. Direct + 1, NEW j \in 0 .. Direct + 1,
                      Pointer(d, n, i) # 0, Pointer(d, n, i) = Pointer(d, m, j)
               PROVE  n = m /\ i = j
    BY DEF ApartIn
  <2>2. CASE n = c /\ m = c
    BY <1>5, <2>2
  <2>3. CASE n = c /\ m # c
    BY <1>5, <2>3 DEF Unpointed
  <2>4. CASE n # c /\ m = c
    BY <1>5, <2>4 DEF Unpointed
  <2>5. CASE n # c /\ m # c
    BY <2>1, <2>5 DEF ApartIn
  <2> QED
    BY <2>2, <2>3, <2>4, <2>5
<1>8. IndirectIn(d, T)
  BY DEF Sound, IndirectIn, Fresh
<1>9. ASSUME NEW j \in 0 .. Slots - 1, NEW i \in 0 .. Direct - 1, Place(d, c, i, j).inode # 0
      PROVE  \/ Place(d, c, i, j).name = "." /\ Place(d, c, i, j).inode = c
             \/ Place(d, c, i, j).name = ".." /\ Place(d, c, i, j).inode = p
  <2>1. /\ d.node[c].i_block[i] \in Blocks /\ d.data[d.node[c].i_block[i]].kind = "dir"
        /\ Place(d, c, i, j) = d.data[d.node[c].i_block[i]].entry[j]
    BY <1>9, PlaceIs, SMTT(30)
  <2>2. i \in 1 .. Direct - 1 \/ i = 0
    BY IndexIs
  <2>3. i = 0
    BY <2>1, <2>2, UnitIs DEF Fresh
  <2>4. d.node[c].i_block[0] # 0 /\ d.data[d.node[c].i_block[0]].kind = "dir"
    BY <2>1, <2>3, UnitIs
  <2>5. LET e == d.data[d.node[c].i_block[0]].entry[j]
        IN  e.inode # 0 => (e.name = "." /\ e.inode = c) \/ (e.name = ".." /\ e.inode = p)
    BY <2>4 DEF Fresh
  <2> QED
    BY <1>9, <2>1, <2>3, <2>5
<1>10. EntriesIn(d, T, B)
  <2> SUFFICES ASSUME NEW m \in DirsIn(d, T), NEW k \in 0 .. Direct - 1, NEW l \in 0 .. Slots - 1,
                      Place(d, m, k, l).inode # 0
               PROVE  Leads(Place(d, m, k, l), m, T, B)
    BY DEF EntriesIn
  <2>1. CASE m = c
    BY <1>1, <1>2, <1>9, <2>1 DEF Leads
  <2>2. CASE m # c
    <3>1. m \in DirsIn(d, S) /\ m \in S
      BY <2>2 DEF DirsIn
    <3>2. Leads(Place(d, m, k, l), m, S, A)
      BY <3>1 DEF Sound, EntriesIn
    <3> QED
      BY <1>2, <3>1, <3>2 DEF Leads
  <2> QED
    BY <2>1, <2>2
<1>11. \A m \in DirsIn(d, T) : \A i \in 0 .. Direct - 1 : \A j \in 0 .. Slots - 1 :
           Place(d, m, i, j).inode # 0 /\ Place(d, m, i, j).name \in Names =>
               m \in DirsIn(d, S) /\ Place(d, m, i, j).inode # c
  <2> SUFFICES ASSUME NEW m \in DirsIn(d, T), NEW i \in 0 .. Direct - 1, NEW j \in 0 .. Slots - 1,
                      Place(d, m, i, j).inode # 0, Place(d, m, i, j).name \in Names
               PROVE  m \in DirsIn(d, S) /\ Place(d, m, i, j).inode # c
    OBVIOUS
  <2>1. m # c
    BY <1>9, NamesAssumption DEF NamesAssumption
  <2>2. m \in DirsIn(d, S)
    BY <2>1 DEF DirsIn
  <2>3. Place(d, m, i, j).inode \in S
    BY <2>2 DEF Sound, EntriesIn, Leads
  <2> QED
    BY <2>2, <2>3
<1>12. OneLink(d, T)
  BY <1>11 DEF Sound, OneLink, Links2
<1>13. c # 0
  BY UnitIs
<1>14. Unlinked(d, T, c)
  BY <1>11, <1>13 DEF Unlinked
<1>15. Sound(d, T, B)
  BY <1>4, <1>6, <1>7, <1>8, <1>10, <1>12 DEF Sound
<1>16. c \notin B[p] /\ B[c] = B[p] \cup {c}
  BY <1>2, <1>3
<1> QED
  BY <1>14, <1>15, <1>16 DEF B

-----------------------------------------------------------------------------
(* Paths *)

\* The least of some numbers is one of them.
LEMMA MinIn == ASSUME NEW S \in SUBSET Nat, S # {} PROVE Min(S) \in S
<1> DEFINE R == OpToRel(<, Nat)
<1>1. IsWellFoundedOn(R, Nat)
  BY NatLessThanWellFounded
<1>2. \A y, x \in S : y < x => <<y, x>> \in R
  BY DEF OpToRel
<1> HIDE DEF R
<1>3. PICK x \in S : \A y \in S : ~(<<y, x>> \in R)
  BY <1>1, WFMin
<1>4. \A y \in S : y \in Nat /\ ~(y < x)
  BY <1>2, <1>3
<1>5. \E z \in S : \A y \in S : z <= y
  BY <1>4
<1> QED
  BY <1>5 DEF Min

\* A position is a block and a place in it.
LEMMA PositionIs ==
    /\ \A p \in Positions : /\ p \div Slots \in 0 .. Direct - 1 /\ p % Slots \in 0 .. Slots - 1
                            /\ p = Slots * (p \div Slots) + (p % Slots)
    /\ Positions \subseteq Nat
<1>1. Slots \in Nat /\ Slots > 0 /\ Direct \in Nat /\ Direct > 0
  BY SizesAssumption DEF SizesAssumption
<1>2. ASSUME NEW p \in Positions
      PROVE  /\ p \div Slots \in 0 .. Direct - 1 /\ p % Slots \in 0 .. Slots - 1
             /\ p = Slots * (p \div Slots) + (p % Slots) /\ p \in Nat
  <2> DEFINE q == p \div Slots
             r == p % Slots
             top == Direct * Slots
  <2>1. top \in Nat
    BY <1>1
  <2>2. p \in Nat /\ p < top
    BY <2>1 DEF Positions
  <2>3. q \in Nat /\ r \in Nat /\ r < Slots /\ p = Slots * q + r
    BY <1>1, <2>2
  <2> HIDE DEF q, r
  <2>4. q < Direct
    <3>1. ASSUME q >= Direct PROVE FALSE
      <4>1. Slots * q >= Slots * Direct
        BY <1>1, <2>3, <3>1
      <4> QED
        BY <1>1, <2>2, <2>3, <4>1
    <3> QED
      BY <1>1, <2>3, <3>1
  <2>5. q \in 0 .. Direct - 1 /\ r \in 0 .. Slots - 1
    BY <1>1, <2>3, <2>4
  <2> QED
    BY <2>2, <2>3, <2>5, Zenon DEF q, r
<1> QED
  BY <1>2

\* An entry that a search finds is that of a place.
LEMMA EntryIs ==
    ASSUME NEW d \in Disks, NEW n \in Inodes, NEW p \in Positions,
           EntryAt(d, d.node[n], p).inode # 0
    PROVE  /\ EntryAt(d, d.node[n], p) = Place(d, n, p \div Slots, p % Slots)
           /\ BlockAt(d, d.node[n], p \div Slots) = d.node[n].i_block[p \div Slots]
           /\ d.node[n].i_block[p \div Slots] # 0
<1> DEFINE i == p \div Slots
           b == BlockAt(d, d.node[n], i)
<1>1. i \in 0 .. Direct - 1
  BY PositionIs
<1> HIDE DEF i
<1>2. i < Direct
  BY <1>1, IndexIs
<1>7. ext2_get_file_block(d, d.node[n], i) = d.node[n].i_block[i]
  BY <1>1, <1>2, IndexIs DEF ext2_get_file_block
<1>3. b = (IF i < d.node[n].size THEN d.node[n].i_block[i] ELSE 0)
  BY <1>7 DEF BlockAt
<1>4. EntryAt(d, d.node[n], p) = EntryIn(d, b, p % Slots)
  BY DEF EntryAt, i
<1> HIDE DEF b
<1>5. b # 0
  <2>1. NoEntry.inode = 0
    BY DEF NoEntry
  <2> QED
    BY <1>4, <2>1 DEF EntryIn, Formatted
<1>6. b = d.node[n].i_block[i]
  BY <1>3, <1>5
<1> QED
  BY <1>4, <1>5, <1>6 DEF Place, i, b

\* The entry by which directory n leads to inode x.
Child(d, A, n, name, x) ==
    /\ d.node[n].kind = "dir" /\ x \in Inside(d, n)
    /\ x \notin A[n] /\ A[x] = A[n] \cup {x}
    /\ LET found == Holding(Entries(d, d.node[n]), name)
       IN  found # {} /\ Min(found) \in Positions /\ EntryAt(d, d.node[n], Min(found)) = [inode |-> x, name |-> name]

\* What a directory has for a name.
LEMMA FindIs ==
    ASSUME NEW d \in Disks, NEW S, NEW A, Sound(d, S, A), NEW n \in S, NEW name \in Names,
           ext2_find_in_dir(d, n, name) # 0
    PROVE  ext2_find_in_dir(d, n, name) \in S /\ Child(d, A, n, name, ext2_find_in_dir(d, n, name))
<1> DEFINE x == ext2_find_in_dir(d, n, name)
           entries == Entries(d, d.node[n])
           found == Holding(entries, name)
           p == Min(found)
<1>1. d.node[n].kind = "dir" /\ x = InodeOf(entries, name)
  BY DEF ext2_find_in_dir
<1>2. found # {} /\ x = entries[p].inode
  BY <1>1 DEF InodeOf
<1>3. found \subseteq Positions
  BY DEF Holding, Taken
<1> HIDE DEF x
<1>4. p \in found
  <2> HIDE DEF found
  <2> QED
    BY <1>2, <1>3, PositionIs, MinIn
<1>5. p \in Positions /\ entries[p].inode # 0 /\ entries[p].name = name
  BY <1>4 DEF Holding, Taken
<1> HIDE DEF found, p
<1>6. entries[p] = EntryAt(d, d.node[n], p)
  BY <1>5 DEF Entries
<1> HIDE DEF entries
<1>7. n \in Inodes /\ n \in DirsIn(d, S)
  BY <1>1 DEF Sound, Ancestors, DirsIn
<1> DEFINE i == p \div Slots
           j == p % Slots
<1>8. i \in 0 .. Direct - 1 /\ j \in 0 .. Slots - 1
  BY <1>5, PositionIs
<1>9. EntryAt(d, d.node[n], p) = Place(d, n, i, j)
  BY <1>5, <1>6, <1>7, EntryIs
<1> HIDE DEF i, j
<1>10. Place(d, n, i, j) \in DirEntries /\ Leads(Place(d, n, i, j), n, S, A)
  BY <1>5, <1>6, <1>7, <1>8, <1>9, PlaceIs DEF Sound, EntriesIn
<1>11. EntryAt(d, d.node[n], p) = [inode |-> x, name |-> name]
  BY <1>2, <1>5, <1>6, <1>9, <1>10 DEF DirEntries
<1>12. x \in S /\ x \notin A[n] /\ A[x] = A[n] \cup {x}
  <2>1. name # "." /\ name # ".."
    BY NamesAssumption DEF NamesAssumption
  <2> QED
    BY <1>2, <1>5, <1>6, <1>9, <1>10, <2>1 DEF Leads
<1>13. x \in Inside(d, n)
  <2>1. x = EntryAt(d, d.node[n], p).inode /\ x # 0
    BY <1>2, <1>5, <1>6
  <2> QED
    BY <1>5, <2>1 DEF Inside
<1>14. Child(d, A, n, name, x)
  BY <1>1, <1>2, <1>5, <1>11, <1>12, <1>13 DEF Child, found, p, entries
<1> QED
  BY <1>12, <1>14 DEF x

\* What a path is.
LEMMA PathIs ==
    ASSUME NEW path \in AllPaths
    PROVE  path \in Seq(Names) /\ Len(path) \in 0 .. MaxDepth /\ (path \in Paths => Len(path) > 0)
<1>1. MaxDepth \in Nat
  BY BoundsAssumption DEF BoundsAssumption
<1>2. CASE path \in Paths
  <2>1. PICK l \in 1 .. MaxDepth : path \in [1 .. l -> Names]
    BY <1>2 DEF Paths
  <2>2. l \in Nat /\ l > 0
    OBVIOUS
  <2>3. path \in Seq(Names) /\ Len(path) = l
    BY <2>1, <2>2, SeqDef
  <2> QED
    BY <1>1, <2>1, <2>3
<1>3. CASE path \notin Paths
  <2>1. path = <<>>
    BY <1>3 DEF AllPaths
  <2> QED
    BY <1>1, <1>3, <2>1
<1> QED
  BY <1>2, <1>3

\* The path of the directory, and the name in it.
LEMMA FrontIs ==
    ASSUME NEW path \in Paths
    PROVE  /\ Front(path) \in AllPaths /\ Len(Front(path)) = Len(path) - 1
           /\ \A i \in 1 .. Len(path) - 1 : Front(path)[i] = path[i]
           /\ Last(path) \in Names /\ Last(path) = path[Len(path)]
<1>1. PICK l \in 1 .. MaxDepth : path \in [1 .. l -> Names]
  BY DEF Paths
<1>2. MaxDepth \in Nat /\ l \in Nat /\ l > 0
  BY BoundsAssumption DEF BoundsAssumption
<1>3. path \in Seq(Names) /\ Len(path) = l
  BY <1>1, <1>2, SeqDef
<1> DEFINE f == Front(path)
<1>4. f = [i \in 1 .. l - 1 |-> path[i]]
  BY <1>2, <1>3 DEF Front
<1>5. f \in [1 .. l - 1 -> Names]
  BY <1>1, <1>2, <1>4
<1> HIDE DEF f
<1>6. Len(f) = l - 1 /\ (l = 1 => f = <<>>)
  <2>1. l - 1 \in Nat
    BY <1>2
  <2>2. f \in Seq(Names) /\ Len(f) = l - 1
    BY <1>5, <2>1, SeqDef
  <2> QED
    BY <2>2, EmptySeq
<1>7. f \in AllPaths
  <2>1. CASE l = 1
    BY <1>6, <2>1 DEF AllPaths
  <2>2. CASE l # 1
    <3>1. l - 1 \in 1 .. MaxDepth
      BY <1>2, <2>2
    <3> QED
      BY <1>5, <3>1 DEF AllPaths, Paths
  <2> QED
    BY <2>1, <2>2
<1>8. \A i \in 1 .. l - 1 : f[i] = path[i]
  BY <1>4
<1>9. Last(path) \in Names /\ Last(path) = path[Len(path)]
  BY <1>1, <1>2, <1>3 DEF Last
<1> QED
  BY <1>3, <1>6, <1>7, <1>8, <1>9 DEF f

\* The inodes on the way of a path.
Walked(c, seq, k, b) == b \in c.S \cup {0}
WalkTo(c, b, l) == Step(c.d, c.u, b, c.path[l])
Walks == INSTANCE SequenceLemmas WITH Body <- WalkTo, Kept <- Walked
Walk(d, u, path, w) ==
    /\ w[0] = ROOT
    /\ \A l \in 0 .. Len(path) - 1 : w[l + 1] = Step(d, u, w[l], path[l + 1])

\* A path leads to the last inode on its way.
LEMMA WalkIs ==
    ASSUME NEW d, NEW u, NEW path \in AllPaths
    PROVE  \E w : Walk(d, u, path, w) /\ ext2_resolve_path(d, u, path) = w[Len(path)]
<1> DEFINE c == [d |-> d, u |-> u, path |-> path]
           n == Len(c.path)
           seq == [k \in 1 .. n |-> k]
           w == Walks!Recursive(c, ROOT, n)
<1>1. c.d = d /\ c.u = u /\ c.path = path
  OBVIOUS
<1>2. ext2_resolve_path(d, u, path) = ext2_resolve_path(c.d, c.u, c.path)
  BY <1>1
<1> HIDE DEF c
<1>3. ext2_resolve_path(c.d, c.u, c.path) = w[n]
  BY Zenon DEF ext2_resolve_path, WalkTo, Walks!Recursive
<1>4. n \in Nat
  BY <1>1, PathIs
<1> HIDE DEF w
<1>5. Walks!Run(c, ROOT, seq, n, w)
  <2> HIDE DEF n, seq
  <2>1. seq = [k \in 1 .. n |-> k]
    BY DEF seq
  <2> QED
    BY <1>4, <2>1, Walks!RecursionRun DEF w
<1>6. w[0] = ROOT
  BY <1>5 DEF Walks!Run
<1>7. ASSUME NEW l \in 0 .. n - 1
      PROVE  w[l + 1] = Step(d, u, w[l], path[l + 1])
  <2>1. w[l + 1] = WalkTo(c, w[l], seq[l + 1])
    BY <1>5 DEF Walks!Run
  <2>2. seq[l + 1] = l + 1
    BY <1>4
  <2> QED
    BY <1>1, <2>1, <2>2 DEF WalkTo
<1>8. Walk(d, u, path, w) /\ n = Len(path)
  BY <1>1, <1>6, <1>7 DEF Walk
<1> QED
  BY <1>2, <1>3, <1>8

\* A step from an inode of S.
LEMMA StepIs ==
    ASSUME NEW d \in Disks, NEW S, NEW A, Sound(d, S, A), NEW u, NEW n \in S \cup {0}, NEW name \in Names
    PROVE  /\ Step(d, u, n, name) \in S \cup {0}
           /\ Step(d, u, n, name) # 0 => /\ n \in S /\ Step(d, u, n, name) = ext2_find_in_dir(d, n, name)
                                         /\ Child(d, A, n, name, Step(d, u, n, name))
<1> DEFINE x == Step(d, u, n, name)
<1>1. x = 0 \/ (n # 0 /\ x = ext2_find_in_dir(d, n, name))
  BY DEF Step
<1> HIDE DEF x
<1>2. CASE x # 0
  <2>1. n \in S /\ x = ext2_find_in_dir(d, n, name) /\ ext2_find_in_dir(d, n, name) # 0
    BY <1>1, <1>2
  <2>2. x \in S /\ Child(d, A, n, name, x)
    BY <2>1, FindIs
  <2>3. (x \in S \cup {0}) /\ (x # 0 => n \in S /\ x = ext2_find_in_dir(d, n, name) /\ Child(d, A, n, name, x))
    BY <2>1, <2>2
  <2> QED
    BY <2>3 DEF x
<1>3. CASE x = 0
  BY <1>3 DEF x
<1> QED
  BY <1>2, <1>3

\* Every inode on the way is in S; and if there is one at the end, each is the
\* child of the one before.
Ways(d, S, A, path, w) ==
    \A l \in 0 .. Len(path) - 1 : w[l + 1] # 0 => w[l] \in S /\ Child(d, A, w[l], path[l + 1], w[l + 1])
\* What ext2_resolve_path passes is in S, each inode the child of the one before.
LEMMA WayIs ==
    ASSUME NEW d \in Disks, NEW S, NEW A, Sound(d, S, A), NEW u, NEW path \in AllPaths, NEW w, Walk(d, u, path, w)
    PROVE  (\A l \in 0 .. Len(path) : w[l] \in S \cup {0}) /\ Ways(d, S, A, path, w)
<1> DEFINE L == {l \in Nat : l <= Len(path) => w[l] \in S \cup {0}}
<1>1. path \in Seq(Names) /\ Len(path) \in Nat /\ ROOT \in S
  BY PathIs DEF Sound, Ancestors
<1>2. 0 \in L
  BY <1>1 DEF Walk
<1>3. ASSUME NEW l \in 0 .. Len(path) - 1, w[l] \in S \cup {0}
      PROVE  /\ w[l + 1] \in S \cup {0}
             /\ w[l + 1] # 0 => w[l] \in S /\ Child(d, A, w[l], path[l + 1], w[l + 1])
  <2>1. path[l + 1] \in Names /\ w[l + 1] = Step(d, u, w[l], path[l + 1])
    BY <1>1 DEF Walk
  <2> QED
    BY <1>3, <2>1, StepIs
<1>4. ASSUME NEW l \in Nat, l \in L PROVE l + 1 \in L
  <2>1. CASE l + 1 <= Len(path)
    <3>1. l \in 0 .. Len(path) - 1 /\ w[l] \in S \cup {0}
      BY <1>1, <1>4, <2>1
    <3> QED
      BY <1>3, <3>1
  <2>2. CASE ~(l + 1 <= Len(path))
    BY <2>2
  <2> QED
    BY <2>1, <2>2
<1>5. Nat \subseteq L
  <2> HIDE DEF L
  <2> QED
    BY <1>2, <1>4, Walks!SetInduction
<1>6. \A l \in 0 .. Len(path) : w[l] \in S \cup {0}
  BY <1>1, <1>5
<1>7. Ways(d, S, A, path, w)
  <2> SUFFICES ASSUME NEW l \in 0 .. Len(path) - 1, w[l + 1] # 0
               PROVE  w[l] \in S /\ Child(d, A, w[l], path[l + 1], w[l + 1])
    BY DEF Ways
  <2>1. l \in 0 .. Len(path)
    BY <1>1
  <2> QED
    BY <1>3, <1>6, <2>1
<1> QED
  BY <1>6, <1>7

\* A path leads into S, or nowhere.
LEMMA ResolveIs ==
    ASSUME NEW d \in Disks, NEW S, NEW A, Sound(d, S, A), NEW u, NEW path \in AllPaths
    PROVE  ext2_resolve_path(d, u, path) \in S \cup {0}
<1>1. PICK w : Walk(d, u, path, w) /\ ext2_resolve_path(d, u, path) = w[Len(path)]
  BY WalkIs
<1>2. \A l \in 0 .. Len(path) : w[l] \in S \cup {0}
  BY <1>1, WayIs
<1>3. Len(path) \in 0 .. Len(path)
  BY PathIs
<1> QED
  BY <1>1, <1>2, <1>3

\* What a path leads to is the child of what its front leads to.
LEMMA ParentIs ==
    ASSUME NEW d \in Disks, NEW S, NEW A, Sound(d, S, A), NEW u, NEW path \in Paths,
           NEW n, n = ext2_resolve_path(d, u, path), n # 0,
           NEW p, p = ext2_resolve_path(d, u, Front(path))
    PROVE  p \in S /\ n \in S /\ Child(d, A, p, Last(path), n)
<1>0. path \in AllPaths
  BY DEF AllPaths
<1>1. PICK w : Walk(d, u, path, w) /\ n = w[Len(path)]
  BY <1>0, WalkIs
<1>2. PICK v : Walk(d, u, Front(path), v) /\ p = v[Len(Front(path))]
  BY FrontIs, WalkIs
<1>3. Len(path) \in Nat /\ Len(path) > 0
  BY <1>0, PathIs
<1>4. Len(Front(path)) = Len(path) - 1 /\ Last(path) = path[Len(path)]
      /\ \A i \in 1 .. Len(path) - 1 : Front(path)[i] = path[i]
  BY FrontIs
<1> DEFINE L == {l \in Nat : l <= Len(path) - 1 => v[l] = w[l]}
<1>5. 0 \in L
  BY <1>1, <1>2 DEF Walk
<1>6. ASSUME NEW l \in Nat, l \in L PROVE l + 1 \in L
  <2>1. CASE l + 1 <= Len(path) - 1
    <3>1. l \in 0 .. Len(path) - 1 /\ l \in 0 .. Len(Front(path)) - 1 /\ v[l] = w[l]
          /\ l + 1 \in 1 .. Len(path) - 1
      BY <1>3, <1>4, <1>6, <2>1
    <3>2. w[l + 1] = Step(d, u, w[l], path[l + 1])
      BY <1>1, <3>1 DEF Walk
    <3>3. v[l + 1] = Step(d, u, v[l], Front(path)[l + 1])
      BY <1>2, <3>1 DEF Walk
    <3> QED
      BY <1>4, <3>1, <3>2, <3>3
  <2>2. CASE ~(l + 1 <= Len(path) - 1)
    BY <2>2
  <2> QED
    BY <2>1, <2>2
<1>7. Nat \subseteq L
  <2> HIDE DEF L
  <2> QED
    BY <1>5, <1>6, Walks!SetInduction
<1>8. p = w[Len(path) - 1]
  BY <1>2, <1>3, <1>4, <1>7
<1>9. (\A l \in 0 .. Len(path) : w[l] \in S \cup {0}) /\ Ways(d, S, A, path, w)
  BY <1>0, <1>1, WayIs
<1> DEFINE k == Len(path) - 1
<1>10. k \in 0 .. Len(path) - 1 /\ k + 1 = Len(path) /\ Len(path) \in 0 .. Len(path)
  BY <1>3
<1> HIDE DEF k
<1>11. w[k] \in S /\ Child(d, A, w[k], path[k + 1], w[k + 1])
  BY <1>1, <1>9, <1>10 DEF Ways
<1>12. n \in S
  BY <1>1, <1>9, <1>10
<1> QED
  BY <1>1, <1>4, <1>8, <1>10, <1>11, <1>12 DEF k

-----------------------------------------------------------------------------
(* What the root leads to *)

Spread(c, seq, k, b) == b \subseteq c.S
SpreadTo(c, b, l) == More(c.d, b)
Spreads == INSTANCE SequenceLemmas WITH Body <- SpreadTo, Kept <- Spread
Grown(d, w) ==
    /\ w[0] = {ROOT} /\ Reached(d) = w[MaxDepth]
    /\ \A l \in 0 .. MaxDepth - 1 : w[l + 1] = More(d, w[l])

\* It grows level by level.
LEMMA ReachedIs == ASSUME NEW d PROVE \E w : Grown(d, w)
<1> DEFINE c == [d |-> d]
           n == MaxDepth
           seq == [k \in 1 .. n |-> k]
           w == Spreads!Recursive(c, {ROOT}, n)
<1>1. c.d = d
  OBVIOUS
<1>2. Reached(d) = Reached(c.d)
  BY <1>1
<1> HIDE DEF c
<1>3. Reached(c.d) = w[n]
  BY Zenon DEF Reached, SpreadTo, Spreads!Recursive
<1>4. n \in Nat
  BY BoundsAssumption DEF BoundsAssumption
<1> HIDE DEF w
<1>5. Spreads!Run(c, {ROOT}, seq, n, w)
  <2> HIDE DEF n, seq
  <2>1. seq = [k \in 1 .. n |-> k]
    BY DEF seq
  <2> QED
    BY <1>4, <2>1, Spreads!RecursionRun DEF w
<1>6. w[0] = {ROOT}
  BY <1>5 DEF Spreads!Run
<1>7. ASSUME NEW l \in 0 .. n - 1 PROVE w[l + 1] = More(d, w[l])
  <2>1. w[l + 1] = SpreadTo(c, w[l], seq[l + 1])
    BY <1>5 DEF Spreads!Run
  <2> QED
    BY <1>1, <2>1 DEF SpreadTo
<1> QED
  BY <1>2, <1>3, <1>6, <1>7 DEF Grown

\* A directory of S has its entries in S.
LEMMA InsideIs ==
    ASSUME NEW d \in Disks, NEW S, NEW A, Sound(d, S, A), NEW n \in S, d.node[n].kind = "dir"
    PROVE  Inside(d, n) \subseteq S
<1> SUFFICES ASSUME NEW x \in Inside(d, n) PROVE x \in S
  OBVIOUS
<1>1. PICK p \in Positions : x = EntryAt(d, d.node[n], p).inode /\ x # 0
  BY DEF Inside
<1>2. n \in Inodes /\ n \in DirsIn(d, S)
  BY DEF Sound, Ancestors, DirsIn
<1>3. EntryAt(d, d.node[n], p) = Place(d, n, p \div Slots, p % Slots)
  BY <1>1, <1>2, EntryIs
<1>4. p \div Slots \in 0 .. Direct - 1 /\ p % Slots \in 0 .. Slots - 1
  BY PositionIs
<1> DEFINE i == p \div Slots
           j == p % Slots
<1> HIDE DEF i, j
<1>5. i \in 0 .. Direct - 1 /\ j \in 0 .. Slots - 1 /\ x = Place(d, n, i, j).inode
  BY <1>1, <1>3, <1>4 DEF i, j
<1>6. Leads(Place(d, n, i, j), n, S, A)
  BY <1>1, <1>2, <1>5 DEF Sound, EntriesIn
<1> QED
  BY <1>5, <1>6 DEF Leads

\* The root leads into S only.
LEMMA ReachedIn ==
    ASSUME NEW d \in Disks, NEW S, NEW A, Sound(d, S, A)
    PROVE  Reached(d) \subseteq S
<1>1. PICK w : Grown(d, w)
  BY ReachedIs
<1> DEFINE L == {l \in Nat : l <= MaxDepth => w[l] \subseteq S}
<1>2. MaxDepth \in Nat /\ ROOT \in S
  BY BoundsAssumption DEF BoundsAssumption, Sound, Ancestors
<1>3. 0 \in L
  BY <1>1, <1>2 DEF Grown
<1>4. ASSUME NEW l \in Nat, l \in L PROVE l + 1 \in L
  <2>1. CASE l + 1 <= MaxDepth
    <3>1. l \in 0 .. MaxDepth - 1 /\ w[l] \subseteq S
      BY <1>2, <1>4, <2>1
    <3>2. w[l + 1] = More(d, w[l])
      BY <1>1, <3>1 DEF Grown
    <3>3. \A n \in {m \in w[l] : d.node[m].kind = "dir"} : Inside(d, n) \subseteq S
      BY <3>1, InsideIs
    <3>4. More(d, w[l]) \subseteq S
      BY <3>1, <3>3 DEF More
    <3> QED
      BY <3>2, <3>4
  <2>2. CASE ~(l + 1 <= MaxDepth)
    BY <2>2
  <2> QED
    BY <2>1, <2>2
<1>5. Nat \subseteq L
  <2> HIDE DEF L
  <2> QED
    BY <1>3, <1>4, Spreads!SetInduction
<1> QED
  BY <1>1, <1>2, <1>5 DEF Grown

\* The end of a way through directories is reached.
LEMMA ReachedWay ==
    ASSUME NEW e, NEW n \in 0 .. MaxDepth, NEW w, w[0] = ROOT,
           \A l \in 0 .. n - 1 : e.node[w[l]].kind = "dir" /\ w[l + 1] \in Inside(e, w[l])
    PROVE  w[n] \in Reached(e)
<1>1. PICK g : Grown(e, g)
  BY ReachedIs
<1>2. MaxDepth \in Nat /\ n \in Nat /\ n <= MaxDepth
  BY BoundsAssumption DEF BoundsAssumption
<1> DEFINE L == {l \in Nat : l <= MaxDepth => (l <= n => w[l] \in g[l]) /\ (l >= n => w[n] \in g[l])}
<1>3. 0 \in L
  BY <1>1, <1>2 DEF Grown
<1>4. ASSUME NEW l \in Nat, l \in L PROVE l + 1 \in L
  <2>1. CASE l + 1 <= MaxDepth
    <3>1. l \in 0 .. MaxDepth - 1 /\ (l <= n => w[l] \in g[l]) /\ (l >= n => w[n] \in g[l])
      BY <1>2, <1>4, <2>1
    <3>2. g[l + 1] = More(e, g[l])
      BY <1>1, <3>1 DEF Grown
    <3>3. g[l] \subseteq g[l + 1]
      BY <3>2 DEF More
    <3>4. CASE l + 1 <= n
      <4>1. l \in 0 .. n - 1 /\ w[l] \in g[l]
        BY <1>2, <3>1, <3>4
      <4>2. w[l + 1] \in Inside(e, w[l]) /\ e.node[w[l]].kind = "dir"
        BY <4>1
      <4>3. w[l + 1] \in g[l + 1]
        BY <3>2, <4>1, <4>2 DEF More
      <4>4. l + 1 >= n => l + 1 = n
        BY <1>2, <3>4
      <4> QED
        BY <4>3, <4>4
    <3>5. CASE ~(l + 1 <= n)
      <4>1. l >= n
        BY <1>2, <3>5
      <4> QED
        BY <3>1, <3>3, <3>5, <4>1
    <3> QED
      BY <3>4, <3>5
  <2>2. CASE ~(l + 1 <= MaxDepth)
    BY <2>2
  <2> QED
    BY <2>1, <2>2
<1>5. Nat \subseteq L
  <2> HIDE DEF L
  <2> QED
    BY <1>3, <1>4, Spreads!SetInduction
<1> QED
  BY <1>1, <1>2, <1>5 DEF Grown

\* What a directory has inside is in its inode and in the blocks.
LEMMA InsideSame ==
    ASSUME NEW d, NEW e, NEW n, e.data = d.data, e.node[n] = d.node[n]
    PROVE  Inside(e, n) = Inside(d, n)
<1>1. \A i : ext2_get_file_block(e, e.node[n], i) = ext2_get_file_block(d, d.node[n], i)
  BY DEF ext2_get_file_block
<1>2. \A i : BlockAt(e, e.node[n], i) = BlockAt(d, d.node[n], i)
  BY <1>1 DEF BlockAt
<1>3. \A p \in Positions : EntryAt(e, e.node[n], p) = EntryAt(d, d.node[n], p)
  BY <1>2 DEF EntryAt, EntryIn, Formatted
<1> QED
  BY <1>3 DEF Inside

\* An inode with a path is reached, also when only it has changed.
LEMMA StillReached ==
    ASSUME NEW d \in Disks, NEW S, NEW A, Sound(d, S, A), NEW u, NEW path \in Paths,
           NEW n, n = ext2_resolve_path(d, u, path), n # 0,
           NEW e, e.data = d.data, \A x \in Inodes : x # n => e.node[x] = d.node[x]
    PROVE  n \in Reached(e)
<1>0. path \in AllPaths
  BY DEF AllPaths
<1>1. PICK w : Walk(d, u, path, w) /\ n = w[Len(path)]
  BY <1>0, WalkIs
<1> DEFINE m == Len(path)
<1>2. m \in 0 .. MaxDepth /\ m \in Nat /\ m > 0
  BY <1>0, PathIs
<1>3. (\A l \in 0 .. m : w[l] \in S \cup {0}) /\ Ways(d, S, A, path, w)
  BY <1>0, <1>1, WayIs
<1>4. 0 \notin S /\ S \subseteq Inodes /\ \A x \in S : x \in A[x]
  BY UnitIs DEF Sound, Ancestors
<1>5. \A l \in 0 .. m - 1 : w[l + 1] # 0 => w[l] \in S /\ Child(d, A, w[l], path[l + 1], w[l + 1])
  BY <1>3 DEF Ways
<1> HIDE DEF m
<1>6. n = w[m]
  BY <1>1 DEF m
<1> DEFINE L == {k \in Nat : k <= m - 1 => w[(m - 1) - k] \in S /\ n \notin A[w[(m - 1) - k]]}
<1>7. 0 \in L
  <2>1. m - 1 \in 0 .. m - 1 /\ (m - 1) + 1 = m /\ (m - 1) - 0 = m - 1
    BY <1>2
  <2>2. w[m - 1] \in S /\ Child(d, A, w[m - 1], path[(m - 1) + 1], w[(m - 1) + 1])
    BY <1>5, <1>6, <2>1
  <2> QED
    BY <1>6, <2>1, <2>2 DEF Child
<1>8. ASSUME NEW k \in Nat, k \in L PROVE k + 1 \in L
  <2>1. CASE k + 1 <= m - 1
    <3> DEFINE l == (m - 1) - (k + 1)
    <3>1. l \in 0 .. m - 1 /\ l + 1 = (m - 1) - k /\ k <= m - 1
      BY <1>2, <1>8, <2>1
    <3>2. w[l + 1] \in S /\ n \notin A[w[l + 1]]
      BY <1>8, <3>1
    <3>3. w[l] \in S /\ Child(d, A, w[l], path[l + 1], w[l + 1])
      BY <1>4, <1>5, <3>1, <3>2
    <3>4. A[w[l + 1]] = A[w[l]] \cup {w[l + 1]}
      BY <3>3 DEF Child
    <3>5. w[l] \in S /\ n \notin A[w[l]]
      BY <3>2, <3>3, <3>4
    <3> QED
      BY <3>5
  <2>2. CASE ~(k + 1 <= m - 1)
    BY <2>2
  <2> QED
    BY <2>1, <2>2
<1>9. Nat \subseteq L
  <2> HIDE DEF L
  <2> QED
    BY <1>7, <1>8, Spreads!SetInduction
<1>10. ASSUME NEW l \in 0 .. m - 1 PROVE w[l] \in S /\ n \notin A[w[l]]
  <2> DEFINE k == (m - 1) - l
  <2>1. k \in Nat /\ k <= m - 1 /\ (m - 1) - k = l
    BY <1>2
  <2> HIDE DEF k
  <2> QED
    BY <1>9, <2>1
<1> HIDE DEF L
<1>11. ASSUME NEW l \in 0 .. m - 1
       PROVE  e.node[w[l]].kind = "dir" /\ w[l + 1] \in Inside(e, w[l])
  <2>1. w[l] \in S /\ w[l] # n
    BY <1>4, <1>10
  <2>2. e.node[w[l]] = d.node[w[l]]
    BY <1>4, <2>1
  <2>3. w[l + 1] # 0
    <3>1. l + 1 \in 0 .. m - 1 \/ l + 1 = m
      BY <1>2
    <3> QED
      BY <1>4, <1>6, <1>10, <3>1
  <2>4. Child(d, A, w[l], path[l + 1], w[l + 1])
    BY <1>5, <2>3
  <2>5. Inside(e, w[l]) = Inside(d, w[l])
    BY <2>2, InsideSame
  <2> QED
    BY <2>2, <2>4, <2>5 DEF Child
<1>12. w[0] = ROOT
  BY <1>1 DEF Walk
<1> QED
  BY <1>2, <1>6, <1>11, <1>12, ReachedWay

-----------------------------------------------------------------------------
(* What a sound set means *)

\* As many as they are mapped to, when no two are mapped to one.
LEMMA SameCount ==
    ASSUME NEW X, IsFiniteSet(X), NEW f, DOMAIN f = X, f = [x \in X |-> f[x]],
           \A x, y \in X : f[x] = f[y] => x = y
    PROVE  Cardinality(X) = Cardinality({f[x] : x \in X})
<1> DEFINE T == {f[x] : x \in X}
<1>1. f \in [X -> T]
  OBVIOUS
<1>2. \A t \in T : \E x \in X : f[x] = t
  OBVIOUS
<1> HIDE DEF T
<1>3. f \in Bijection(X, T)
  BY <1>1, <1>2, Fun_IsBij
<1>4. Cardinality(T) = Cardinality(X)
  BY <1>3, FS_Bijection DEF ExistsBijection
<1> QED
  BY <1>4 DEF T

\* The properties that NothingShared asks of the inodes that are reached.
Shares(d, S) ==
    /\ ~Unmarked(d, S)
    /\ Cardinality(Pointers(d, S)) = Cardinality(Named(d, S))
    /\ Cardinality(Links(d, S)) = Cardinality({EntryAt(d, d.node[x[1]], x[2]).inode : x \in Links(d, S)})

\* A sound set has them, and so has each part of it.
LEMMA SoundShares ==
    ASSUME NEW d \in Disks, NEW S, NEW A, Sound(d, S, A), NEW T, T \subseteq S
    PROVE  Shares(d, T)
<1>1. T \subseteq Inodes /\ IsFiniteSet(T)
  <2>1. T \subseteq Inodes /\ IsFiniteSet(Inodes)
    BY UnitsAssumption DEF Sound, Ancestors, UnitsAssumption
  <2> QED
    BY <2>1, FS_Subset
<1>2. ~Unmarked(d, T)
  <2>1. T \subseteq d.used["inode"]
    BY DEF Sound, MarkedIn
  <2>2. ASSUME NEW q \in Named(d, T) PROVE q \in d.used["block"]
    <3>1. PICK x \in Pointers(d, T) : q = Pointer(d, x[1], x[2])
      BY DEF Named
    <3>2. x[1] \in T /\ x[2] \in 0 .. Direct + 1 /\ q # 0
      BY <3>1 DEF Pointers
    <3> QED
      BY <3>1, <3>2 DEF Sound, MarkedIn
  <2> QED
    BY <2>1, <2>2 DEF Unmarked
<1>3. Cardinality(Pointers(d, T)) = Cardinality(Named(d, T))
  <2> DEFINE X == Pointers(d, T)
             f == [x \in X |-> Pointer(d, x[1], x[2])]
  <2>1. IsFiniteSet(X)
    <3>1. IsFiniteSet(0 .. Direct + 1)
      BY IndexIs, FS_Interval
    <3>2. IsFiniteSet(T \X (0 .. Direct + 1))
      BY <1>1, <3>1, FS_Product
    <3>3. X \in SUBSET (T \X (0 .. Direct + 1))
      BY DEF Pointers
    <3> HIDE DEF X
    <3> QED
      BY <3>2, <3>3, FS_Subset
  <2>2. ASSUME NEW x \in X, NEW y \in X, f[x] = f[y] PROVE x = y
    <3>1. x \in T \X (0 .. Direct + 1) /\ y \in T \X (0 .. Direct + 1)
          /\ Pointer(d, x[1], x[2]) # 0 /\ Pointer(d, x[1], x[2]) = Pointer(d, y[1], y[2])
      BY <2>2 DEF Pointers
    <3>2. x[1] = y[1] /\ x[2] = y[2]
      BY <3>1 DEF Sound, ApartIn
    <3> QED
      BY <3>1, <3>2
  <2>3. {f[x] : x \in X} = Named(d, T)
    BY DEF Named
  <2>4. f = [x \in X |-> f[x]] /\ DOMAIN f = X
    OBVIOUS
  <2> HIDE DEF f, X
  <2>5. Cardinality(X) = Cardinality({f[x] : x \in X})
    BY <2>1, <2>2, <2>4, SameCount
  <2> QED
    BY <2>3, <2>5 DEF X
<1>4. Cardinality(Links(d, T)) = Cardinality({EntryAt(d, d.node[x[1]], x[2]).inode : x \in Links(d, T)})
  <2> DEFINE X == Links(d, T)
             f == [x \in X |-> EntryAt(d, d.node[x[1]], x[2]).inode]
  <2>1. IsFiniteSet(X)
    <3>1. IsFiniteSet(Positions)
      <4>1. Direct * Slots \in Nat
        BY IndexIs
      <4> QED
        BY <4>1, FS_Interval DEF Positions
    <3>2. IsFiniteSet(T \X Positions)
      BY <1>1, <3>1, FS_Product
    <3>3. X \in SUBSET (T \X Positions)
      BY DEF Links
    <3> HIDE DEF X
    <3> QED
      BY <3>2, <3>3, FS_Subset
  <2>2. ASSUME NEW x \in X
        PROVE  /\ x[1] \in DirsIn(d, S) /\ x[2] \in Positions /\ x = <<x[1], x[2]>>
               /\ EntryAt(d, d.node[x[1]], x[2]).inode # 0 /\ EntryAt(d, d.node[x[1]], x[2]).name \in Names
               /\ EntryAt(d, d.node[x[1]], x[2]) = Place(d, x[1], x[2] \div Slots, x[2] % Slots)
    <3>1. x \in {n \in T : d.node[n].kind = "dir"} \X Positions
      BY DEF Links
    <3>2. EntryAt(d, d.node[x[1]], x[2]).inode # 0 /\ EntryAt(d, d.node[x[1]], x[2]).name \in Names
      BY DEF Links
    <3>3. x[1] \in DirsIn(d, S) /\ x[1] \in Inodes /\ x[2] \in Positions /\ x = <<x[1], x[2]>>
      BY <1>1, <3>1 DEF DirsIn
    <3>4. EntryAt(d, d.node[x[1]], x[2]) = Place(d, x[1], x[2] \div Slots, x[2] % Slots)
      BY <3>2, <3>3, EntryIs
    <3> QED
      BY <3>2, <3>3, <3>4
  <2>3. ASSUME NEW x \in X, NEW y \in X, f[x] = f[y] PROVE x = y
    <3> DEFINE i == x[2] \div Slots
               j == x[2] % Slots
               k == y[2] \div Slots
               l == y[2] % Slots
    <3>1. i \in 0 .. Direct - 1 /\ j \in 0 .. Slots - 1 /\ k \in 0 .. Direct - 1 /\ l \in 0 .. Slots - 1
      BY <2>2, PositionIs
    <3>2. x[2] = Slots * i + j /\ y[2] = Slots * k + l
      BY <2>2, PositionIs
    <3>3. /\ Place(d, x[1], i, j).inode # 0 /\ Place(d, x[1], i, j).inode = Place(d, y[1], k, l).inode
          /\ Place(d, x[1], i, j).name \in Names /\ Place(d, y[1], k, l).name \in Names
      BY <2>2, <2>3
    <3> HIDE DEF i, j, k, l
    <3>4. Links2(d, x[1], i, j, y[1], k, l)
      BY <3>3 DEF Links2
    <3>5. x[1] = y[1] /\ i = k /\ j = l
      BY <2>2, <3>1, <3>4 DEF Sound, OneLink
    <3>6. x[2] = y[2]
      BY <3>2, <3>5
    <3>7. x = <<x[1], x[2]>> /\ y = <<y[1], y[2]>>
      BY <2>2
    <3> QED
      BY <3>5, <3>6, <3>7, Zenon
  <2>4. {f[x] : x \in X} = {EntryAt(d, d.node[x[1]], x[2]).inode : x \in Links(d, T)}
    OBVIOUS
  <2>5. f = [x \in X |-> f[x]] /\ DOMAIN f = X
    OBVIOUS
  <2> HIDE DEF f, X
  <2>6. Cardinality(X) = Cardinality({f[x] : x \in X})
    BY <2>1, <2>3, <2>5, SameCount
  <2> QED
    BY <2>4, <2>6 DEF X
<1> QED
  BY <1>2, <1>3, <1>4 DEF Shares

\* What nothing leads to is forgotten: the disk keeps its type and its counts.
LEMMA ForgetIs ==
    ASSUME NEW d \in Disks
    PROVE  /\ Forget(d) \in Disks /\ Forget(d).used = d.used /\ Forget(d).sb = d.sb /\ Forget(d).bgd = d.bgd
           /\ \A n \in Inodes : Forget(d).node[n] = IF n \in Reached(d) THEN d.node[n] ELSE Node("none", 0)
           /\ \A b \in Blocks : Forget(d).data[b] = IF b \in Named(d, Reached(d)) THEN d.data[b] ELSE Zeroed
<1> DEFINE R == Reached(d)
           B == Named(d, R)
           node == [n \in Inodes |-> IF n \in R THEN d.node[n] ELSE Node("none", 0)]
           data == [b \in Blocks |-> IF b \in B THEN d.data[b] ELSE Zeroed]
<1>1. Forget(d) = [d EXCEPT !.node = node, !.data = data]
  BY DEF Forget, KeepReached, Keep
<1> HIDE DEF R, B
<1>2. Node("none", 0) \in Nodes
  <2>1. 0 \in Users /\ NoBlocks \in [0 .. Direct - 1 -> Blocks \cup {0}] /\ 0 \in 0 .. Direct + 1
    BY UsersAssumption, IndexIs DEF UsersAssumption, NoBlocks
  <2>2. FileMode \in SUBSET Rights
    BY DEF FileMode, Rights
  <2> QED
    BY <2>1, <2>2 DEF Node, Nodes
<1>3. Zeroed \in Contents
  BY DEF Contents
<1>4. node \in [Inodes -> Nodes]
  <2>1. \A n \in Inodes : d.node[n] \in Nodes
    BY DiskIs
  <2> QED
    BY <1>2, <2>1
<1>5. data \in [Blocks -> Contents]
  <2>1. \A b \in Blocks : d.data[b] \in Contents
    BY DiskIs
  <2> QED
    BY <1>3, <2>1
<1>6. /\ \A n \in Inodes : node[n] = IF n \in R THEN d.node[n] ELSE Node("none", 0)
      /\ \A b \in Blocks : data[b] = IF b \in B THEN d.data[b] ELSE Zeroed
  OBVIOUS
<1> HIDE DEF node, data
<1>7. /\ Forget(d) \in Disks /\ Forget(d).used = d.used /\ Forget(d).sb = d.sb /\ Forget(d).bgd = d.bgd
      /\ Forget(d).node = node /\ Forget(d).data = data
  BY <1>1, <1>4, <1>5 DEF Disks
<1> QED
  BY <1>6, <1>7 DEF R, B

\* It stays sound.
LEMMA ForgetSound ==
    ASSUME NEW d \in Disks, NEW S, NEW A, Sound(d, S, A)
    PROVE  Sound(Forget(d), S, A)
<1> DEFINE e == Forget(d)
           R == Reached(d)
           B == Named(d, R)
<1>1. e \in Disks /\ e.used = d.used
  BY ForgetIs
<1>2. R \subseteq S /\ S \subseteq Inodes
  BY ReachedIn DEF Sound, Ancestors
<1>3. /\ \A n \in Inodes : e.node[n] = IF n \in R THEN d.node[n] ELSE Node("none", 0)
      /\ \A b \in Blocks : e.data[b] = IF b \in B THEN d.data[b] ELSE Zeroed
  BY ForgetIs
<1>4. \A n \in R : \A i \in 0 .. Direct + 1 : Pointer(d, n, i) # 0 => Pointer(d, n, i) \in B
  <2> SUFFICES ASSUME NEW n \in R, NEW i \in 0 .. Direct + 1, Pointer(d, n, i) # 0
               PROVE  Pointer(d, n, i) \in B
    OBVIOUS
  <2>1. <<n, i>> \in Pointers(d, R)
    BY DEF Pointers
  <2> QED
    BY <2>1 DEF Named
<1> HIDE DEF e, R, B
<1>5. \A n \in Inodes : n \notin R =>
          /\ e.node[n].kind = "none" /\ e.node[n].indirect = 0
          /\ \A i \in 0 .. Direct - 1 : e.node[n].i_block[i] = 0
  <2> DEFINE none == Node("none", 0)
  <2>1. none.kind = "none" /\ none.indirect = 0 /\ none.i_block = NoBlocks
    BY DEF Node
  <2>2. \A i \in 0 .. Direct - 1 : NoBlocks[i] = 0
    BY DEF NoBlocks
  <2>3. \A n \in Inodes : n \notin R => e.node[n] = none
    BY <1>3
  <2> HIDE DEF none
  <2> QED
    BY <2>1, <2>2, <2>3
<1>6. \A n \in R : e.node[n] = d.node[n]
  BY <1>2, <1>3
<1>7. ASSUME NEW n \in R, NEW i \in 0 .. Direct - 1, d.node[n].i_block[i] # 0
      PROVE  d.node[n].i_block[i] \in Blocks /\ e.data[d.node[n].i_block[i]] = d.data[d.node[n].i_block[i]]
  <2>1. Pointer(d, n, i) = d.node[n].i_block[i] /\ d.node[n].i_block[i] \in Blocks \cup {0}
    BY <1>2, PointerIs, DiskIs, ZenonT(30)
  <2>2. d.node[n].i_block[i] \in B
    BY <1>4, <1>7, <2>1, IndexIs
  <2> QED
    BY <1>3, <1>7, <2>1, <2>2
<1>8. ASSUME NEW n \in R, d.node[n].indirect # 0
      PROVE  e.data[d.node[n].indirect] = d.data[d.node[n].indirect]
  <2>1. Pointer(d, n, Direct) = d.node[n].indirect /\ d.node[n].indirect \in Blocks \cup {0}
    BY <1>2, PointerIs, DiskIs
  <2>2. d.node[n].indirect \in B
    BY <1>4, <1>8, <2>1, IndexIs
  <2> QED
    BY <1>3, <1>8, <2>1, <2>2
<1>9. IndirectIn(e, S)
  <2> SUFFICES ASSUME NEW n \in S, e.node[n].indirect # 0
               PROVE  e.data[e.node[n].indirect] \in [kind : {"indirect"}, to : Blocks]
    BY DEF IndirectIn
  <2>1. n \in R
    BY <1>2, <1>5
  <2> QED
    BY <1>2, <1>6, <1>8, <2>1 DEF Sound, IndirectIn
<1>10. ASSUME NEW n \in S, NEW i \in 0 .. Direct + 1, Pointer(e, n, i) # 0
       PROVE  Pointer(e, n, i) = Pointer(d, n, i) /\ Pointer(e, n, i) \in e.used["block"]
  <2>1. n \in R
    <3>1. ASSUME n \notin R PROVE Pointer(e, n, i) = 0
      BY <1>1, <1>2, <1>5, <3>1, PointerIs, IndexIs
    <3> QED
      BY <1>10, <3>1
  <2>2. Pointer(e, n, i) = Pointer(d, n, i)
    <3>1. CASE i \in 0 .. Direct - 1
      BY <1>1, <1>2, <1>6, <2>1, <3>1, PointerIs
    <3>2. CASE i = Direct
      BY <1>1, <1>2, <1>6, <2>1, <3>2, PointerIs
    <3>3. CASE i = Direct + 1
      <4>1. e.node[n].indirect = d.node[n].indirect
        BY <1>6, <2>1
      <4>2. CASE d.node[n].indirect = 0
        BY <1>1, <1>2, <3>3, <4>1, <4>2, PointerIs
      <4>3. CASE d.node[n].indirect # 0
        BY <1>1, <1>2, <1>8, <2>1, <3>3, <4>1, <4>3, PointerIs
      <4> QED
        BY <4>2, <4>3
    <3> QED
      BY <3>1, <3>2, <3>3, IndexIs
  <2>3. Pointer(d, n, i) \in d.used["block"] \cup {0}
    BY DEF Sound, MarkedIn
  <2> QED
    BY <1>1, <1>10, <2>2, <2>3
<1>11. ASSUME NEW n \in DirsIn(e, S), NEW i \in 0 .. Direct - 1, NEW j \in 0 .. Slots - 1
       PROVE  /\ n \in DirsIn(d, S)
              /\ Place(e, n, i, j).inode # 0 => Place(e, n, i, j) = Place(d, n, i, j)
  <2>1. n \in R /\ n \in S
    BY <1>2, <1>5 DEF DirsIn
  <2>2. n \in DirsIn(d, S) /\ e.node[n] = d.node[n]
    BY <1>6, <2>1 DEF DirsIn
  <2>3. ASSUME Place(e, n, i, j).inode # 0 PROVE Place(e, n, i, j) = Place(d, n, i, j)
    <3>1. d.node[n].i_block[i] # 0
      <4>1. n \in Inodes
        BY <1>2, <2>1
      <4>2. e.node[n].i_block[i] \in Blocks
        BY <1>1, <2>3, <4>1, PlaceIs
      <4> QED
        BY <2>2, <4>2, UnitIs
    <3>2. e.data[d.node[n].i_block[i]] = d.data[d.node[n].i_block[i]]
      BY <1>7, <2>1, <3>1
    <3> QED
      BY <2>2, <3>2 DEF Place, EntryIn, Formatted
  <2> QED
    BY <2>2, <2>3
<1>12. Fewer(d, e, S)
  <2>1. \A n \in DirsIn(e, S) : n \in DirsIn(d, S)
    BY <1>11, IndexIs
  <2> QED
    BY <1>10, <1>11, <2>1 DEF Fewer
<1>13. \A n \in DirsIn(e, S) : \A i \in 0 .. Direct - 1 : \A j \in 0 .. Slots - 1 :
           Place(e, n, i, j).inode # 0 => Place(e, n, i, j).inode \in S
  BY <1>11 DEF Sound, EntriesIn, Leads
<1>14. S \subseteq e.used["inode"] /\ Ancestors(S, A)
  BY <1>1 DEF Sound, MarkedIn
<1>15. Sound(e, S, A)
  BY <1>9, <1>12, <1>13, <1>14, SoundLess
<1> QED
  BY <1>15 DEF e

-----------------------------------------------------------------------------
(* Volumes *)

\* A disk is put in the place of another.
LEMMA PutIs ==
    ASSUME NEW s \in Volumes, NEW d \in Disks
    PROVE  /\ Put(s, d) \in Volumes /\ Put(s, d).d = d /\ Put(s, d).via = s.via \cup {s.d}
           /\ Put(s, d).sb = s.sb /\ Put(s, d).bgd = s.bgd
  BY DEF Put, Volumes

\* What is written next leaves the volume steady.
LEMMA PutSteady ==
    ASSUME NEW n, NEW V, NEW s, Steady(s, n, V), s.d \in V, NEW d \in Disks,
           d.used = s.d.used, d.sb = s.d.sb, d.bgd = s.d.bgd
    PROVE  Steady(Put(s, d), n, V) /\ Put(s, d).d = d
<1>1. s \in Volumes
  BY DEF Steady
<1>2. /\ Put(s, d) \in Volumes /\ Put(s, d).d = d /\ Put(s, d).via = s.via \cup {s.d}
      /\ Put(s, d).sb = s.sb /\ Put(s, d).bgd = s.bgd
  BY <1>1, PutIs
<1>3. Near(d, n)
  BY DEF Steady, Near, Off
<1> QED
  BY <1>2, <1>3 DEF Steady

\* A disk with another count.
PutSb(d, count) == [d EXCEPT !.sb = count]
PutBgd(d, count) == [d EXCEPT !.bgd = count]
\* Nothing else of the disk changes.
LEMMA CountPut ==
    ASSUME NEW d \in Disks, NEW count \in Counts
    PROVE  /\ PutSb(d, count) \in Disks /\ PutSb(d, count).sb = count /\ PutSb(d, count).bgd = d.bgd
           /\ PutSb(d, count).used = d.used /\ PutSb(d, count).node = d.node /\ PutSb(d, count).data = d.data
           /\ PutBgd(d, count) \in Disks /\ PutBgd(d, count).bgd = count /\ PutBgd(d, count).sb = d.sb
           /\ PutBgd(d, count).used = d.used /\ PutBgd(d, count).node = d.node
           /\ PutBgd(d, count).data = d.data
  BY DEF Disks, PutSb, PutBgd

\* The disk x has the bitmaps used, and what else d has.
Marked(x, d, used) == x \in Disks /\ x.used = used /\ x.node = d.node /\ x.data = d.data

\* A disk with other bitmaps.
WithBitmap(used, k, U) == [used EXCEPT ![k] = U]
WithUsed(d, k, U) == [d EXCEPT !.used[k] = U]
\* Nothing else of the disk, and no other bitmap, changes.
LEMMA BitmapPut ==
    ASSUME NEW d \in Disks, NEW k \in Kinds, NEW U \in SUBSET Units(k)
    PROVE  /\ Marked(WithUsed(d, k, U), d, WithBitmap(d.used, k, U))
           /\ WithUsed(d, k, U).sb = d.sb /\ WithUsed(d, k, U).bgd = d.bgd
           /\ WithBitmap(d.used, k, U) \in Bitmaps /\ WithBitmap(d.used, k, U)[k] = U
           /\ \A j \in Kinds : j # k => WithBitmap(d.used, k, U)[j] = d.used[j]
<1> DEFINE used == WithBitmap(d.used, k, U)
           e == WithUsed(d, k, U)
<1>1. d.used \in Bitmaps
  BY DEF Disks
<1>2. used \in Bitmaps /\ used[k] = U /\ \A j \in Kinds : j # k => used[j] = d.used[j]
  <2>1. U \in SUBSET (Blocks \cup Inodes)
    BY DEF Units
  <2>2. used \in [Kinds -> SUBSET (Blocks \cup Inodes)]
    BY <1>1, <2>1 DEF Bitmaps, WithBitmap
  <2>3. used[k] = U /\ \A j \in Kinds : j # k => used[j] = d.used[j]
    BY <1>1 DEF Bitmaps, WithBitmap
  <2>4. \A j \in Kinds : used[j] \subseteq Units(j)
    <3>1. \A j \in Kinds : d.used[j] \subseteq Units(j)
      BY <1>1 DEF Bitmaps
    <3> QED
      BY <2>3, <3>1
  <2> QED
    BY <2>2, <2>4, <2>3 DEF Bitmaps
<1>3. e = [d EXCEPT !.used = used]
  BY Zenon DEF WithUsed, WithBitmap
<1> HIDE DEF used
<1>4. Marked(e, d, used) /\ e.sb = d.sb /\ e.bgd = d.bgd
  BY <1>2, <1>3 DEF Disks, Marked
<1> QED
  BY <1>2, <1>4 DEF used

\* Counts with one of them changed.
Counting(c, k, by) == [c EXCEPT ![k] = @ + by]
\* The other count stays.
LEMMA CountIs ==
    ASSUME NEW c \in Counts, NEW k \in Kinds, NEW by, c[k] + by \in Nat
    PROVE  /\ Counting(c, k, by) \in Counts
           /\ \A j \in Kinds : Counting(c, k, by)[j] = IF j = k THEN c[k] + by ELSE c[j]
  BY DEF Counts, Counting

\* How many units are free.
LEMMA OffIs ==
    ASSUME NEW d \in Disks, NEW k \in Kinds
    PROVE  Off(d, k) \in Nat /\ IsFiniteSet(Units(k) \ d.used[k])
<1>1. IsFiniteSet(Units(k))
  BY UnitsAssumption DEF UnitsAssumption, Units, Kinds
<1>2. IsFiniteSet(Units(k) \ d.used[k])
  BY <1>1, FS_Difference
<1> QED
  BY <1>2, FS_CardinalityType DEF Off

\* A bitmap changes by one unit, then the counts in memory, then those of the
\* group descriptor and those of the superblock: the volume is steady again.
LEMMA Recount ==
    ASSUME NEW n \in Nat, NEW V, NEW s, Steady(s, n, V), s.d \in V,
           NEW k \in Kinds, NEW U \in SUBSET Units(k), NEW by \in {-1, 1},
           s.sb[k] + by \in Nat, s.bgd[k] + by \in Nat,
           Cardinality(Units(k) \ U) = Off(s.d, k) + by,
           \A x : Marked(x, s.d, WithBitmap(s.d.used, k, U)) /\ Near(x, n + 1) => x \in V,
           NEW r, r = Count(Put(s, WithUsed(s.d, k, U)), k, by)
    PROVE  Steady(r, n, V) /\ Marked(r.d, s.d, WithBitmap(s.d.used, k, U))
<1> DEFINE used == WithBitmap(s.d.used, k, U)
           d1 == WithUsed(s.d, k, U)
           s1 == Put(s, d1)
           sb2 == Counting(s.sb, k, by)
           bgd2 == Counting(s.bgd, k, by)
           s2 == [s1 EXCEPT !.sb[k] = @ + by, !.bgd[k] = @ + by]
           d3 == PutBgd(d1, bgd2)
           d4 == PutSb(d3, sb2)
           s3 == Put(s2, d3)
           s4 == Put(s3, d4)
<1>1. s \in Volumes /\ s.d \in Disks /\ s.sb \in Counts /\ s.bgd \in Counts
      /\ s.sb = s.d.sb /\ s.bgd = s.d.bgd /\ Near(s.d, n) /\ s.via \subseteq V
  BY DEF Steady, Volumes
<1>25. used = WithBitmap(s.d.used, k, U) /\ d1 = WithUsed(s.d, k, U)
  OBVIOUS
<1>26. sb2 = Counting(s.sb, k, by) /\ bgd2 = Counting(s.bgd, k, by)
  OBVIOUS
<1>20. r = Count(s1, k, by)
  OBVIOUS
<1>27. s2 = [s1 EXCEPT !.sb[k] = @ + by, !.bgd[k] = @ + by]
  OBVIOUS
<1>28. d3 = PutBgd(d1, bgd2) /\ d4 = PutSb(d3, sb2)
  OBVIOUS
<1> HIDE DEF used, d1, sb2, bgd2
<1>2. /\ Marked(d1, s.d, used) /\ d1.sb = s.sb /\ d1.bgd = s.bgd
      /\ used[k] = U /\ \A j \in Kinds : j # k => used[j] = s.d.used[j]
  BY <1>1, <1>25, BitmapPut
<1>3. sb2 \in Counts /\ \A j \in Kinds : sb2[j] = IF j = k THEN s.sb[k] + by ELSE s.sb[j]
  BY <1>1, <1>26, CountIs
<1>4. bgd2 \in Counts /\ \A j \in Kinds : bgd2[j] = IF j = k THEN s.bgd[k] + by ELSE s.bgd[j]
  BY <1>1, <1>26, CountIs
<1>5. /\ s1 \in Volumes /\ s1.d = d1 /\ s1.via = s.via \cup {s.d} /\ s1.sb = s.sb /\ s1.bgd = s.bgd
      /\ d1 \in Disks
  BY <1>1, <1>2, PutIs DEF Marked
<1>6. s2 = [s1 EXCEPT !.sb = sb2, !.bgd = bgd2]
  BY <1>5, <1>26, Zenon DEF Counting
<1>21. r = ext2_write_superblock(ext2_write_bgd(s2))
  BY <1>20 DEF Count
<1> HIDE DEF s1, s2
<1>7. s2 \in Volumes /\ s2.d = d1 /\ s2.via = s1.via /\ s2.sb = sb2 /\ s2.bgd = bgd2
  BY <1>3, <1>4, <1>5, <1>6 DEF Volumes
<1>22. ext2_write_bgd(s2) = s3
  BY <1>7 DEF ext2_write_bgd, PutBgd
<1> HIDE DEF d3, d4
<1>8. d3 \in Disks /\ d3.used = d1.used /\ d3.node = d1.node /\ d3.data = d1.data
      /\ d3.sb = d1.sb /\ d3.bgd = bgd2
  BY <1>4, <1>5, <1>28, CountPut
<1>9. d4 \in Disks /\ d4.used = d3.used /\ d4.node = d3.node /\ d4.data = d3.data
      /\ d4.sb = sb2 /\ d4.bgd = d3.bgd
  BY <1>3, <1>8, <1>28, CountPut
<1>10. s3 \in Volumes /\ s3.d = d3 /\ s3.via = s2.via \cup {s2.d} /\ s3.sb = s2.sb /\ s3.bgd = s2.bgd
  BY <1>7, <1>8, PutIs
<1>23. ext2_write_superblock(s3) = s4
  BY <1>7, <1>10, <1>28 DEF ext2_write_superblock, PutSb
<1> HIDE DEF s3
<1>11. s4 \in Volumes /\ s4.d = d4 /\ s4.via = s3.via \cup {s3.d} /\ s4.sb = s3.sb /\ s4.bgd = s3.bgd
  BY <1>9, <1>10, PutIs
<1>24. r = s4
  BY <1>21, <1>22, <1>23
<1> HIDE DEF s4
<1>12. Marked(d3, s.d, used) /\ Marked(d4, s.d, used)
  BY <1>2, <1>8, <1>9 DEF Marked
<1>13. \A x \in Disks : x.used = used =>
           Off(x, k) = Off(s.d, k) + by /\ \A j \in Kinds : j # k => Off(x, j) = Off(s.d, j)
  BY <1>2 DEF Off
<1>14. \A j \in Kinds : Off(s.d, j) \in Nat /\ s.sb[j] \in Nat /\ s.bgd[j] \in Nat
                        /\ s.sb[j] - Off(s.d, j) \in -n .. n /\ s.bgd[j] - Off(s.d, j) \in -n .. n
  BY <1>1, OffIs DEF Counts, Near
<1>15. by = 1 \/ by = -1
  OBVIOUS
<1>16. Near(d1, n + 1) /\ Near(d3, n + 1) /\ Near(d4, n)
  <2> SUFFICES ASSUME NEW j \in Kinds
               PROVE  /\ d1.sb[j] - Off(d1, j) \in -(n + 1) .. (n + 1) /\ d1.bgd[j] - Off(d1, j) \in -(n + 1) .. (n + 1)
                      /\ d3.sb[j] - Off(d3, j) \in -(n + 1) .. (n + 1) /\ d3.bgd[j] - Off(d3, j) \in -(n + 1) .. (n + 1)
                      /\ d4.sb[j] - Off(d4, j) \in -n .. n /\ d4.bgd[j] - Off(d4, j) \in -n .. n
    BY DEF Near
  <2>1. d1.sb[j] = s.sb[j] /\ d1.bgd[j] = s.bgd[j] /\ d3.sb[j] = s.sb[j]
    BY <1>2, <1>8
  <2>2. d3.bgd[j] = (IF j = k THEN s.bgd[k] + by ELSE s.bgd[j]) /\ d4.bgd[j] = d3.bgd[j]
        /\ d4.sb[j] = (IF j = k THEN s.sb[k] + by ELSE s.sb[j])
    BY <1>3, <1>4, <1>8, <1>9
  <2>3. d1 \in Disks /\ d3 \in Disks /\ d4 \in Disks /\ d1.used = used /\ d3.used = used /\ d4.used = used
    BY <1>2, <1>12 DEF Marked
  <2>4. CASE j = k
    <3>1. Off(d1, j) = Off(s.d, j) + by /\ Off(d3, j) = Off(s.d, j) + by /\ Off(d4, j) = Off(s.d, j) + by
      BY <1>13, <2>3, <2>4
    <3>2. d3.bgd[j] = s.bgd[j] + by /\ d4.bgd[j] = s.bgd[j] + by /\ d4.sb[j] = s.sb[j] + by
      BY <2>2, <2>4
    <3> QED
      BY <1>14, <1>15, <2>1, <3>1, <3>2
  <2>5. CASE j # k
    <3>1. Off(d1, j) = Off(s.d, j) /\ Off(d3, j) = Off(s.d, j) /\ Off(d4, j) = Off(s.d, j)
      BY <1>13, <2>3, <2>5
    <3>2. d3.bgd[j] = s.bgd[j] /\ d4.bgd[j] = s.bgd[j] /\ d4.sb[j] = s.sb[j]
      BY <2>2, <2>5
    <3> QED
      BY <1>14, <2>1, <3>1, <3>2
  <2> QED
    BY <2>4, <2>5
<1>17. d1 \in V /\ d3 \in V
  BY <1>2, <1>12, <1>16, <1>25
<1>18. r.via \subseteq V
  BY <1>1, <1>5, <1>7, <1>10, <1>11, <1>17, <1>24
<1>19. Steady(r, n, V)
  BY <1>7, <1>8, <1>9, <1>10, <1>11, <1>16, <1>18, <1>24 DEF Steady
<1> QED
  BY <1>11, <1>12, <1>19, <1>24, <1>25

-----------------------------------------------------------------------------
(* Allocating and freeing *)

\* A unit is given back.
LEMMA FreeIs ==
    ASSUME NEW n \in Nat, NEW V, NEW s, Steady(s, n, V), s.d \in V,
           NEW k \in Kinds, NEW unit \in Units(k), unit \in s.d.used[k],
           \A x : Marked(x, s.d, WithBitmap(s.d.used, k, s.d.used[k] \ {unit})) /\ Near(x, n + 1) => x \in V
    PROVE  /\ Steady(ext2_free(s, k, unit), n, V)
           /\ Marked(ext2_free(s, k, unit).d, s.d, WithBitmap(s.d.used, k, s.d.used[k] \ {unit}))
<1> DEFINE U == s.d.used[k] \ {unit}
           r == Count(Put(s, WithUsed(s.d, k, U)), k, 1)
<1>1. s.d \in Disks /\ s.sb \in Counts /\ s.bgd \in Counts /\ s.d.used \in Bitmaps
  BY DEF Steady, Volumes, Disks
<1>2. s.sb[k] \in Nat /\ s.bgd[k] \in Nat /\ s.d.used[k] \subseteq Units(k)
  BY <1>1 DEF Counts, Bitmaps
<1>3. s.sb[k] + 1 \in Nat /\ s.bgd[k] + 1 \in Nat /\ U \in SUBSET Units(k) /\ 1 \in {-1, 1}
  BY <1>2
<1>4. Cardinality(Units(k) \ U) = Off(s.d, k) + 1
  <2>1. Units(k) \ U = (Units(k) \ s.d.used[k]) \cup {unit}
    BY <1>2
  <2>2. unit \notin Units(k) \ s.d.used[k] /\ IsFiniteSet(Units(k) \ s.d.used[k])
    BY <1>1, OffIs
  <2> QED
    BY <2>1, <2>2, FS_AddElement DEF Off
<1>5. ext2_free(s, k, unit) = r
  BY Zenon DEF ext2_free, WithUsed
<1>6. \A x : Marked(x, s.d, WithBitmap(s.d.used, k, U)) /\ Near(x, n + 1) => x \in V
  OBVIOUS
<1> HIDE DEF U
<1>7. Steady(r, n, V) /\ Marked(r.d, s.d, WithBitmap(s.d.used, k, U))
  BY <1>3, <1>4, <1>6, Recount
<1> QED
  BY <1>5, <1>7 DEF U

\* A unit is taken, or there is none.
Takes(a, s, k) ==
    \/ a.unit = 0 /\ a.s = s
    \/ /\ a.unit \in Units(k) /\ a.unit \notin s.d.used[k]
       /\ Marked(a.s.d, s.d, WithBitmap(s.d.used, k, s.d.used[k] \cup {a.unit}))

\* ext2_allocate_block and ext2_allocate_inode: the unit was free, and is marked
\* before the counts change.
LEMMA AllocateIs ==
    ASSUME NEW n \in Nat, NEW V, NEW s, Steady(s, n, V), s.d \in V, NEW k \in Kinds,
           \A x : \A unit \in Units(k) :
               Marked(x, s.d, WithBitmap(s.d.used, k, s.d.used[k] \cup {unit})) /\ Near(x, n + 1) => x \in V
    PROVE  Steady(ext2_allocate(s, k).s, n, V) /\ Takes(ext2_allocate(s, k), s, k)
<1> DEFINE free == Units(k) \ s.d.used[k]
           unit == Min(free)
           U == s.d.used[k] \cup {unit}
           r == Count(Put(s, WithUsed(s.d, k, U)), k, -1)
<1>1. s.d \in Disks /\ s.sb \in Counts /\ s.bgd \in Counts /\ s.d.used \in Bitmaps
  BY DEF Steady, Volumes, Disks
<1>2. s.sb[k] \in Nat /\ s.bgd[k] \in Nat /\ s.d.used[k] \subseteq Units(k)
  BY <1>1 DEF Counts, Bitmaps
<1>3. CASE s.sb[k] = 0 \/ s.bgd[k] = 0 \/ free = {}
  <2>1. ext2_allocate(s, k) = [s |-> s, unit |-> 0]
    BY <1>3 DEF ext2_allocate, NoUnit
  <2> QED
    BY <2>1 DEF Takes
<1>4. CASE ~(s.sb[k] = 0 \/ s.bgd[k] = 0 \/ free = {})
  <2>1. free \in SUBSET Nat
    BY UnitIs DEF Units
  <2>2. unit \in Units(k) /\ unit \notin s.d.used[k]
    <3>1. unit \in free
      BY <1>4, <2>1, MinIn
    <3> QED
      BY <3>1
  <2>3. ext2_allocate(s, k) = [s |-> r, unit |-> unit]
    BY <1>4, Zenon DEF ext2_allocate, Mark, WithUsed
  <2> HIDE DEF unit
  <2>4. \A x : Marked(x, s.d, WithBitmap(s.d.used, k, U)) /\ Near(x, n + 1) => x \in V
    BY <2>2
  <2>5. s.sb[k] + -1 \in Nat /\ s.bgd[k] + -1 \in Nat /\ U \in SUBSET Units(k) /\ -1 \in {-1, 1}
    BY <1>2, <1>4, <2>2
  <2>6. Cardinality(Units(k) \ U) = Off(s.d, k) + -1
    <3>1. Units(k) \ U = (Units(k) \ s.d.used[k]) \ {unit}
      OBVIOUS
    <3>2. unit \in Units(k) \ s.d.used[k] /\ IsFiniteSet(Units(k) \ s.d.used[k])
      BY <1>1, <2>2, OffIs
    <3>3. Cardinality((Units(k) \ s.d.used[k]) \ {unit}) = Cardinality(Units(k) \ s.d.used[k]) - 1
      BY <3>2, FS_RemoveElement
    <3>4. Off(s.d, k) \in Nat
      BY <1>1, OffIs
    <3> QED
      BY <3>1, <3>3, <3>4 DEF Off
  <2>7. U = s.d.used[k] \cup {unit}
    OBVIOUS
  <2> HIDE DEF U
  <2>8. Steady(r, n, V) /\ Marked(r.d, s.d, WithBitmap(s.d.used, k, U))
    BY <2>4, <2>5, <2>6, Recount
  <2> HIDE DEF r
  <2> QED
    BY <2>2, <2>3, <2>7, <2>8 DEF Takes
<1> QED
  BY <1>3, <1>4

\* What bitmaps have when one has changed.
LEMMA BitmapIs ==
    ASSUME NEW d \in Disks, NEW k \in Kinds, NEW U \in SUBSET Units(k)
    PROVE  /\ WithBitmap(d.used, k, U)[k] = U
           /\ \A j \in Kinds : j # k => WithBitmap(d.used, k, U)[j] = d.used[j]
  BY BitmapPut

\* What is sound stays so when the bitmaps change and what is in use stays marked.
LEMMA SoundMarked ==
    ASSUME NEW d, NEW e, NEW S, NEW A, Sound(d, S, A), e.node = d.node, e.data = d.data, MarkedIn(e, S)
    PROVE  Sound(e, S, A)
<1>1. \A n, i : Pointer(e, n, i) = Pointer(d, n, i)
  BY DEF Pointer, ext2_get_file_block
<1>2. \A n, i, j : Place(e, n, i, j) = Place(d, n, i, j)
  BY DEF Place, EntryIn, Formatted
<1>3. DirsIn(e, S) = DirsIn(d, S)
  BY DEF DirsIn
<1>4. ApartIn(e, S)
  BY <1>1 DEF Sound, ApartIn
<1>5. IndirectIn(e, S)
  BY DEF Sound, IndirectIn
<1>6. EntriesIn(e, S, A)
  BY <1>2, <1>3 DEF Sound, EntriesIn
<1>7. OneLink(e, S)
  BY <1>2, <1>3 DEF Sound, OneLink, Links2
<1> QED
  BY <1>4, <1>5, <1>6, <1>7 DEF Sound

\* Nothing in S is unit, or points to it.
Spare(d, S, k, unit) == IF k = "inode" THEN unit \notin S ELSE Unpointed(d, S, unit)

\* Bitmaps that change by a spare unit leave a set sound.
LEMMA SoundSpare ==
    ASSUME NEW d \in Disks, NEW S, NEW A, Sound(d, S, A), NEW k \in Kinds, NEW U \in SUBSET Units(k),
           NEW x, Marked(x, d, WithBitmap(d.used, k, U)),
           d.used[k] \subseteq U \/ \E unit : U = d.used[k] \ {unit} /\ Spare(d, S, k, unit)
    PROVE  Sound(x, S, A)
<1>1. x.used[k] = U /\ (\A j \in Kinds : j # k => x.used[j] = d.used[j]) /\ x.node = d.node /\ x.data = d.data
  <2>1. /\ WithBitmap(d.used, k, U)[k] = U
        /\ \A j \in Kinds : j # k => WithBitmap(d.used, k, U)[j] = d.used[j]
    BY BitmapIs
  <2> QED
    BY <2>1 DEF Marked
<1>2. \A m, i : Pointer(x, m, i) = Pointer(d, m, i)
  BY <1>1 DEF Pointer, ext2_get_file_block
<1>3. "inode" \in Kinds /\ "block" \in Kinds /\ (k = "inode" \/ k = "block")
  BY DEF Kinds
<1>4. S \subseteq d.used["inode"]
      /\ \A m \in S : \A i \in 0 .. Direct + 1 : Pointer(d, m, i) \in d.used["block"] \cup {0}
  BY DEF Sound, MarkedIn
<1>5. S \subseteq x.used["inode"]
  <2>1. CASE k = "inode"
    BY <1>1, <1>4, <2>1 DEF Spare
  <2>2. CASE k # "inode"
    BY <1>1, <1>3, <1>4, <2>2
  <2> QED
    BY <2>1, <2>2
<1>6. \A m \in S : \A i \in 0 .. Direct + 1 : Pointer(x, m, i) \in x.used["block"] \cup {0}
  <2> SUFFICES ASSUME NEW m \in S, NEW i \in 0 .. Direct + 1, Pointer(d, m, i) # 0
               PROVE  Pointer(d, m, i) \in x.used["block"]
    BY <1>2
  <2>0. Pointer(d, m, i) \in d.used["block"]
    BY <1>4
  <2>1. CASE k = "block"
    <3>1. CASE d.used[k] \subseteq U
      BY <1>1, <2>0, <2>1, <3>1
    <3>2. ASSUME NEW unit, U = d.used[k] \ {unit}, Spare(d, S, k, unit) PROVE Pointer(d, m, i) \in x.used["block"]
      <4>1. Pointer(d, m, i) # unit
        BY <2>1, <3>2 DEF Spare, Unpointed
      <4> QED
        BY <1>1, <2>0, <2>1, <3>2, <4>1
    <3> QED
      BY <3>1, <3>2
  <2>2. CASE k # "block"
    BY <1>1, <1>3, <2>0, <2>2
  <2> QED
    BY <2>1, <2>2
<1> QED
  BY <1>1, <1>5, <1>6, SoundMarked DEF MarkedIn

\* A volume between two operations of a call, with a sound set.
Ready(s, n, S, A) == Steady(s, n, Halts(n)) /\ Sound(s.d, S, A)
\* Such a volume may be stopped in.
LEMMA ReadyIs ==
    ASSUME NEW n \in Nat, NEW s, NEW S, NEW A, Ready(s, n, S, A)
    PROVE  /\ Steady(s, n, Halts(n)) /\ Sound(s.d, S, A) /\ s.d \in Halts(n) /\ s \in Volumes
           /\ s.d \in Disks /\ s.d.used \in Bitmaps /\ s.d.sb = s.sb /\ s.d.bgd = s.bgd
<1>1. s.d \in Disks /\ Near(s.d, n) /\ s.d.used \in Bitmaps
  BY DEF Ready, Steady, Volumes, Disks
<1>2. \A k \in Kinds : Off(s.d, k) \in Nat /\ s.d.sb[k] \in Nat /\ s.d.bgd[k] \in Nat
  BY <1>1, OffIs DEF Disks, Counts
<1>3. Near(s.d, n + 1)
  BY <1>1, <1>2 DEF Near
<1> QED
  BY <1>1, <1>3 DEF Ready, Halts, Held, Steady

\* A write that leaves it sound.
LEMMA ReadyPut ==
    ASSUME NEW n \in Nat, NEW s, NEW S, NEW A, Ready(s, n, S, A), NEW d \in Disks,
           d.used = s.d.used, d.sb = s.d.sb, d.bgd = s.d.bgd, NEW T, NEW B, Sound(d, T, B)
    PROVE  Ready(Put(s, d), n, T, B) /\ Put(s, d).d = d
<1>1. Steady(s, n, Halts(n)) /\ s.d \in Halts(n)
  BY ReadyIs
<1>2. Steady(Put(s, d), n, Halts(n)) /\ Put(s, d).d = d
  BY <1>1, PutSteady
<1> QED
  BY <1>2 DEF Ready

\* A unit is taken.
LEMMA ReadyAllocate ==
    ASSUME NEW n \in Nat, NEW s, NEW S, NEW A, Ready(s, n, S, A), NEW k \in Kinds
    PROVE  Ready(ext2_allocate(s, k).s, n, S, A) /\ Takes(ext2_allocate(s, k), s, k)
<1>1. Steady(s, n, Halts(n)) /\ Sound(s.d, S, A) /\ s.d \in Halts(n) /\ s.d \in Disks /\ s.d.used \in Bitmaps
  BY ReadyIs
<1>2. \A x : \A unit \in Units(k) :
        Marked(x, s.d, WithBitmap(s.d.used, k, s.d.used[k] \cup {unit})) => Sound(x, S, A)
  <2> SUFFICES ASSUME NEW x, NEW unit \in Units(k), NEW U, U = s.d.used[k] \cup {unit},
                      Marked(x, s.d, WithBitmap(s.d.used, k, U))
               PROVE  Sound(x, S, A)
    OBVIOUS
  <2>1. U \in SUBSET Units(k) /\ s.d.used[k] \subseteq U
    BY <1>1 DEF Bitmaps
  <2> QED
    BY <1>1, <2>1, SoundSpare
<1>3. \A x : \A unit \in Units(k) :
        Marked(x, s.d, WithBitmap(s.d.used, k, s.d.used[k] \cup {unit})) /\ Near(x, n + 1) => x \in Halts(n)
  BY <1>2 DEF Halts, Held, Marked
<1>4. Steady(ext2_allocate(s, k).s, n, Halts(n)) /\ Takes(ext2_allocate(s, k), s, k)
  BY <1>1, <1>3, AllocateIs
<1>5. Sound(ext2_allocate(s, k).s.d, S, A)
  BY <1>1, <1>2, <1>4 DEF Takes
<1> QED
  BY <1>4, <1>5 DEF Ready

\* A spare unit is given back.
LEMMA ReadyFree ==
    ASSUME NEW n \in Nat, NEW s, NEW S, NEW A, Ready(s, n, S, A), NEW k \in Kinds,
           NEW unit \in Units(k), unit \in s.d.used[k], Spare(s.d, S, k, unit)
    PROVE  /\ Ready(ext2_free(s, k, unit), n, S, A)
           /\ Marked(ext2_free(s, k, unit).d, s.d, WithBitmap(s.d.used, k, s.d.used[k] \ {unit}))
<1>1. Steady(s, n, Halts(n)) /\ Sound(s.d, S, A) /\ s.d \in Halts(n) /\ s.d \in Disks /\ s.d.used \in Bitmaps
  BY ReadyIs
<1>2. \A x : Marked(x, s.d, WithBitmap(s.d.used, k, s.d.used[k] \ {unit})) => Sound(x, S, A)
  <2> SUFFICES ASSUME NEW x, NEW U, U = s.d.used[k] \ {unit},
                      Marked(x, s.d, WithBitmap(s.d.used, k, U))
               PROVE  Sound(x, S, A)
    OBVIOUS
  <2>1. U \in SUBSET Units(k)
    BY <1>1 DEF Bitmaps
  <2> QED
    BY <1>1, <2>1, SoundSpare
<1>3. \A x : Marked(x, s.d, WithBitmap(s.d.used, k, s.d.used[k] \ {unit})) /\ Near(x, n + 1) => x \in Halts(n)
  BY <1>2 DEF Halts, Held, Marked
<1>4. /\ Steady(ext2_free(s, k, unit), n, Halts(n))
      /\ Marked(ext2_free(s, k, unit).d, s.d, WithBitmap(s.d.used, k, s.d.used[k] \ {unit}))
  BY <1>1, <1>3, FreeIs
<1> QED
  BY <1>2, <1>4 DEF Ready

-----------------------------------------------------------------------------
(* Writing *)

\* A block, or an inode, is written.
NewData(d, b, content) == [d EXCEPT !.data[b] = content]
NewNode(d, m, node) == [d EXCEPT !.node[m] = node]
SameUnits(d, e) == e.used = d.used /\ e.sb = d.sb /\ e.bgd = d.bgd

\* The rest of the disk stays as it was.
LEMMA NewDataIs ==
    ASSUME NEW d \in Disks, NEW b \in Blocks, NEW content \in Contents
    PROVE  /\ NewData(d, b, content) \in Disks /\ SameUnits(d, NewData(d, b, content))
           /\ Rewrites(d, NewData(d, b, content), b, content)
<1> DEFINE data == [d.data EXCEPT ![b] = content]
           e == NewData(d, b, content)
<1>1. data \in [Blocks -> Contents] /\ \A x \in Blocks : data[x] = IF x = b THEN content ELSE d.data[x]
  BY DEF Disks
<1>2. e = [d EXCEPT !.data = data]
  BY Zenon DEF NewData
<1> HIDE DEF data
<1>3. e \in Disks /\ e.data = data /\ e.used = d.used /\ e.node = d.node /\ e.sb = d.sb /\ e.bgd = d.bgd
  BY <1>1, <1>2 DEF Disks
<1> QED
  BY <1>1, <1>3 DEF SameUnits, Rewrites

\* So it does when an inode is written.
LEMMA NewNodeIs ==
    ASSUME NEW d \in Disks, NEW m \in Inodes, NEW node \in Nodes
    PROVE  /\ NewNode(d, m, node) \in Disks /\ SameUnits(d, NewNode(d, m, node))
           /\ NewNode(d, m, node).data = d.data /\ NewNode(d, m, node).node[m] = node
           /\ \A x \in Inodes : x # m => NewNode(d, m, node).node[x] = d.node[x]
<1> DEFINE nodes == [d.node EXCEPT ![m] = node]
           e == NewNode(d, m, node)
<1>1. /\ nodes \in [Inodes -> Nodes] /\ nodes[m] = node
      /\ \A x \in Inodes : x # m => nodes[x] = d.node[x]
  BY DEF Disks
<1>2. e = [d EXCEPT !.node = nodes]
  BY Zenon DEF NewNode
<1> HIDE DEF nodes
<1>3. e \in Disks /\ e.node = nodes /\ e.used = d.used /\ e.data = d.data /\ e.sb = d.sb /\ e.bgd = d.bgd
  BY <1>1, <1>2 DEF Disks
<1> QED
  BY <1>1, <1>3 DEF SameUnits

\* Pointers do not change with the rest of an inode.
SamePointers(d, e, S) ==
    e.data = d.data /\ \A m \in S : /\ e.node[m].kind = d.node[m].kind
                                    /\ e.node[m].i_block = d.node[m].i_block
                                    /\ e.node[m].indirect = d.node[m].indirect
\* So the set stays sound, and each pointer what it was.
LEMMA SoundSame ==
    ASSUME NEW d \in Disks, NEW e \in Disks, NEW S, NEW A, Sound(d, S, A), e.used = d.used, SamePointers(d, e, S)
    PROVE  Sound(e, S, A) /\ \A m \in S : \A i \in 0 .. Direct + 1 : Pointer(e, m, i) = Pointer(d, m, i)
<1>0. S \subseteq Inodes
  BY DEF Sound, Ancestors
<1>1. \A m \in S : \A i \in 0 .. Direct + 1 : Pointer(e, m, i) = Pointer(d, m, i)
  <2> SUFFICES ASSUME NEW m \in S, NEW i \in 0 .. Direct + 1 PROVE Pointer(e, m, i) = Pointer(d, m, i)
    OBVIOUS
  <2>1. i \in 0 .. Direct - 1 \/ i = Direct \/ i = Direct + 1
    BY IndexIs
  <2>2. CASE i \in 0 .. Direct - 1
    BY <1>0, <2>2, PointerIs DEF SamePointers
  <2>3. CASE i = Direct
    BY <1>0, <2>3, PointerIs DEF SamePointers
  <2>4. CASE i = Direct + 1
    BY <1>0, <2>4, PointerIs DEF SamePointers
  <2> QED
    BY <2>1, <2>2, <2>3, <2>4
<1>2. \A m \in S : \A i, j : Place(e, m, i, j) = Place(d, m, i, j)
  BY DEF Place, EntryIn, Formatted, SamePointers
<1>3. DirsIn(e, S) = DirsIn(d, S) /\ DirsIn(d, S) \subseteq S
  BY DEF DirsIn, SamePointers
<1>4. MarkedIn(e, S)
  BY <1>1 DEF Sound, MarkedIn
<1>5. ApartIn(e, S)
  BY <1>1 DEF Sound, ApartIn
<1>6. IndirectIn(e, S)
  BY DEF Sound, IndirectIn, SamePointers
<1>7. EntriesIn(e, S, A)
  BY <1>2, <1>3 DEF Sound, EntriesIn
<1>8. OneLink(e, S)
  <2>1. OneLink(d, S)
    BY DEF Sound
  <2>2. \A n, m \in DirsIn(d, S) : \A i, j, k, l : Links2(e, n, i, j, m, k, l) <=> Links2(d, n, i, j, m, k, l)
    BY <1>2, <1>3 DEF Links2
  <2> QED
    BY <1>3, <2>1, <2>2 DEF OneLink
<1> QED
  BY <1>1, <1>4, <1>5, <1>6, <1>7, <1>8 DEF Sound

\* A block that nothing in S points to is written.
LEMMA SoundAside ==
    ASSUME NEW d \in Disks, NEW e \in Disks, NEW S, NEW A, Sound(d, S, A), NEW b \in Blocks, NEW content,
           Rewrites(d, e, b, content), Unpointed(d, S, b)
    PROVE  Sound(e, S, A) /\ \A m \in S : \A i \in 0 .. Direct + 1 : Pointer(e, m, i) = Pointer(d, m, i)
<1>0. S \subseteq Inodes /\ Ancestors(S, A) /\ MarkedIn(d, S) /\ EntriesIn(d, S, A)
  BY DEF Sound, Ancestors
<1>1. \A m \in S : d.node[m].indirect # b
  BY <1>0, PointerIs, IndexIs DEF Unpointed
<1>2. /\ \A m \in S : \A i \in 0 .. Direct + 1 : Pointer(e, m, i) = Pointer(d, m, i)
      /\ MarkedIn(e, S) /\ IndirectIn(e, S)
  BY <1>1, PointersStay
<1>3. \A m \in S : \A k \in 0 .. Direct - 1 : d.node[m].i_block[k] # b
  BY <1>0, PointerIs, IndexIs DEF Unpointed
<1>4. \A m \in S : \A k \in 0 .. Direct - 1 : \A l \in 0 .. Slots - 1 : Place(e, m, k, l) = Place(d, m, k, l)
  BY <1>0, <1>3, PlaceRead
<1>5. DirsIn(e, S) = DirsIn(d, S) /\ DirsIn(d, S) \subseteq S
  BY DEF DirsIn, Rewrites
<1>6. Fewer(d, e, S)
  <2>1. \A m \in S : \A i \in 0 .. Direct + 1 :
            Pointer(e, m, i) # 0 => Pointer(e, m, i) = Pointer(d, m, i) /\ Pointer(e, m, i) \in e.used["block"]
    BY <1>2 DEF MarkedIn
  <2> QED
    BY <1>4, <1>5, <2>1 DEF Fewer
<1>7. \A m \in DirsIn(e, S) : \A i \in 0 .. Direct - 1 : \A j \in 0 .. Slots - 1 :
          Place(e, m, i, j).inode # 0 => Place(e, m, i, j).inode \in S
  BY <1>0, <1>4, <1>5 DEF EntriesIn, Leads
<1>8. S \subseteq e.used["inode"]
  BY <1>2 DEF MarkedIn
<1>9. Sound(e, S, A)
  BY <1>0, <1>2, <1>6, <1>7, <1>8, SoundLess
<1> QED
  BY <1>2, <1>9

\* A call writes a block, or an inode.
LEMMA ReadyBlock ==
    ASSUME NEW n \in Nat, NEW s, NEW S, NEW A, Ready(s, n, S, A), NEW b \in Blocks, NEW content \in Contents,
           NEW T, NEW B, Sound(NewData(s.d, b, content), T, B)
    PROVE  Ready(ext2_write_block(s, b, content), n, T, B)
           /\ ext2_write_block(s, b, content).d = NewData(s.d, b, content)
<1>1. s.d \in Disks
  BY ReadyIs
<1>2. NewData(s.d, b, content) \in Disks /\ SameUnits(s.d, NewData(s.d, b, content))
  BY <1>1, NewDataIs
<1>3. ext2_write_block(s, b, content) = Put(s, NewData(s.d, b, content))
  BY DEF ext2_write_block, NewData
<1> QED
  BY <1>2, <1>3, ReadyPut DEF SameUnits

\* ext2_write_inode_sync, after which a set is sound.
LEMMA ReadyInode ==
    ASSUME NEW n \in Nat, NEW s, NEW S, NEW A, Ready(s, n, S, A), NEW m \in Inodes, NEW node \in Nodes,
           NEW T, NEW B, Sound(NewNode(s.d, m, node), T, B)
    PROVE  Ready(ext2_write_inode_sync(s, m, node), n, T, B)
           /\ ext2_write_inode_sync(s, m, node).d = NewNode(s.d, m, node)
<1>1. s.d \in Disks
  BY ReadyIs
<1>2. NewNode(s.d, m, node) \in Disks /\ SameUnits(s.d, NewNode(s.d, m, node))
  BY <1>1, NewNodeIs
<1>3. ext2_write_inode_sync(s, m, node) = Put(s, NewNode(s.d, m, node))
  BY DEF ext2_write_inode_sync, NewNode
<1> QED
  BY <1>2, <1>3, ReadyPut DEF SameUnits

-----------------------------------------------------------------------------
(* Entries *)

\* What is marked, and what S does not point to, is left as it is; inode p may change.
Leaves(d, e, S, p) ==
    /\ e.used["inode"] = d.used["inode"]
    /\ \A m \in Inodes : m # p => e.node[m] = d.node[m]
    /\ \A x \in d.used["block"] : x \in e.used["block"] /\ e.data[x] = d.data[x]
    /\ \A q \in d.used["block"] : Unpointed(d, S, q) => Unpointed(e, S, q)

\* It returns a volume and a unit.
LEMMA AllocateShape ==
    ASSUME NEW s, NEW k
    PROVE  \E t, unit : ext2_allocate(s, k) = [s |-> t, unit |-> unit]
<1> DEFINE free == Units(k) \ s.d.used[k]
<1>1. CASE s.sb[k] = 0 \/ s.bgd[k] = 0 \/ free = {}
  BY <1>1 DEF ext2_allocate, NoUnit
<1>2. CASE ~(s.sb[k] = 0 \/ s.bgd[k] = 0 \/ free = {})
  BY <1>2 DEF ext2_allocate, Mark
<1> QED
  BY <1>1, <1>2

\* An inode with one pointer more.
Longer(node, q) == [node EXCEPT !.i_block[node.size] = q, !.size = @ + 1]
\* The new pointer comes last, and the size follows.
LEMMA LongerIs ==
    ASSUME NEW node \in Nodes, NEW q \in Blocks, node.size < Direct
    PROVE  /\ Longer(node, q) \in Nodes /\ node.size \in 0 .. Direct - 1
           /\ Longer(node, q).kind = node.kind /\ Longer(node, q).indirect = node.indirect
           /\ \A i \in 0 .. Direct - 1 : Longer(node, q).i_block[i] = IF i = node.size THEN q ELSE node.i_block[i]
<1> DEFINE blocks == [node.i_block EXCEPT ![node.size] = q]
           size == node.size + 1
<1>1. node.size \in 0 .. Direct - 1 /\ size \in 0 .. Direct + 1
  BY IndexIs DEF Nodes
<1>2. /\ blocks \in [0 .. Direct - 1 -> Blocks \cup {0}]
      /\ \A i \in 0 .. Direct - 1 : blocks[i] = IF i = node.size THEN q ELSE node.i_block[i]
  BY <1>1 DEF Nodes
<1>3. Longer(node, q) = [node EXCEPT !.i_block = blocks, !.size = size]
  BY Zenon DEF Longer
<1> HIDE DEF blocks, size
<1>4. /\ Longer(node, q) \in Nodes /\ Longer(node, q).i_block = blocks
      /\ Longer(node, q).kind = node.kind /\ Longer(node, q).indirect = node.indirect
  BY <1>1, <1>2, <1>3 DEF Nodes
<1> QED
  BY <1>1, <1>2, <1>4

\* A unit that was not marked has no pointer.
LEMMA UnmarkedIs ==
    ASSUME NEW d, NEW S, NEW A, Sound(d, S, A), NEW q \in Blocks, q \notin d.used["block"]
    PROVE  Unpointed(d, S, q)
  BY UnitIs DEF Sound, MarkedIn, Unpointed

\* A block is taken and zeroed.
LEMMA BlockTaken ==
    ASSUME NEW n \in Nat, NEW s, NEW S, NEW A, Ready(s, n, S, A),
           NEW a, a = ext2_allocate(s, "block"), a.unit # 0, NEW p
    PROVE  /\ a.unit \in Blocks /\ a.unit \notin s.d.used["block"]
           /\ Ready(a.s, n, S, A) /\ a.s.d.node = s.d.node /\ a.s.d.data = s.d.data
           /\ a.s.d.used["block"] = s.d.used["block"] \cup {a.unit} /\ a.s.d.used["inode"] = s.d.used["inode"]
           /\ Unpointed(a.s.d, S, a.unit) /\ Leaves(s.d, a.s.d, S, p)
<1> DEFINE q == a.unit
           U == s.d.used["block"] \cup {q}
<1>1. "block" \in Kinds /\ "inode" \in Kinds /\ Units("block") = Blocks
  BY DEF Kinds, Units
<1>2. Ready(a.s, n, S, A) /\ Takes(a, s, "block")
  BY <1>1, ReadyAllocate
<1>3. q \in Blocks /\ q \notin s.d.used["block"] /\ Marked(a.s.d, s.d, WithBitmap(s.d.used, "block", U))
  BY <1>1, <1>2 DEF Takes
<1>4. s.d \in Disks /\ s.d.used \in Bitmaps /\ Sound(s.d, S, A)
  BY ReadyIs
<1> HIDE DEF q
<1>5. U \in SUBSET Units("block")
  BY <1>1, <1>3, <1>4 DEF Bitmaps
<1>6. U = s.d.used["block"] \cup {q}
  OBVIOUS
<1> HIDE DEF U
<1>7. a.s.d.used["block"] = U /\ a.s.d.used["inode"] = s.d.used["inode"]
      /\ a.s.d.node = s.d.node /\ a.s.d.data = s.d.data
  BY <1>1, <1>3, <1>4, <1>5, BitmapIs, SMTT(30) DEF Marked
<1>8. \A m, i : Pointer(a.s.d, m, i) = Pointer(s.d, m, i)
  BY <1>7, SMTT(30) DEF Pointer, ext2_get_file_block
<1>9. Unpointed(s.d, S, q)
  BY <1>3, <1>4, UnmarkedIs
<1>10. \A x : Unpointed(s.d, S, x) => Unpointed(a.s.d, S, x)
  BY <1>8 DEF Unpointed
<1>11. Leaves(s.d, a.s.d, S, p)
  BY <1>6, <1>7, <1>10 DEF Leaves
<1> QED
  BY <1>2, <1>3, <1>6, <1>7, <1>9, <1>10, <1>11 DEF q

\* A block that S does not point to is written.
LEMMA AsideWritten ==
    ASSUME NEW n \in Nat, NEW s, NEW S, NEW A, Ready(s, n, S, A), NEW b \in Blocks, Unpointed(s.d, S, b),
           NEW content \in Contents, NEW t, t = ext2_write_block(s, b, content)
    PROVE  /\ Ready(t, n, S, A) /\ t.d.node = s.d.node /\ t.d.used = s.d.used
           /\ \A x \in Blocks : t.d.data[x] = IF x = b THEN content ELSE s.d.data[x]
           /\ \A x : Unpointed(s.d, S, x) => Unpointed(t.d, S, x)
<1> DEFINE e == NewData(s.d, b, content)
<1>1. s.d \in Disks /\ Sound(s.d, S, A)
  BY ReadyIs
<1>2. e \in Disks /\ SameUnits(s.d, e) /\ Rewrites(s.d, e, b, content)
  BY <1>1, NewDataIs
<1> HIDE DEF e
<1>3. Sound(e, S, A) /\ \A m \in S : \A i \in 0 .. Direct + 1 : Pointer(e, m, i) = Pointer(s.d, m, i)
  BY <1>1, <1>2, SoundAside
<1>4. Ready(t, n, S, A) /\ t.d = e
  <2>1. Sound(NewData(s.d, b, content), S, A)
    BY <1>3 DEF e
  <2>2. /\ Ready(ext2_write_block(s, b, content), n, S, A)
        /\ ext2_write_block(s, b, content).d = NewData(s.d, b, content)
    BY <2>1, ReadyBlock
  <2> QED
    BY <2>2 DEF e
<1>5. \A x : Unpointed(s.d, S, x) => Unpointed(t.d, S, x)
  BY <1>3, <1>4 DEF Unpointed
<1> QED
  BY <1>2, <1>4, <1>5 DEF Rewrites, SameUnits

\* A disk whose bitmap of one kind has changed.
LEMMA MarkedIs ==
    ASSUME NEW d \in Disks, NEW k \in Kinds, NEW U \in SUBSET Units(k), NEW e, Marked(e, d, WithBitmap(d.used, k, U))
    PROVE  e \in Disks /\ e.used[k] = U /\ (\A j \in Kinds : j # k => e.used[j] = d.used[j])
           /\ e.node = d.node /\ e.data = d.data
<1>1. WithBitmap(d.used, k, U)[k] = U /\ \A j \in Kinds : j # k => WithBitmap(d.used, k, U)[j] = d.used[j]
  BY BitmapIs
<1> QED
  BY <1>1 DEF Marked

\* The other bitmap stays.
LEMMA OtherMarked ==
    ASSUME NEW d \in Disks, NEW k \in Kinds, NEW U \in SUBSET Units(k), NEW e, Marked(e, d, WithBitmap(d.used, k, U)),
           NEW j \in Kinds, j # k
    PROVE  e.used[j] = d.used[j]
<1>1. WithBitmap(d.used, k, U)[j] = d.used[j]
  BY BitmapIs, SMTT(30)
<1> QED
  BY <1>1 DEF Marked

\* The same, for blocks, and for inodes.
LEMMA BlocksMarked ==
    ASSUME NEW d \in Disks, NEW U \in SUBSET Blocks, NEW e, Marked(e, d, WithBitmap(d.used, "block", U))
    PROVE  e.used["block"] = U /\ e.used["inode"] = d.used["inode"] /\ e.node = d.node /\ e.data = d.data
<1> DEFINE k == "block"
           j == "inode"
<1>1. k \in Kinds /\ j \in Kinds /\ j # k /\ Units(k) = Blocks
  BY DEF Kinds, Units
<1>2. Marked(e, d, WithBitmap(d.used, k, U))
  OBVIOUS
<1> HIDE DEF k, j
<1>3. e.used[k] = U /\ e.used[j] = d.used[j] /\ e.node = d.node /\ e.data = d.data
  BY <1>1, <1>2, MarkedIs, OtherMarked
<1> QED
  BY <1>3 DEF k, j

\* The same for the bitmap of the inodes.
LEMMA InodesMarked ==
    ASSUME NEW d \in Disks, NEW U \in SUBSET Inodes, NEW e, Marked(e, d, WithBitmap(d.used, "inode", U))
    PROVE  e.used["inode"] = U /\ e.used["block"] = d.used["block"] /\ e.node = d.node /\ e.data = d.data
<1> DEFINE k == "inode"
           j == "block"
<1>1. k \in Kinds /\ j \in Kinds /\ j # k /\ Units(k) = Inodes
  BY DEF Kinds, Units
<1>2. Marked(e, d, WithBitmap(d.used, k, U))
  OBVIOUS
<1> HIDE DEF k, j
<1>3. e.used[k] = U /\ e.used[j] = d.used[j] /\ e.node = d.node /\ e.data = d.data
  BY <1>1, <1>2, MarkedIs, OtherMarked
<1> QED
  BY <1>3 DEF k, j
\* The pointers when inode m has its own written, one of them being new.
LEMMA PointsIs ==
    ASSUME NEW d \in Disks, NEW e \in Disks, NEW S, S \subseteq Inodes, NEW n \in Inodes, NEW i0 \in 0 .. Direct - 1,
           NEW q, Points(d, e, n, i0, q)
    PROVE  \A m \in S : \A i \in 0 .. Direct + 1 : Pointer(e, m, i) = q \/ Pointer(e, m, i) = Pointer(d, m, i)
<1> SUFFICES ASSUME NEW m \in S, NEW i \in 0 .. Direct + 1
             PROVE  Pointer(e, m, i) = q \/ Pointer(e, m, i) = Pointer(d, m, i)
  OBVIOUS
<1>0. m \in Inodes
  OBVIOUS
<1>1. CASE i \in 0 .. Direct - 1
  <2>1. e.node[m].i_block[i] = q \/ e.node[m].i_block[i] = d.node[m].i_block[i]
    BY <1>0, <1>1 DEF Points
  <2> QED
    BY <1>0, <1>1, <2>1, PointerIs
<1>2. e.node[m].indirect = d.node[m].indirect /\ e.data = d.data
  BY <1>0 DEF Points
<1>3. CASE i = Direct
  BY <1>0, <1>2, <1>3, PointerIs
<1>4. CASE i = Direct + 1
  BY <1>0, <1>2, <1>4, PointerIs
<1> QED
  BY <1>1, <1>3, <1>4, IndexIs

\* A block that S does not point to is given back.
LEMMA BlockGiven ==
    ASSUME NEW n \in Nat, NEW s, NEW S, NEW A, Ready(s, n, S, A), NEW q \in Blocks, q \in s.d.used["block"],
           Unpointed(s.d, S, q), NEW f, f = ext2_free(s, "block", q)
    PROVE  /\ Ready(f, n, S, A) /\ f.d.node = s.d.node /\ f.d.data = s.d.data
           /\ f.d.used["block"] = s.d.used["block"] \ {q} /\ f.d.used["inode"] = s.d.used["inode"]
           /\ \A x : Unpointed(s.d, S, x) => Unpointed(f.d, S, x)
<1> DEFINE U == s.d.used["block"] \ {q}
<1>1. "block" \in Kinds /\ "inode" \in Kinds /\ Units("block") = Blocks
  BY DEF Kinds, Units
<1>2. Spare(s.d, S, "block", q)
  BY DEF Spare
<1>3. Ready(f, n, S, A) /\ Marked(f.d, s.d, WithBitmap(s.d.used, "block", U))
  BY <1>1, <1>2, ReadyFree
<1>4. U \in SUBSET Blocks /\ s.d \in Disks
  <2>1. s.d.used \in Bitmaps /\ s.d \in Disks
    BY ReadyIs
  <2>2. s.d.used["block"] \subseteq Units("block")
    BY <1>1, <2>1 DEF Bitmaps
  <2> QED
    BY <1>1, <2>1, <2>2
<1>5. U = s.d.used["block"] \ {q}
  OBVIOUS
<1> HIDE DEF U
<1>6. f.d.used["block"] = U /\ f.d.used["inode"] = s.d.used["inode"]
      /\ f.d.node = s.d.node /\ f.d.data = s.d.data
  <2> DEFINE d == s.d
             e == f.d
  <2>1. d \in Disks /\ Marked(e, d, WithBitmap(d.used, "block", U))
    BY <1>3, <1>4
  <2> HIDE DEF d, e
  <2>2. e.used["block"] = U /\ e.used["inode"] = d.used["inode"] /\ e.node = d.node /\ e.data = d.data
    BY <1>4, <2>1, BlocksMarked
  <2> QED
    BY <2>2 DEF d, e
<1>7. \A x : Unpointed(s.d, S, x) => Unpointed(f.d, S, x)
  BY <1>6 DEF Unpointed, Pointer, ext2_get_file_block
<1> QED
  BY <1>3, <1>5, <1>6, <1>7

\* A directory, or a file, gets a block: the block is zeroed before it gets its
\* pointer, and it is given back when there is no room for one.
Appended(r, s, S, p) ==
    \/ r.unit = 0
    \/ /\ r.unit \in Blocks /\ r.unit \notin s.d.used["block"]
       /\ \E i \in 0 .. Direct - 1 : r.s.d.node[p].i_block[i] = r.unit
       /\ r.s.d.data[r.unit] = Zeroed

\* ext2_append_block: no block, or one that was free, is zeroed now, and has its
\* pointer in the directory.
LEMMA AppendIs ==
    ASSUME NEW n \in Nat, NEW s, NEW S, NEW A, Ready(s, n, S, A), NEW p \in S,
           NEW r, r = ext2_append_block(s, p)
    PROVE  Ready(r.s, n, S, A) /\ Leaves(s.d, r.s.d, S, p) /\ Appended(r, s, S, p)
<1> DEFINE a == ext2_allocate(s, "block")
           node == s.d.node[p]
<1>1. r = Attach(a, p, node)
  BY DEF ext2_append_block
<1>2. s.d \in Disks /\ s.d.used \in Bitmaps /\ Sound(s.d, S, A) /\ S \subseteq Inodes /\ p \in Inodes
  BY ReadyIs DEF Sound, Ancestors
<1>3. node \in Nodes
  BY <1>2, DiskIs
<1>4. a.unit # 0 =>
        /\ a.unit \in Blocks /\ a.unit \notin s.d.used["block"]
        /\ Ready(a.s, n, S, A) /\ a.s.d.node = s.d.node /\ a.s.d.data = s.d.data
        /\ a.s.d.used["block"] = s.d.used["block"] \cup {a.unit} /\ a.s.d.used["inode"] = s.d.used["inode"]
        /\ Unpointed(a.s.d, S, a.unit) /\ Leaves(s.d, a.s.d, S, p)
  BY BlockTaken
<1>5. "block" \in Kinds /\ "inode" \in Kinds /\ Units("block") = Blocks
  BY DEF Kinds, Units
<1>6. Ready(a.s, n, S, A) /\ (a.unit = 0 => a.s = s)
  <2>1. Ready(a.s, n, S, A) /\ Takes(a, s, "block")
    BY <1>5, ReadyAllocate
  <2> QED
    BY <2>1, <1>5, UnitIs DEF Takes
<1>7. a = [s |-> a.s, unit |-> a.unit]
  BY AllocateShape
<1>8. CASE a.unit = 0
  <2>1. r = a
    BY <1>1, <1>8 DEF Attach
  <2>2. Leaves(s.d, s.d, S, p)
    BY DEF Leaves
  <2> HIDE DEF a
  <2> QED
    BY <1>6, <1>8, <2>1, <2>2 DEF Appended
<1>9. CASE a.unit # 0
  <2> DEFINE q == a.unit
             t == ext2_write_block(a.s, a.unit, Zeroed)
             z == Zero(a)
  <2>1. z.s = t /\ z.unit = q
    BY <1>7 DEF Zero
  <2>2. /\ node.size < Direct => r = Pointed(z, p, node)
        /\ ~(node.size < Direct) => r = NoUnit(ext2_free(z.s, "block", q))
    BY <1>1, <1>9 DEF Attach
  <2>3. z = [s |-> z.s, unit |-> z.unit]
    BY <1>7 DEF Zero
  <2> HIDE DEF a, z
  <2>4. Zeroed \in Contents /\ Zeroed.kind # "dir"
    BY DEF Contents, Zeroed
  <2>10. q \in Blocks /\ Unpointed(a.s.d, S, q) /\ t = ext2_write_block(a.s, q, Zeroed)
    BY <1>4, <1>9
  <2>11. q = a.unit
    OBVIOUS
  <2> HIDE DEF t, q
  <2>5. /\ Ready(t, n, S, A) /\ t.d.node = a.s.d.node /\ t.d.used = a.s.d.used
        /\ \A x \in Blocks : t.d.data[x] = IF x = q THEN Zeroed ELSE a.s.d.data[x]
        /\ \A x : Unpointed(a.s.d, S, x) => Unpointed(t.d, S, x)
    BY <1>6, <2>4, <2>10, AsideWritten
  <2>6. /\ q \in Blocks /\ q \notin s.d.used["block"] /\ t.d.node = s.d.node
        /\ t.d.used["block"] = s.d.used["block"] \cup {q} /\ t.d.used["inode"] = s.d.used["inode"]
        /\ Unpointed(t.d, S, q) /\ t.d.data[q] = Zeroed
        /\ \A x \in s.d.used["block"] : t.d.data[x] = s.d.data[x]
        /\ \A x \in s.d.used["block"] : Unpointed(s.d, S, x) => Unpointed(t.d, S, x)
    <3>1. s.d.used["block"] \subseteq Blocks
      BY <1>2, <1>5 DEF Bitmaps
    <3> QED
      BY <1>4, <1>9, <2>5, <2>10, <2>11, <3>1 DEF Leaves
  <2>7. t.d \in Disks /\ t.d.used \in Bitmaps /\ Sound(t.d, S, A)
    BY <2>5, ReadyIs
  <2>8. CASE node.size < Direct
    <3> DEFINE new == Longer(node, q)
               e == NewNode(t.d, p, new)
               i0 == node.size
    <3>1. r = [z EXCEPT !.s = ext2_write_inode_sync(@, p, new)]
      <4>1. r = Pointed(z, p, node)
        BY <2>2, <2>8
      <4>2. z.unit = q
        BY <2>1 DEF q
      <4> QED
        BY <4>1, <4>2, Zenon DEF Pointed, Longer
    <3>2. r.s = ext2_write_inode_sync(t, p, new) /\ r.unit = q
      BY <2>1, <2>3, <3>1
    <3>3. /\ new \in Nodes /\ i0 \in 0 .. Direct - 1 /\ new.kind = node.kind /\ new.indirect = node.indirect
          /\ \A i \in 0 .. Direct - 1 : new.i_block[i] = IF i = i0 THEN q ELSE node.i_block[i]
      BY <1>3, <2>6, <2>8, LongerIs
    <3> HIDE DEF new
    <3>4. /\ e \in Disks /\ SameUnits(t.d, e) /\ e.data = t.d.data /\ e.node[p] = new
          /\ \A x \in Inodes : x # p => e.node[x] = t.d.node[x]
      BY <1>2, <2>7, <3>3, NewNodeIs
    <3> HIDE DEF e
    <3>5. Points(t.d, e, p, i0, q)
      BY <2>6, <3>3, <3>4 DEF Points, SameUnits
    <3> HIDE DEF i0
    <3>6. Sound(e, S, A)
      <4>1. q \in t.d.used["block"] /\ t.d.data[q].kind # "dir"
        BY <2>4, <2>6
      <4> QED
        BY <1>2, <2>6, <2>7, <3>3, <3>4, <3>5, <4>1, SoundPointer
    <3>7. Ready(r.s, n, S, A) /\ r.s.d = e
      <4>1. Sound(NewNode(t.d, p, new), S, A)
        BY <3>6 DEF e
      <4>2. /\ Ready(ext2_write_inode_sync(t, p, new), n, S, A)
            /\ ext2_write_inode_sync(t, p, new).d = NewNode(t.d, p, new)
        BY <1>2, <2>5, <3>3, <4>1, ReadyInode
      <4> QED
        BY <3>2, <4>2 DEF e
    <3>8. \A x \in s.d.used["block"] : Unpointed(s.d, S, x) => Unpointed(e, S, x)
      <4>1. \A m \in S : \A i \in 0 .. Direct + 1 : Pointer(e, m, i) = q \/ Pointer(e, m, i) = Pointer(t.d, m, i)
        BY <1>2, <2>7, <3>3, <3>4, <3>5, PointsIs
      <4> QED
        BY <2>6, <4>1 DEF Unpointed
    <3>9. Leaves(s.d, e, S, p)
      BY <2>6, <3>4, <3>8 DEF Leaves, SameUnits
    <3> QED
      BY <2>6, <3>2, <3>3, <3>4, <3>7, <3>9 DEF Appended
  <2>9. CASE ~(node.size < Direct)
    <3> DEFINE f == ext2_free(t, "block", q)
    <3>1. r = [s |-> f, unit |-> 0]
      BY <2>1, <2>2, <2>9 DEF NoUnit
    <3>2. q \in t.d.used["block"]
      BY <2>6
    <3>3. /\ Ready(f, n, S, A) /\ f.d.node = t.d.node /\ f.d.data = t.d.data
          /\ f.d.used["block"] = t.d.used["block"] \ {q} /\ f.d.used["inode"] = t.d.used["inode"]
          /\ \A x : Unpointed(t.d, S, x) => Unpointed(f.d, S, x)
      BY <2>5, <2>6, <3>2, BlockGiven
    <3> HIDE DEF f
    <3>7. Leaves(s.d, f.d, S, p)
      BY <2>6, <3>3 DEF Leaves
    <3> QED
      BY <3>1, <3>3, <3>7 DEF Appended
  <2> QED
    BY <2>8, <2>9
<1> QED
  BY <1>8, <1>9

\* The contents of a directory block.
DirContents == [kind : {"dir"}, entry : [0 .. Slots - 1 -> DirEntries]]
\* What a block holds is such a content if it is of that kind.
LEMMA DirContent ==
    /\ DirContents \subseteq Contents
    /\ \A x \in Contents : x.kind = "dir" => x \in DirContents
<1>1. DirContents \subseteq Contents
  BY DEF Contents, DirContents, DirEntries
<1>2. ASSUME NEW x \in Contents, x.kind = "dir" PROVE x \in DirContents
  <2>1. x = Zeroed \/ (\E v \in Values : x = DataBlock(v)) \/ x \in [kind : {"indirect"}, to : Blocks]
        \/ x \in DirContents
    BY DEF Contents, DirContents, DirEntries
  <2>2. x # Zeroed
    BY <1>2 DEF Zeroed
  <2>3. \A v : x # DataBlock(v)
    BY <1>2 DEF DataBlock
  <2>4. x \notin [kind : {"indirect"}, to : Blocks]
    BY <1>2
  <2> QED
    BY <2>1, <2>2, <2>3, <2>4
<1> QED
  BY <1>1, <1>2

\* A block with one entry, or with two.
LEMMA OneEntryIs ==
    ASSUME NEW new \in DirEntries
    PROVE  /\ DirBlock(<<new>>) \in Contents /\ DirBlock(<<new>>).kind = "dir"
           /\ \A l \in 0 .. Slots - 1 : DirBlock(<<new>>).entry[l] = IF l = 0 THEN new ELSE NoEntry
<1> DEFINE entry == [j \in 0 .. Slots - 1 |-> IF j < Len(<<new>>) THEN <<new>>[j + 1] ELSE NoEntry]
<1>1. DirBlock(<<new>>) = [kind |-> "dir", entry |-> entry]
  BY DEF DirBlock
<1>2. NoEntry \in DirEntries
  BY DEF NoEntry, DirEntries
<1>3. Len(<<new>>) = 1 /\ <<new>>[1] = new
  OBVIOUS
<1>4. \A l \in 0 .. Slots - 1 : entry[l] = IF l = 0 THEN new ELSE NoEntry
  <2> SUFFICES ASSUME NEW l \in 0 .. Slots - 1 PROVE entry[l] = IF l = 0 THEN new ELSE NoEntry
    OBVIOUS
  <2>1. CASE l = 0
    BY <1>3, <2>1
  <2>2. CASE l # 0
    BY <1>3, <2>2, IndexIs
  <2> QED
    BY <2>1, <2>2
<1>5. entry \in [0 .. Slots - 1 -> DirEntries]
  <2>1. \A l \in 0 .. Slots - 1 : entry[l] \in DirEntries
    BY <1>2, <1>4
  <2>2. entry = [l \in 0 .. Slots - 1 |-> entry[l]]
    OBVIOUS
  <2> HIDE DEF entry
  <2> QED
    BY <2>1, <2>2
<1> HIDE DEF entry
<1>6. [kind |-> "dir", entry |-> entry] \in DirContents
  BY <1>5 DEF DirContents
<1> QED
  BY <1>1, <1>4, <1>6, DirContent

\* The entry of a new inode is written, and leads to it from now on.
LEMMA EntryWritten ==
    ASSUME NEW n \in Nat, NEW s, NEW S, NEW A, Ready(s, n, S, A), NEW p \in S,
           NEW c \in Inodes, c \notin S, c \in s.d.used["inode"], Fresh(s.d, S, c, p), NEW name \in Names,
           NEW i0 \in 0 .. Direct - 1, NEW j0 \in 0 .. Slots - 1,
           NEW b, b = s.d.node[p].i_block[i0], b # 0, NEW content \in Contents,
           OneMoreEntry(s.d, b, content, j0, [inode |-> c, name |-> name])
    PROVE  Ready(ext2_write_block(s, b, content), n, S \cup {c}, With(A, p, c))
<1> DEFINE S2 == S \cup {c}
           A2 == With(A, p, c)
           d == s.d
           e == NewData(d, b, content)
<1>1. d \in Disks /\ Sound(d, S, A) /\ c \in d.used["inode"] /\ Fresh(d, S, c, p)
  BY ReadyIs
<1>2. b = d.node[p].i_block[i0] /\ OneMoreEntry(d, b, content, j0, [inode |-> c, name |-> name])
  OBVIOUS
<1> HIDE DEF d
<1>3. Sound(d, S2, A2) /\ Unlinked(d, S2, c) /\ c \notin A2[p] /\ A2[c] = A2[p] \cup {c}
  BY <1>1, SoundInode
<1>4. b \in Blocks
  <2>1. p \in Inodes
    BY <1>1 DEF Sound, Ancestors
  <2>2. d.node[p].i_block \in [0 .. Direct - 1 -> Blocks \cup {0}]
    BY <1>1, <2>1, DiskIs
  <2> QED
    BY <1>2, <2>2
<1>5. e \in Disks /\ Rewrites(d, e, b, content)
  BY <1>1, <1>4, NewDataIs
<1>6. p \in S2 /\ c \in S2
  OBVIOUS
<1> HIDE DEF S2, A2, e
<1>7. Sound(e, S2, A2)
  BY <1>1, <1>2, <1>3, <1>5, <1>6, SoundEntry
<1>8. Sound(NewData(s.d, b, content), S2, A2)
  BY <1>7 DEF e, d
<1>9. Ready(ext2_write_block(s, b, content), n, S2, A2)
  BY <1>4, <1>8, ReadyBlock
<1> QED
  BY <1>9 DEF S2, A2

\* A new inode is not touched while its directory grows.
LEMMA FreshStays ==
    ASSUME NEW d, NEW e, NEW S, NEW p \in S, NEW c \in Inodes, c \notin S, Fresh(d, S, c, p), Leaves(d, e, S, p)
    PROVE  Fresh(e, S, c, p)
<1>1. e.node[c] = d.node[c]
  BY DEF Leaves
<1> DEFINE b == d.node[c].i_block[0]
<1>2. ASSUME b # 0 PROVE b \in d.used["block"] /\ Unpointed(d, S, b)
  BY <1>2 DEF Fresh
<1>3. ASSUME b # 0 PROVE b \in e.used["block"] /\ Unpointed(e, S, b) /\ e.data[b] = d.data[b]
  BY <1>2, <1>3 DEF Leaves
<1>4. e.node[c].indirect = 0 /\ \A i \in 1 .. Direct - 1 : e.node[c].i_block[i] = 0
  BY <1>1 DEF Fresh
<1>5. e.node[c].i_block[0] = b
  BY <1>1
<1>6. ASSUME b # 0, e.data[b].kind = "dir", NEW j \in 0 .. Slots - 1, e.data[b].entry[j].inode # 0
      PROVE  \/ e.data[b].entry[j].name = "." /\ e.data[b].entry[j].inode = c
             \/ e.data[b].entry[j].name = ".." /\ e.data[b].entry[j].inode = p
  <2>1. e.data[b] = d.data[b]
    BY <1>3, <1>6
  <2> QED
    BY <1>6, <2>1, ZenonT(30) DEF Fresh
<1> HIDE DEF b
<1> QED
  BY <1>3, <1>4, <1>5, <1>6, Zenon DEF Fresh

\* What adding an entry for inode c to directory p returns.
Added(r, n, S, A, p, c) ==
    \/ r.ok = TRUE /\ Ready(r.s, n, S \cup {c}, With(A, p, c))
    \/ r.ok = FALSE /\ Ready(r.s, n, S, A) /\ c \in r.s.d.used["inode"]

\* ext2_add_dir_entry: the entry goes to a free place, or to a block of its own,
\* or there is no room.
LEMMA AddIs ==
    ASSUME NEW n \in Nat, NEW s, NEW S, NEW A, Ready(s, n, S, A), NEW p \in S,
           NEW c \in Inodes, c \notin S, c \in s.d.used["inode"], Fresh(s.d, S, c, p), NEW name \in Names,
           NEW r, r = ext2_add_dir_entry(s, p, c, name)
    PROVE  Added(r, n, S, A, p, c)
<1> DEFINE node == s.d.node[p]
           room == {q \in Positions : LET b == BlockAt(s.d, node, q \div Slots)
                                      IN  Formatted(s.d, b) /\ s.d.data[b].entry[q % Slots].inode = 0}
           new == [inode |-> c, name |-> name]
<1>1. new \in DirEntries /\ new.inode = c /\ new.name = name
  BY DEF DirEntries
<1>2. s.d \in Disks /\ Sound(s.d, S, A) /\ p \in Inodes
  BY ReadyIs DEF Sound, Ancestors
<1>3. CASE room = {}
  <2> DEFINE a == ext2_append_block(s, p)
  <2>1. r = InNewBlock(a, new)
    BY <1>3 DEF ext2_add_dir_entry
  <2>2. Ready(a.s, n, S, A) /\ Leaves(s.d, a.s.d, S, p) /\ Appended(a, s, S, p)
    BY AppendIs
  <2> HIDE DEF a
  <2>3. c \in a.s.d.used["inode"] /\ Fresh(a.s.d, S, c, p)
    <3>1. Fresh(a.s.d, S, c, p)
      BY <2>2, FreshStays
    <3> QED
      BY <2>2, <3>1 DEF Leaves
  <2>4. CASE a.unit = 0
    BY <2>1, <2>2, <2>3, <2>4 DEF InNewBlock, Added
  <2>5. CASE a.unit # 0
    <3> DEFINE q == a.unit
               content == DirBlock(<<new>>)
    <3>1. r = [ok |-> TRUE, s |-> ext2_write_block(a.s, q, content)]
      BY <2>1, <2>5 DEF InNewBlock
    <3>2. \E i \in 0 .. Direct - 1 : a.s.d.node[p].i_block[i] = q
      BY <2>2, <2>5 DEF Appended
    <3>3. PICK i0 \in 0 .. Direct - 1 : q = a.s.d.node[p].i_block[i0]
      BY <3>2
    <3>4. /\ content \in Contents /\ content.kind = "dir"
          /\ \A l \in 0 .. Slots - 1 : content.entry[l] = IF l = 0 THEN new ELSE NoEntry
      BY <1>1, OneEntryIs
    <3>5. q # 0
      BY <2>5
    <3> HIDE DEF q, content
    <3>6. OneMoreEntry(a.s.d, q, content, 0, new)
      BY <3>4, IndexIs DEF OneMoreEntry, NoEntry
    <3>7. Ready(ext2_write_block(a.s, q, content), n, S \cup {c}, With(A, p, c))
      BY <2>2, <2>3, <3>3, <3>4, <3>5, <3>6, IndexIs, EntryWritten
    <3> QED
      BY <3>1, <3>7 DEF Added
  <2> QED
    BY <2>4, <2>5
<1>4. CASE room # {}
  <2> DEFINE q == Min(room)
             b == BlockAt(s.d, node, q \div Slots)
             j0 == q % Slots
             i0 == q \div Slots
             content == [s.d.data[b] EXCEPT !.entry[j0] = new]
  <2>1. r = [ok |-> TRUE, s |-> ext2_write_block(s, b, content)]
    BY <1>4 DEF ext2_add_dir_entry, WriteEntry
  <2>2. q \in Positions /\ Formatted(s.d, b) /\ s.d.data[b].entry[j0].inode = 0
    <3>1. room \in SUBSET Nat
      BY PositionIs
    <3>2. q \in room
      BY <1>4, <3>1, MinIn
    <3> QED
      BY <3>2
  <2> HIDE DEF q
  <2>3. i0 \in 0 .. Direct - 1 /\ j0 \in 0 .. Slots - 1
    BY <2>2, PositionIs
  <2>4. b = s.d.node[p].i_block[i0] /\ b # 0 /\ s.d.data[b].kind = "dir"
    <3>1. b # 0 /\ s.d.data[b].kind = "dir"
      BY <2>2 DEF Formatted
    <3>2. b = s.d.node[p].i_block[i0]
      BY <2>3, <3>1, IndexIs DEF BlockAt, ext2_get_file_block
    <3> QED
      BY <3>1, <3>2
  <2> HIDE DEF b, i0, j0
  <2>5. b \in Blocks /\ s.d.data[b] \in Contents
    <3>1. s.d.node[p].i_block \in [0 .. Direct - 1 -> Blocks \cup {0}]
      BY <1>2, DiskIs
    <3>2. b \in Blocks
      BY <2>3, <2>4, <3>1
    <3> QED
      BY <1>2, <3>2, DiskIs
  <2>6. s.d.data[b] \in DirContents
    BY <2>4, <2>5, DirContent
  <2>7. /\ content \in DirContents /\ content.entry[j0] = new
        /\ \A l \in 0 .. Slots - 1 : l # j0 => content.entry[l] = s.d.data[b].entry[l]
    <3> DEFINE old == s.d.data[b]
               entry == [old.entry EXCEPT ![j0] = new]
    <3>1. old \in DirContents
      BY <2>6
    <3>2. content = [old EXCEPT !.entry = entry]
      BY Zenon
    <3> HIDE DEF old
    <3>3. /\ entry \in [0 .. Slots - 1 -> DirEntries] /\ entry[j0] = new
          /\ \A l \in 0 .. Slots - 1 : l # j0 => entry[l] = old.entry[l]
      BY <1>1, <2>3, <3>1 DEF DirContents
    <3> HIDE DEF entry, content
    <3>4. content \in DirContents /\ content.entry = entry
      BY <3>1, <3>2, <3>3 DEF DirContents
    <3> QED
      BY <3>3, <3>4 DEF old
  <2> HIDE DEF content
  <2>8. content \in Contents /\ content.kind = "dir"
    BY <2>7, DirContent DEF DirContents
  <2>9. OneMoreEntry(s.d, b, content, j0, new)
    BY <2>4, <2>7, <2>8 DEF OneMoreEntry
  <2>10. Ready(ext2_write_block(s, b, content), n, S \cup {c}, With(A, p, c))
    BY <2>3, <2>4, <2>8, <2>9, EntryWritten
  <2> QED
    BY <2>1, <2>10 DEF Added
<1> QED
  BY <1>3, <1>4

-----------------------------------------------------------------------------
(* The calls *)

\* An inode as a call makes it.
LEMMA NodeIs ==
    ASSUME NEW kind \in {"none", "file", "dir"}, NEW u \in Users
    PROVE  /\ Node(kind, u) \in Nodes /\ Node(kind, u).indirect = 0
           /\ \A i \in 0 .. Direct - 1 : Node(kind, u).i_block[i] = 0
<1> DEFINE mode == IF kind = "dir" THEN DirMode ELSE FileMode
<1>1. mode \in SUBSET Rights
  BY DEF DirMode, FileMode, Rights
<1>2. NoBlocks \in [0 .. Direct - 1 -> Blocks \cup {0}] /\ \A i \in 0 .. Direct - 1 : NoBlocks[i] = 0
  BY DEF NoBlocks
<1>3. 0 \in 0 .. Direct + 1
  BY IndexIs
<1>4. Node(kind, u) = [kind |-> kind, uid |-> u, gid |-> u, size |-> 0, mode |-> mode,
                       i_block |-> NoBlocks, indirect |-> 0]
  BY DEF Node
<1> HIDE DEF mode
<1> QED
  BY <1>1, <1>2, <1>3, <1>4 DEF Nodes

\* That of a directory has a block.
DirNode(u, q) == [Node("dir", u) EXCEPT !.i_block[0] = q, !.size = 1]
\* It is the first direct one.
LEMMA DirNodeIs ==
    ASSUME NEW u \in Users, NEW q \in Blocks
    PROVE  /\ DirNode(u, q) \in Nodes /\ DirNode(u, q).indirect = 0 /\ DirNode(u, q).i_block[0] = q
           /\ \A i \in 1 .. Direct - 1 : DirNode(u, q).i_block[i] = 0
<1> DEFINE node == Node("dir", u)
           blocks == [node.i_block EXCEPT ![0] = q]
<1>1. node \in Nodes /\ node.indirect = 0 /\ \A i \in 0 .. Direct - 1 : node.i_block[i] = 0
  BY NodeIs
<1>2. DirNode(u, q) = [node EXCEPT !.i_block = blocks, !.size = 1]
  BY Zenon DEF DirNode
<1> HIDE DEF node
<1>3. /\ blocks \in [0 .. Direct - 1 -> Blocks \cup {0}] /\ blocks[0] = q
      /\ \A i \in 1 .. Direct - 1 : blocks[i] = 0
  BY <1>1, IndexIs DEF Nodes
<1>4. 1 \in 0 .. Direct + 1
  BY IndexIs
<1> HIDE DEF blocks
<1>5. DirNode(u, q) \in Nodes /\ DirNode(u, q).i_block = blocks /\ DirNode(u, q).indirect = node.indirect
  BY <1>1, <1>2, <1>3, <1>4 DEF Nodes
<1> QED
  BY <1>1, <1>3, <1>5

\* The block of a new directory.
LEMMA DotsIs ==
    ASSUME NEW c \in Inodes, NEW p \in Inodes
    PROVE  /\ Dots(c, p) \in Contents /\ Dots(c, p).kind = "dir"
           /\ \A l \in 0 .. Slots - 1 :
                 Dots(c, p).entry[l].inode # 0 =>
                     \/ Dots(c, p).entry[l].name = "." /\ Dots(c, p).entry[l].inode = c
                     \/ Dots(c, p).entry[l].name = ".." /\ Dots(c, p).entry[l].inode = p
<1> DEFINE one == [inode |-> c, name |-> "."]
           two == [inode |-> p, name |-> ".."]
           entry == [j \in 0 .. Slots - 1 |-> IF j < Len(<<one, two>>) THEN <<one, two>>[j + 1] ELSE NoEntry]
<1>1. Dots(c, p) = [kind |-> "dir", entry |-> entry]
  BY DEF Dots, DirBlock
<1>2. NoEntry \in DirEntries /\ NoEntry.inode = 0 /\ one \in DirEntries /\ two \in DirEntries
  BY DEF NoEntry, DirEntries
<1>3. Len(<<one, two>>) = 2 /\ <<one, two>>[1] = one /\ <<one, two>>[2] = two
  OBVIOUS
<1>4. \A l \in 0 .. Slots - 1 : entry[l] = one \/ entry[l] = two \/ entry[l] = NoEntry
  <2> SUFFICES ASSUME NEW l \in 0 .. Slots - 1 PROVE entry[l] = one \/ entry[l] = two \/ entry[l] = NoEntry
    OBVIOUS
  <2> HIDE DEF one, two
  <2>1. CASE l = 0
    BY <1>3, <2>1
  <2>2. CASE l = 1
    BY <1>3, <2>2
  <2>3. CASE l # 0 /\ l # 1
    BY <1>3, <2>3, IndexIs
  <2> QED
    BY <2>1, <2>2, <2>3
<1>5. entry \in [0 .. Slots - 1 -> DirEntries]
  <2>1. \A l \in 0 .. Slots - 1 : entry[l] \in DirEntries
    <3> HIDE DEF one, two, entry
    <3> QED
      BY <1>2, <1>4
  <2>2. entry = [l \in 0 .. Slots - 1 |-> entry[l]]
    OBVIOUS
  <2> HIDE DEF entry
  <2> QED
    BY <2>1, <2>2
<1> HIDE DEF entry
<1>6. [kind |-> "dir", entry |-> entry] \in DirContents
  BY <1>5 DEF DirContents
<1>7. \A l \in 0 .. Slots - 1 :
          entry[l].inode # 0 => \/ entry[l].name = "." /\ entry[l].inode = c
                                \/ entry[l].name = ".." /\ entry[l].inode = p
  BY <1>2, <1>4
<1> QED
  BY <1>1, <1>6, <1>7, DirContent

\* An inode that is not in S is taken.
LEMMA InodeTaken ==
    ASSUME NEW n \in Nat, NEW s, NEW S, NEW A, Ready(s, n, S, A), NEW a, a = ext2_allocate(s, "inode"), a.unit # 0
    PROVE  /\ a.unit \in Inodes /\ a.unit \notin S /\ Ready(a.s, n, S, A) /\ a.unit \in a.s.d.used["inode"]
<1> DEFINE c == a.unit
           U == s.d.used["inode"] \cup {c}
           d == s.d
           e == a.s.d
<1>1. "inode" \in Kinds /\ Units("inode") = Inodes
  BY DEF Kinds, Units
<1>2. Ready(a.s, n, S, A) /\ Takes(a, s, "inode")
  BY <1>1, ReadyAllocate
<1>3. c \in Inodes /\ c \notin s.d.used["inode"] /\ Marked(e, d, WithBitmap(d.used, "inode", U))
  BY <1>1, <1>2 DEF Takes
<1>4. d \in Disks /\ d.used \in Bitmaps /\ Sound(d, S, A)
  BY ReadyIs
<1>5. c \notin S
  BY <1>3, <1>4 DEF Sound, MarkedIn
<1>6. U \in SUBSET Inodes
  <2>1. d.used["inode"] \subseteq Units("inode")
    BY <1>1, <1>4 DEF Bitmaps
  <2> QED
    BY <1>1, <1>3, <2>1
<1>7. c \in U
  OBVIOUS
<1> HIDE DEF d, e, U, c
<1>8. e.used["inode"] = U
  <2>1. d \in Disks /\ U \in SUBSET Inodes /\ Marked(e, d, WithBitmap(d.used, "inode", U))
    BY <1>3, <1>4, <1>6
  <2>2. e.used["inode"] = U /\ e.used["block"] = d.used["block"] /\ e.node = d.node /\ e.data = d.data
    BY <2>1, InodesMarked, ZenonT(30)
  <2> QED
    BY <2>2
<1> QED
  BY <1>2, <1>3, <1>5, <1>7, <1>8 DEF e, c

\* An inode that is not in S is given back.
LEMMA InodeGiven ==
    ASSUME NEW n \in Nat, NEW s, NEW S, NEW A, Ready(s, n, S, A), NEW c \in Inodes, c \notin S, c \in s.d.used["inode"]
    PROVE  Ready(ext2_free(s, "inode", c), n, S, A)
<1>1. "inode" \in Kinds /\ c \in Units("inode") /\ Spare(s.d, S, "inode", c)
  BY DEF Kinds, Units, Spare
<1> QED
  BY <1>1, ReadyFree

\* An inode that is not in S is written.
Wrote(t, s, S, c, node) ==
    /\ t.d.node[c] = node /\ t.d.data = s.d.data /\ t.d.used = s.d.used
    /\ \A x : Unpointed(s.d, S, x) => Unpointed(t.d, S, x)
\* No pointer of S sees it.
LEMMA OutsideWritten ==
    ASSUME NEW n \in Nat, NEW s, NEW S, NEW A, Ready(s, n, S, A), NEW c \in Inodes, c \notin S, NEW node \in Nodes,
           NEW t, t = ext2_write_inode_sync(s, c, node)
    PROVE  Ready(t, n, S, A) /\ Wrote(t, s, S, c, node)
<1> DEFINE d == s.d
           e == NewNode(d, c, node)
<1>1. d \in Disks /\ Sound(d, S, A) /\ S \subseteq Inodes
  BY ReadyIs DEF Sound, Ancestors
<1> HIDE DEF d
<1>2. /\ e \in Disks /\ SameUnits(d, e) /\ e.data = d.data /\ e.node[c] = node
      /\ \A x \in Inodes : x # c => e.node[x] = d.node[x]
  BY <1>1, NewNodeIs
<1> HIDE DEF e
<1>3. SamePointers(d, e, S)
  BY <1>1, <1>2 DEF SamePointers
<1>4. Sound(e, S, A) /\ \A m \in S : \A i \in 0 .. Direct + 1 : Pointer(e, m, i) = Pointer(d, m, i)
  BY <1>1, <1>2, <1>3, SoundSame DEF SameUnits
<1>5. Ready(t, n, S, A) /\ t.d = e
  <2>1. Sound(NewNode(s.d, c, node), S, A)
    BY <1>4 DEF e, d
  <2>2. /\ Ready(ext2_write_inode_sync(s, c, node), n, S, A)
        /\ ext2_write_inode_sync(s, c, node).d = NewNode(s.d, c, node)
    BY <2>1, ReadyInode
  <2> QED
    BY <2>2 DEF e, d
<1>6. \A x : Unpointed(d, S, x) => Unpointed(e, S, x)
  BY <1>4 DEF Unpointed
<1> QED
  BY <1>2, <1>5, <1>6 DEF SameUnits, d, Wrote

\* What a call other than a delete leaves.
Whole(s, n) == \E S, A : Ready(s, n, S, A)

\* A new file in directory p.
LEMMA FileMade ==
    ASSUME NEW n \in Nat, NEW s, NEW S, NEW A, Ready(s, n, S, A), NEW p \in S, NEW u \in Users, NEW name \in Names,
           NEW r, r = FileIn(ext2_allocate(s, "inode"), u, p, name)
    PROVE  Whole(r.s, n)
<1> DEFINE a == ext2_allocate(s, "inode")
           c == a.unit
<1>1. CASE c = 0
  <2>1. r.s = a.s
    BY <1>1 DEF FileIn, Failed
  <2>2. Ready(a.s, n, S, A)
    BY ReadyAllocate DEF Kinds
  <2> QED
    BY <2>1, <2>2 DEF Whole
<1>2. CASE c # 0
  <2> DEFINE t == ext2_write_inode_sync(a.s, c, Node("file", u))
             b == ext2_add_dir_entry(t, p, c, name)
  <2>1. r = IF b.ok THEN b ELSE [ok |-> FALSE, s |-> ext2_free(b.s, "inode", c)]
    BY <1>2 DEF FileIn, NamedFile, Failed
  <2>2. c \in Inodes /\ c \notin S /\ Ready(a.s, n, S, A) /\ c \in a.s.d.used["inode"]
    BY <1>2, InodeTaken
  <2>3. /\ Node("file", u) \in Nodes /\ Node("file", u).indirect = 0
        /\ \A i \in 0 .. Direct - 1 : Node("file", u).i_block[i] = 0
    BY NodeIs
  <2>9. t = ext2_write_inode_sync(a.s, c, Node("file", u)) /\ b = ext2_add_dir_entry(t, p, c, name)
    OBVIOUS
  <2> HIDE DEF t, b, c, a
  <2>4. Ready(t, n, S, A) /\ Wrote(t, a.s, S, c, Node("file", u))
    BY <2>2, <2>3, <2>9, OutsideWritten
  <2>5. Fresh(t.d, S, c, p) /\ c \in t.d.used["inode"]
    <3>1. t.d.node[c] = Node("file", u) /\ t.d.used = a.s.d.used
      BY <2>4 DEF Wrote
    <3>2. t.d.node[c].indirect = 0 /\ \A i \in 0 .. Direct - 1 : t.d.node[c].i_block[i] = 0
      BY <2>3, <3>1
    <3>3. Fresh(t.d, S, c, p)
      <4>1. t.d.node[c].i_block[0] = 0 /\ \A i \in 1 .. Direct - 1 : t.d.node[c].i_block[i] = 0
        BY <3>2, IndexIs
      <4> QED
        BY <3>2, <4>1, Zenon DEF Fresh
    <3> QED
      BY <2>2, <3>1, <3>3
  <2>6. Added(b, n, S, A, p, c)
    BY <2>2, <2>4, <2>5, <2>9, AddIs
  <2>7. CASE b.ok = TRUE
    BY <2>1, <2>6, <2>7 DEF Added, Whole
  <2>8. CASE b.ok = FALSE
    <3>1. Ready(b.s, n, S, A) /\ c \in b.s.d.used["inode"]
      BY <2>6, <2>8 DEF Added
    <3>2. Ready(ext2_free(b.s, "inode", c), n, S, A)
      BY <2>2, <3>1, InodeGiven
    <3> QED
      BY <2>1, <2>8, <3>2 DEF Whole
  <2> QED
    BY <2>6, <2>7, <2>8 DEF Added
<1> QED
  BY <1>1, <1>2

\* An inode of S is written, with the pointers it had.
SamePlaces(new, old) == new.kind = old.kind /\ new.i_block = old.i_block /\ new.indirect = old.indirect
\* The set stays sound.
LEMMA InodeWritten ==
    ASSUME NEW n \in Nat, NEW s, NEW S, NEW A, Ready(s, n, S, A), NEW p \in S, NEW node \in Nodes,
           SamePlaces(node, s.d.node[p])
    PROVE  Ready(ext2_write_inode_sync(s, p, node), n, S, A)
<1> DEFINE d == s.d
           e == NewNode(d, p, node)
<1>1. d \in Disks /\ Sound(d, S, A) /\ S \subseteq Inodes /\ p \in Inodes /\ SamePlaces(node, d.node[p])
  BY ReadyIs DEF Sound, Ancestors
<1> HIDE DEF d
<1>3. /\ e \in Disks /\ SameUnits(d, e) /\ e.data = d.data /\ e.node[p] = node
      /\ \A x \in Inodes : x # p => e.node[x] = d.node[x]
  BY <1>1, NewNodeIs
<1> HIDE DEF e
<1>4. SamePointers(d, e, S)
  BY <1>1, <1>3 DEF SamePointers, SamePlaces
<1>5. Sound(e, S, A)
  BY <1>1, <1>3, <1>4, SoundSame DEF SameUnits
<1>7. Sound(NewNode(s.d, p, node), S, A)
  BY <1>5 DEF e, d
<1> QED
  BY <1>1, <1>7, ReadyInode

\* The inode of the parent is written as it is.
LEMMA ParentWritten ==
    ASSUME NEW n \in Nat, NEW s, NEW S, NEW A, Ready(s, n, S, A), NEW p \in S
    PROVE  Ready(ext2_write_inode_sync(s, p, s.d.node[p]), n, S, A)
<1>1. s.d \in Disks /\ p \in Inodes
  BY ReadyIs DEF Sound, Ancestors
<1>2. s.d.node[p] \in Nodes
  BY <1>1, DiskIs
<1>3. SamePlaces(s.d.node[p], s.d.node[p])
  BY DEF SamePlaces
<1> QED
  BY <1>2, <1>3, InodeWritten

\* A new directory in directory p.
LEMMA DirMade ==
    ASSUME NEW n \in Nat, NEW s, NEW S, NEW A, Ready(s, n, S, A), NEW p \in S, NEW u \in Users, NEW name \in Names,
           NEW r, r = DirIn(ext2_allocate(s, "inode"), u, p, name)
    PROVE  Whole(r.s, n)
<1> DEFINE a == ext2_allocate(s, "inode")
           c == a.unit
           b == ext2_allocate(a.s, "block")
           q == b.unit
<1>1. CASE c = 0
  <2>1. r.s = a.s
    BY <1>1 DEF DirIn, Failed
  <2>2. Ready(a.s, n, S, A)
    BY ReadyAllocate DEF Kinds
  <2> QED
    BY <2>1, <2>2 DEF Whole
<1>2. CASE c # 0
  <2>1. r = DirWith(b, c, u, p, name)
    BY <1>2 DEF DirIn
  <2>2. c \in Inodes /\ c \notin S /\ Ready(a.s, n, S, A) /\ c \in a.s.d.used["inode"]
    BY <1>2, InodeTaken
  <2>3. b = ext2_allocate(a.s, "block") /\ q = b.unit
    OBVIOUS
  <2> HIDE DEF a, c, b, q
  <2>4. CASE q = 0
    <3>1. r.s = ext2_free(b.s, "inode", c)
      BY <2>1, <2>3, <2>4 DEF DirWith, Failed
    <3>2. b.s = a.s
      <4>1. Takes(b, a.s, "block")
        BY <2>2, <2>3, ReadyAllocate DEF Kinds
      <4> QED
        BY <2>3, <2>4, <4>1, UnitIs DEF Takes, Units
    <3>3. Ready(ext2_free(b.s, "inode", c), n, S, A)
      BY <2>2, <3>2, InodeGiven
    <3> QED
      BY <3>1, <3>3 DEF Whole
  <2>5. CASE q # 0
    <3> DEFINE t == ext2_write_inode_sync(b.s, c, DirNode(u, q))
               z == ext2_write_block(t, q, Dots(c, p))
               e == ext2_add_dir_entry(z, p, c, name)
    <3>1. r = NamedDir(e, p)
      BY <2>1, <2>3, <2>5 DEF DirWith, DirNode
    <3>2. /\ q \in Blocks /\ Ready(b.s, n, S, A) /\ b.s.d.used["inode"] = a.s.d.used["inode"]
          /\ Unpointed(b.s.d, S, q) /\ b.s.d.used["block"] = a.s.d.used["block"] \cup {q}
      BY <2>2, <2>3, <2>5, BlockTaken
    <3>3. /\ DirNode(u, q) \in Nodes /\ DirNode(u, q).indirect = 0 /\ DirNode(u, q).i_block[0] = q
          /\ \A i \in 1 .. Direct - 1 : DirNode(u, q).i_block[i] = 0
      BY <3>2, DirNodeIs
    <3>4. t = ext2_write_inode_sync(b.s, c, DirNode(u, q)) /\ z = ext2_write_block(t, q, Dots(c, p))
          /\ e = ext2_add_dir_entry(z, p, c, name)
      OBVIOUS
    <3> HIDE DEF t, z, e
    <3>5. /\ Ready(t, n, S, A) /\ t.d.node[c] = DirNode(u, q) /\ t.d.used = b.s.d.used
          /\ Unpointed(t.d, S, q)
      <4>1. Ready(t, n, S, A) /\ Wrote(t, b.s, S, c, DirNode(u, q))
        BY <2>2, <3>2, <3>3, <3>4, OutsideWritten
      <4> QED
        BY <3>2, <4>1 DEF Wrote
    <3>6. p \in Inodes
      BY ReadyIs DEF Sound, Ancestors
    <3>7. /\ Dots(c, p) \in Contents /\ Dots(c, p).kind = "dir"
          /\ \A l \in 0 .. Slots - 1 :
                 Dots(c, p).entry[l].inode # 0 =>
                     \/ Dots(c, p).entry[l].name = "." /\ Dots(c, p).entry[l].inode = c
                     \/ Dots(c, p).entry[l].name = ".." /\ Dots(c, p).entry[l].inode = p
      BY <2>2, <3>6, DotsIs
    <3>8. /\ Ready(z, n, S, A) /\ z.d.node = t.d.node /\ z.d.used = t.d.used /\ Unpointed(z.d, S, q)
          /\ z.d.data[q] = Dots(c, p)
      BY <3>2, <3>4, <3>5, <3>7, AsideWritten
    <3>9. Fresh(z.d, S, c, p) /\ c \in z.d.used["inode"]
      <4>1. z.d.node[c].i_block[0] = q /\ z.d.node[c].indirect = 0 /\ \A i \in 1 .. Direct - 1 : z.d.node[c].i_block[i] = 0
        BY <3>3, <3>5, <3>8
      <4>2. q \in z.d.used["block"] /\ c \in z.d.used["inode"]
        BY <2>2, <3>2, <3>5, <3>8
      <4>3. Fresh(z.d, S, c, p)
        BY <3>7, <3>8, <4>1, <4>2, SMTT(30) DEF Fresh
      <4> QED
        BY <4>2, <4>3
    <3>10. Added(e, n, S, A, p, c)
      BY <2>2, <3>4, <3>8, <3>9, AddIs
    <3>11. CASE e.ok = TRUE
      <4>1. Ready(e.s, n, S \cup {c}, With(A, p, c)) /\ p \in S \cup {c}
        BY <3>10, <3>11 DEF Added
      <4>2. Ready(ext2_write_inode_sync(e.s, p, e.s.d.node[p]), n, S \cup {c}, With(A, p, c))
        BY <4>1, ParentWritten
      <4>3. r.s = ext2_write_inode_sync(e.s, p, e.s.d.node[p])
        BY <3>1, <3>11 DEF NamedDir, Done
      <4> QED
        BY <4>2, <4>3 DEF Whole
    <3>12. CASE e.ok = FALSE
      BY <3>1, <3>10, <3>12 DEF NamedDir, Added, Whole
    <3> QED
      BY <3>10, <3>11, <3>12 DEF Added
  <2> QED
    BY <2>4, <2>5
<1> QED
  BY <1>1, <1>2

\* The directory of a path, or 0.
LEMMA ParentIn ==
    ASSUME NEW n \in Nat, NEW s, NEW S, NEW A, Ready(s, n, S, A), NEW u, NEW path \in Paths
    PROVE  Parent(s, u, path) \in S \cup {0} /\ Last(path) \in Names
<1>1. s.d \in Disks /\ Sound(s.d, S, A)
  BY ReadyIs
<1>2. Front(path) \in AllPaths /\ Last(path) \in Names
  BY FrontIs
<1>3. ext2_resolve_path(s.d, u, Front(path)) \in S \cup {0}
  BY <1>1, <1>2, ResolveIs
<1> QED
  BY <1>2, <1>3 DEF Parent, Writable

\* ext2_create_file and ext2_create_dir.
LEMMA CreateFileWhole ==
    ASSUME NEW n \in Nat, NEW s, NEW S, NEW A, Ready(s, n, S, A), NEW u \in Users, NEW path \in Paths
    PROVE  Whole(ext2_create_file(s, u, path).s, n)
<1> DEFINE p == Parent(s, u, path)
           name == Last(path)
<1>1. p \in S \cup {0} /\ name \in Names
  BY ParentIn
<1>2. ext2_create_file(s, u, path) = IF p = 0 THEN Failed(s) ELSE FileIn(ext2_allocate(s, "inode"), u, p, name)
  BY DEF ext2_create_file, CreateFileIn
<1> HIDE DEF p, name
<1>3. CASE p = 0
  BY <1>2, <1>3 DEF Failed, Whole
<1>4. CASE p # 0
  BY <1>1, <1>2, <1>4, FileMade
<1> QED
  BY <1>3, <1>4

\* ext2_create_dir.
LEMMA CreateDirWhole ==
    ASSUME NEW n \in Nat, NEW s, NEW S, NEW A, Ready(s, n, S, A), NEW u \in Users, NEW path \in Paths
    PROVE  Whole(ext2_create_dir(s, u, path).s, n)
<1> DEFINE p == Parent(s, u, path)
           name == Last(path)
<1>1. p \in S \cup {0} /\ name \in Names
  BY ParentIn
<1>2. ext2_create_dir(s, u, path) = IF p = 0 THEN Failed(s) ELSE DirIn(ext2_allocate(s, "inode"), u, p, name)
  BY DEF ext2_create_dir, CreateDirIn
<1> HIDE DEF p, name
<1>3. CASE p = 0
  BY <1>2, <1>3 DEF Failed, Whole
<1>4. CASE p # 0
  BY <1>1, <1>2, <1>4, DirMade
<1> QED
  BY <1>3, <1>4

\* An inode of S gets another owner or other rights.
LEMMA SetNodeWhole ==
    ASSUME NEW n \in Nat, NEW s, NEW S, NEW A, Ready(s, n, S, A), NEW m \in S \cup {0}, NEW u, NEW new,
           m # 0 => new \in Nodes /\ SamePlaces(new, s.d.node[m])
    PROVE  Whole(SetNode(s, m, u, new).s, n)
<1> DEFINE r == SetNode(s, m, u, new)
<1>1. CASE m = 0 \/ (u # 0 /\ s.d.node[m].uid # u)
  <2>1. r.s = s
    BY <1>1 DEF SetNode, Failed
  <2> QED
    BY <2>1 DEF Whole
<1>2. CASE ~(m = 0 \/ (u # 0 /\ s.d.node[m].uid # u))
  <2>1. r.s = ext2_write_inode_sync(s, m, new)
    BY <1>2 DEF SetNode, Done
  <2>2. Ready(ext2_write_inode_sync(s, m, new), n, S, A)
    BY <1>2, InodeWritten
  <2> QED
    BY <2>1, <2>2 DEF Whole
<1> QED
  BY <1>1, <1>2

\* An inode of the disk that a path leads to.
LEMMA MemberIs ==
    ASSUME NEW n \in Nat, NEW s, NEW S, NEW A, Ready(s, n, S, A), NEW u, NEW path \in AllPaths,
           NEW m, m = ext2_resolve_path(s.d, u, path)
    PROVE  m \in S \cup {0} /\ (m # 0 => m \in Inodes /\ s.d.node[m] \in Nodes)
<1>1. s.d \in Disks /\ Sound(s.d, S, A) /\ S \subseteq Inodes
  BY ReadyIs DEF Sound, Ancestors
<1>2. m \in S \cup {0}
  BY <1>1, ResolveIs
<1> QED
  BY <1>1, <1>2, DiskIs

\* ext2_chown and ext2_chmod.
LEMMA ChownWhole ==
    ASSUME NEW n \in Nat, NEW s, NEW S, NEW A, Ready(s, n, S, A), NEW u, NEW path \in AllPaths,
           NEW uid \in Users, NEW gid \in Users
    PROVE  Whole(ext2_chown(s, u, path, uid, gid).s, n)
<1> DEFINE m == ext2_resolve_path(s.d, u, path)
           old == s.d.node[m]
           new == [old EXCEPT !.uid = uid, !.gid = gid]
<1>1. m \in S \cup {0} /\ (m # 0 => m \in Inodes /\ old \in Nodes)
  BY MemberIs
<1>2. ext2_chown(s, u, path, uid, gid) = SetNode(s, m, u, new)
  BY DEF ext2_chown
<1> HIDE DEF m
<1>3. ASSUME m # 0 PROVE new \in Nodes /\ SamePlaces(new, old)
  <2>1. old \in Nodes
    BY <1>1, <1>3
  <2> HIDE DEF old
  <2> QED
    BY <2>1 DEF Nodes, SamePlaces
<1> HIDE DEF new
<1> QED
  BY <1>1, <1>2, <1>3, SetNodeWhole

\* ext2_chmod.
LEMMA ChmodWhole ==
    ASSUME NEW n \in Nat, NEW s, NEW S, NEW A, Ready(s, n, S, A), NEW u, NEW path \in AllPaths,
           NEW mode \in SUBSET Rights
    PROVE  Whole(ext2_chmod(s, u, path, mode).s, n)
<1> DEFINE m == ext2_resolve_path(s.d, u, path)
           old == s.d.node[m]
           new == [old EXCEPT !.mode = mode]
<1>1. m \in S \cup {0} /\ (m # 0 => m \in Inodes /\ old \in Nodes)
  BY MemberIs
<1>2. ext2_chmod(s, u, path, mode) = SetNode(s, m, u, new)
  BY DEF ext2_chmod
<1> HIDE DEF m
<1>3. ASSUME m # 0 PROVE new \in Nodes /\ SamePlaces(new, old)
  <2>1. old \in Nodes
    BY <1>1, <1>3
  <2> HIDE DEF old
  <2> QED
    BY <2>1 DEF Nodes, SamePlaces
<1> HIDE DEF new
<1> QED
  BY <1>1, <1>2, <1>3, SetNodeWhole

-----------------------------------------------------------------------------
(* Writing a file                                                          *)

\* What is sound with another inode in the place of one stays so when the
\* bitmaps grow or change where nothing in S points to.
LEMMA InsteadMarked ==
    ASSUME NEW d \in Disks, NEW e \in Disks, NEW S, NEW A, NEW m \in Inodes, NEW node \in Nodes,
           Sound(NewNode(d, m, node), S, A), e.node = d.node, e.data = d.data,
           d.used["block"] \subseteq e.used["block"], d.used["inode"] \subseteq e.used["inode"]
    PROVE  Sound(NewNode(e, m, node), S, A)
<1> DEFINE x == NewNode(d, m, node)
           y == NewNode(e, m, node)
<1>1. /\ x \in Disks /\ SameUnits(d, x) /\ x.data = d.data /\ x.node[m] = node
      /\ y \in Disks /\ SameUnits(e, y) /\ y.data = e.data /\ y.node[m] = node
  BY NewNodeIs
<1>2. x.node = [d.node EXCEPT ![m] = node] /\ y.node = [e.node EXCEPT ![m] = node]
  BY DEF NewNode, Disks
<1>3. Sound(x, S, A)
  OBVIOUS
<1> HIDE DEF x, y
<1>4. x.node = y.node /\ x.data = y.data
  BY <1>1, <1>2
<1>5. \A a, i : Pointer(y, a, i) = Pointer(x, a, i)
  BY <1>4 DEF Pointer, ext2_get_file_block
<1>6. x.used["block"] \subseteq y.used["block"] /\ x.used["inode"] \subseteq y.used["inode"]
  BY <1>1 DEF SameUnits
<1>7. MarkedIn(y, S)
  BY <1>3, <1>5, <1>6 DEF Sound, MarkedIn
<1>8. Sound(y, S, A)
  BY <1>3, <1>4, <1>7, SoundMarked
<1> QED
  BY <1>8 DEF y

\* The block of a file for an index.
LEMMA FileBlockIs ==
    ASSUME NEW d \in Disks, NEW S, NEW A, Sound(d, S, A), NEW m \in S, NEW i \in Nat,
           NEW b, b = ext2_get_file_block(d, d.node[m], i), b # 0
    PROVE  b \in Blocks /\ i <= Direct /\ \A x \in S : d.node[x].indirect # b
<1>0. S \subseteq Inodes /\ m \in Inodes /\ ApartIn(d, S) /\ IndirectIn(d, S)
  BY DEF Sound, Ancestors
<1>1. CASE i < Direct
  <2>1. b = d.node[m].i_block[i] /\ i \in 0 .. Direct - 1
    BY <1>1, IndexIs DEF ext2_get_file_block
  <2>2. b \in Blocks /\ \A x \in S : d.node[x].indirect # b
    BY <2>1, DirectIs
  <2> QED
    BY <1>1, <2>2, IndexIs
<1>2. CASE ~(i < Direct)
  <2>1. i = Direct /\ d.node[m].indirect # 0 /\ b = d.data[d.node[m].indirect].to
    BY <1>2 DEF ext2_get_file_block
  <2>2. d.data[d.node[m].indirect] \in [kind : {"indirect"}, to : Blocks]
    BY <2>1, <1>0 DEF IndirectIn
  <2>3. b \in Blocks
    BY <2>1, <2>2
  <2>4. Pointer(d, m, Direct + 1) = b
    BY <1>0, <2>1, PointerIs
  <2>5. ASSUME NEW x \in S, d.node[x].indirect = b PROVE FALSE
    <3>1. Pointer(d, x, Direct) = b /\ x \in Inodes
      BY <1>0, <2>5, PointerIs
    <3> QED
      BY <1>0, <2>4, <3>1, IndexIs DEF ApartIn
  <2> QED
    BY <2>1, <2>3, <2>5, IndexIs
<1> QED
  BY <1>1, <1>2

\* The volume and the inode of a write so far: the inode is on the disk as it
\* was, and would be as sound as it is now.
Instead(s, m, node, n, S, A) ==
    /\ Ready(s, n, S, A) /\ node \in Nodes /\ node.indirect = s.d.node[m].indirect
    /\ Sound(NewNode(s.d, m, node), S, A)

\* A block that the file has is written.
LEMMA BlockWritten ==
    ASSUME NEW n \in Nat, NEW s, NEW S, NEW A, NEW m \in S, NEW node, Instead(s, m, node, n, S, A),
           NEW i \in Nat, NEW b, b = ext2_get_file_block(s.d, node, i), b # 0, NEW v \in Values
    PROVE  Instead(ext2_write_block(s, b, DataBlock(v)), m, node, n, S, A) /\ i <= Direct
<1> DEFINE d == s.d
           h == NewNode(d, m, node)
           content == DataBlock(v)
           e == NewData(d, b, content)
           g == NewNode(e, m, node)
           t == ext2_write_block(s, b, content)
<1>1. d \in Disks /\ Sound(d, S, A) /\ S \subseteq Inodes /\ m \in Inodes /\ Ready(s, n, S, A)
      /\ node \in Nodes /\ node.indirect = d.node[m].indirect /\ Sound(h, S, A)
  BY ReadyIs DEF Sound, Ancestors, Instead
<1>2. content \in Contents /\ content.kind # "dir"
  BY DEF Contents, DataBlock
<1>9. b = ext2_get_file_block(d, node, i)
  OBVIOUS
<1> HIDE DEF d, content
<1>3. /\ h \in Disks /\ h.data = d.data /\ h.node[m] = node /\ SameUnits(d, h)
      /\ \A x \in Inodes : x # m => h.node[x] = d.node[x]
  BY <1>1, NewNodeIs
<1>4. b = ext2_get_file_block(h, h.node[m], i)
  BY <1>3, <1>9 DEF ext2_get_file_block
<1>10. Sound(h, S, A)
  BY <1>1
<1> HIDE DEF h
<1>5. b \in Blocks /\ i <= Direct /\ \A x \in S : h.node[x].indirect # b
  BY <1>3, <1>4, <1>10, FileBlockIs
<1>6. \A x \in S : d.node[x].indirect # b
  BY <1>1, <1>3, <1>5
<1>7. e \in Disks /\ Rewrites(d, e, b, content) /\ SameUnits(d, e)
  BY <1>1, <1>2, <1>5, NewDataIs
<1> HIDE DEF e
<1>8. /\ g \in Disks /\ g.data = e.data /\ g.node[m] = node /\ SameUnits(e, g)
      /\ \A x \in Inodes : x # m => g.node[x] = e.node[x]
  BY <1>1, <1>7, NewNodeIs
<1>11. g.node = [e.node EXCEPT ![m] = node] /\ h.node = [d.node EXCEPT ![m] = node]
  BY <1>1, <1>7 DEF NewNode, Disks, h
<1>12. Sound(e, S, A)
  BY <1>1, <1>2, <1>5, <1>6, <1>7, SoundBlock DEF NoNewEntry
<1> HIDE DEF g
<1>13. Rewrites(h, g, b, content)
  BY <1>3, <1>7, <1>8, <1>11 DEF Rewrites, SameUnits
<1>14. Sound(g, S, A)
  BY <1>2, <1>3, <1>5, <1>8, <1>10, <1>13, SoundBlock DEF NoNewEntry
<1>15. Ready(t, n, S, A) /\ t.d = e
  <2>1. Sound(NewData(s.d, b, content), S, A)
    BY <1>12 DEF e, d
  <2>2. Ready(ext2_write_block(s, b, content), n, S, A) /\ ext2_write_block(s, b, content).d = NewData(s.d, b, content)
    BY <1>1, <1>2, <1>5, <2>1, ReadyBlock
  <2> QED
    BY <2>2 DEF e, d
<1>16. Sound(NewNode(t.d, m, node), S, A)
  BY <1>14, <1>15 DEF g
<1>17. node.indirect = t.d.node[m].indirect
  BY <1>1, <1>7, <1>15 DEF Rewrites
<1>18. Instead(t, m, node, n, S, A)
  BY <1>1, <1>15, <1>16, <1>17 DEF Instead
<1> QED
  BY <1>5, <1>18 DEF content

\* An inode with direct pointer i.
Pointing(node, i, q) == [node EXCEPT !.i_block[i] = q]
\* The other pointers stay.
LEMMA PointingIs ==
    ASSUME NEW node \in Nodes, NEW i \in 0 .. Direct - 1, NEW q \in Blocks
    PROVE  /\ Pointing(node, i, q) \in Nodes
           /\ Pointing(node, i, q).kind = node.kind /\ Pointing(node, i, q).indirect = node.indirect
           /\ \A j \in 0 .. Direct - 1 : Pointing(node, i, q).i_block[j] = IF j = i THEN q ELSE node.i_block[j]
<1> DEFINE blocks == [node.i_block EXCEPT ![i] = q]
<1>1. /\ blocks \in [0 .. Direct - 1 -> Blocks \cup {0}]
      /\ \A j \in 0 .. Direct - 1 : blocks[j] = IF j = i THEN q ELSE node.i_block[j]
  BY DEF Nodes
<1>2. Pointing(node, i, q) = [node EXCEPT !.i_block = blocks]
  BY Zenon DEF Pointing
<1> HIDE DEF blocks
<1>3. /\ Pointing(node, i, q) \in Nodes /\ Pointing(node, i, q).i_block = blocks
      /\ Pointing(node, i, q).kind = node.kind /\ Pointing(node, i, q).indirect = node.indirect
  BY <1>1, <1>2 DEF Nodes
<1> QED
  BY <1>1, <1>3

\* A block is taken for a write: with the bitmaps of a, all is as sound.
LEMMA TakenInstead ==
    ASSUME NEW n \in Nat, NEW s, NEW S, NEW A, NEW m \in S, NEW node, Instead(s, m, node, n, S, A),
           NEW a, a = ext2_allocate(s, "block"), a.unit # 0
    PROVE  /\ Instead(a.s, m, node, n, S, A) /\ a.unit \in Blocks /\ a.unit \in a.s.d.used["block"]
           /\ Unpointed(a.s.d, S, a.unit) /\ Unpointed(NewNode(a.s.d, m, node), S, a.unit)
<1> DEFINE d == s.d
           e == a.s.d
           q == a.unit
<1>1. d \in Disks /\ Sound(d, S, A) /\ S \subseteq Inodes /\ m \in Inodes /\ Ready(s, n, S, A)
      /\ node \in Nodes /\ node.indirect = d.node[m].indirect /\ Sound(NewNode(d, m, node), S, A)
  BY ReadyIs DEF Sound, Ancestors, Instead
<1>2. /\ q \in Blocks /\ q \notin d.used["block"] /\ Ready(a.s, n, S, A) /\ e.node = d.node /\ e.data = d.data
      /\ e.used["block"] = d.used["block"] \cup {q} /\ e.used["inode"] = d.used["inode"]
      /\ Unpointed(e, S, q)
  <2>1. /\ a.unit \in Blocks /\ a.unit \notin s.d.used["block"]
        /\ Ready(a.s, n, S, A) /\ a.s.d.node = s.d.node /\ a.s.d.data = s.d.data
        /\ a.s.d.used["block"] = s.d.used["block"] \cup {a.unit} /\ a.s.d.used["inode"] = s.d.used["inode"]
        /\ Unpointed(a.s.d, S, a.unit) /\ Leaves(s.d, a.s.d, S, m)
    BY <1>1, BlockTaken
  <2> QED
    BY <2>1
<1>3. e \in Disks
  BY <1>2, ReadyIs
<1> HIDE DEF d, e, q
<1>4. Sound(NewNode(e, m, node), S, A)
  BY <1>1, <1>2, <1>3, InsteadMarked
<1>5. Unpointed(NewNode(e, m, node), S, q)
  <2> DEFINE h == NewNode(d, m, node)
             g == NewNode(e, m, node)
  <2>1. h \in Disks /\ SameUnits(d, h) /\ h.data = d.data /\ g.data = e.data
    BY <1>1, <1>3, NewNodeIs
  <2>2. h.node = [d.node EXCEPT ![m] = node] /\ g.node = [e.node EXCEPT ![m] = node]
    BY <1>1, <1>3 DEF NewNode, Disks
  <2>3. Sound(h, S, A)
    BY <1>1
  <2> HIDE DEF h, g
  <2>4. Unpointed(h, S, q)
    BY <1>2, <2>1, <2>3, UnmarkedIs DEF SameUnits
  <2>5. \A x, i : Pointer(g, x, i) = Pointer(h, x, i)
    <3>1. g.node = h.node /\ g.data = h.data
      BY <1>2, <2>1, <2>2
    <3> QED
      BY <3>1 DEF Pointer, ext2_get_file_block
  <2>6. Unpointed(g, S, q)
    BY <2>4, <2>5 DEF Unpointed
  <2> QED
    BY <2>6 DEF g
<1>6. Instead(a.s, m, node, n, S, A)
  BY <1>1, <1>2, <1>4 DEF Instead, e
<1> QED
  BY <1>2, <1>5, <1>6 DEF q, e

\* It is given back when the index is beyond the direct pointers.
LEMMA GivenInstead ==
    ASSUME NEW n \in Nat, NEW s, NEW S, NEW A, NEW m \in S, NEW node, Instead(s, m, node, n, S, A),
           NEW q \in Blocks, q \in s.d.used["block"],
           Unpointed(s.d, S, q), Unpointed(NewNode(s.d, m, node), S, q)
    PROVE  Instead(ext2_free(s, "block", q), m, node, n, S, A)
<1> DEFINE d == s.d
           f == ext2_free(s, "block", q)
           e == f.d
           h == NewNode(d, m, node)
           g == NewNode(e, m, node)
<1>1. d \in Disks /\ Sound(d, S, A) /\ S \subseteq Inodes /\ m \in Inodes /\ Ready(s, n, S, A)
      /\ node \in Nodes /\ node.indirect = d.node[m].indirect /\ Sound(h, S, A) /\ Unpointed(h, S, q)
  BY ReadyIs DEF Sound, Ancestors, Instead
<1>2. /\ Ready(f, n, S, A) /\ e.node = d.node /\ e.data = d.data
      /\ e.used["block"] = d.used["block"] \ {q} /\ e.used["inode"] = d.used["inode"]
  <2>1. /\ Ready(f, n, S, A) /\ f.d.node = s.d.node /\ f.d.data = s.d.data
        /\ f.d.used["block"] = s.d.used["block"] \ {q} /\ f.d.used["inode"] = s.d.used["inode"]
        /\ \A x : Unpointed(s.d, S, x) => Unpointed(f.d, S, x)
    BY <1>1, BlockGiven
  <2> QED
    BY <2>1
<1>3. e \in Disks
  BY <1>2, ReadyIs
<1>4. h.node = [d.node EXCEPT ![m] = node] /\ g.node = [e.node EXCEPT ![m] = node]
  BY <1>1, <1>3 DEF NewNode, Disks
<1> HIDE DEF e, f, d
<1>5. h \in Disks /\ SameUnits(d, h) /\ h.data = d.data /\ g \in Disks /\ SameUnits(e, g) /\ g.data = e.data
  BY <1>1, <1>3, NewNodeIs
<1>11. Sound(h, S, A) /\ Unpointed(h, S, q)
  BY <1>1
<1> HIDE DEF h, g
<1>6. g.node = h.node /\ g.data = h.data
  BY <1>2, <1>4, <1>5
<1>7. \A x, i : Pointer(g, x, i) = Pointer(h, x, i)
  BY <1>6 DEF Pointer, ext2_get_file_block
<1>8. g.used["block"] = h.used["block"] \ {q} /\ g.used["inode"] = h.used["inode"]
  BY <1>2, <1>5 DEF SameUnits
<1>9. MarkedIn(g, S)
  BY <1>11, <1>7, <1>8, UnitIs DEF Sound, MarkedIn, Unpointed
<1>10. Sound(g, S, A)
  BY <1>6, <1>9, <1>11, SoundMarked
<1> QED
  BY <1>1, <1>2, <1>10 DEF Instead, g, e, f

\* It is written, and the inode of the call points to it.
LEMMA FilledInstead ==
    ASSUME NEW n \in Nat, NEW s, NEW S, NEW A, NEW m \in S, NEW node, Instead(s, m, node, n, S, A),
           NEW q \in Blocks, q \in s.d.used["block"], Unpointed(s.d, S, q), Unpointed(NewNode(s.d, m, node), S, q),
           NEW i \in 0 .. Direct - 1, NEW v \in Values
    PROVE  Instead(ext2_write_block(s, q, DataBlock(v)), m, Pointing(node, i, q), n, S, A)
<1> DEFINE d == s.d
           content == DataBlock(v)
           t == ext2_write_block(s, q, content)
           e == t.d
           h == NewNode(d, m, node)
           g == NewNode(e, m, node)
           new == Pointing(node, i, q)
           x == NewNode(e, m, new)
<1>1. d \in Disks /\ Sound(d, S, A) /\ S \subseteq Inodes /\ m \in Inodes /\ Ready(s, n, S, A)
      /\ node \in Nodes /\ node.indirect = d.node[m].indirect
      /\ Sound(h, S, A) /\ Unpointed(h, S, q) /\ Unpointed(d, S, q) /\ q \in d.used["block"]
  BY ReadyIs DEF Sound, Ancestors, Instead
<1>2. content \in Contents /\ content.kind # "dir"
  BY DEF Contents, DataBlock
<1> HIDE DEF content
<1>3. /\ Ready(t, n, S, A) /\ e.node = d.node /\ e.used = d.used
      /\ \A b \in Blocks : e.data[b] = IF b = q THEN content ELSE d.data[b]
  <2>1. /\ Ready(t, n, S, A) /\ t.d.node = s.d.node /\ t.d.used = s.d.used
        /\ \A b \in Blocks : t.d.data[b] = IF b = q THEN content ELSE s.d.data[b]
        /\ \A b : Unpointed(s.d, S, b) => Unpointed(t.d, S, b)
    BY <1>1, <1>2, AsideWritten
  <2> QED
    BY <2>1
<1>4. e \in Disks
  BY <1>3, ReadyIs
<1>5. h.node = [d.node EXCEPT ![m] = node] /\ g.node = [e.node EXCEPT ![m] = node]
  BY <1>1, <1>4 DEF NewNode, Disks
<1>6. /\ new \in Nodes /\ new.kind = node.kind /\ new.indirect = node.indirect
      /\ \A j \in 0 .. Direct - 1 : new.i_block[j] = IF j = i THEN q ELSE node.i_block[j]
  BY <1>1, PointingIs
<1> HIDE DEF d, e, t, new
<1>7. /\ h \in Disks /\ SameUnits(d, h) /\ h.data = d.data
      /\ g \in Disks /\ SameUnits(e, g) /\ g.data = e.data /\ g.node[m] = node
      /\ \A y \in Inodes : y # m => g.node[y] = e.node[y]
  BY <1>1, <1>4, NewNodeIs
<1>8. /\ x \in Disks /\ SameUnits(e, x) /\ x.data = e.data /\ x.node[m] = new
      /\ \A y \in Inodes : y # m => x.node[y] = e.node[y]
  BY <1>1, <1>4, <1>6, NewNodeIs
<1>9. Sound(h, S, A) /\ Unpointed(h, S, q)
  BY <1>1
<1> HIDE DEF h, g, x
<1>10. Rewrites(h, g, q, content)
  BY <1>3, <1>5, <1>7 DEF Rewrites, SameUnits
<1>11. Sound(g, S, A) /\ \A y \in S : \A j \in 0 .. Direct + 1 : Pointer(g, y, j) = Pointer(h, y, j)
  BY <1>7, <1>9, <1>10, SoundAside
<1>12. Unpointed(g, S, q)
  BY <1>9, <1>11 DEF Unpointed
<1>13. q \in g.used["block"] /\ g.data[q].kind # "dir"
  BY <1>1, <1>2, <1>3, <1>7 DEF SameUnits
<1>14. Points(g, x, m, i, q)
  BY <1>6, <1>7, <1>8 DEF Points, SameUnits
<1>15. Sound(x, S, A)
  BY <1>1, <1>7, <1>8, <1>11, <1>12, <1>13, <1>14, SoundPointer
<1> QED
  BY <1>1, <1>3, <1>6, <1>15 DEF Instead, x, e, t, new, content

\* A write after k turns.
Filling(c, seq, k, t) ==
    /\ t = [s |-> t.s, node |-> t.node, written |-> t.written, full |-> t.full]
    /\ Instead(t.s, c.m, t.node, c.n, c.S, c.A)
    /\ (t.full = TRUE \/ t.full = FALSE) /\ t.written \in Nat
    /\ t.full = FALSE => t.written = k
    /\ t.written = 0 \/ c.offset + t.written <= Direct + 1
FillTo(c, t, i) == WriteBlock(t, c.offset + i - 1, c.v)
Fills == INSTANCE SequenceLemmas WITH Body <- FillTo, Kept <- Filling

\* A turn of a write changes some of what it carries along.
LEMMA TurnIs ==
    ASSUME NEW s, NEW node, NEW w, NEW f, NEW t, t = [s |-> s, node |-> node, written |-> w, full |-> f], NEW z, NEW x, NEW y
    PROVE  /\ [t EXCEPT !.s = z, !.written = @ + 1] = [s |-> z, node |-> node, written |-> w + 1, full |-> f]
           /\ [t EXCEPT !.full = x] = [s |-> s, node |-> node, written |-> w, full |-> x]
           /\ [t EXCEPT !.full = x, !.s = z] = [s |-> z, node |-> node, written |-> w, full |-> x]
           /\ [t EXCEPT !.s = z, !.node = y, !.written = @ + 1]
                 = [s |-> z, node |-> y, written |-> w + 1, full |-> f]
<1>1. t \in [s : {s}, node : {node}, written : {w}, full : {f}]
  OBVIOUS
<1>2. [t EXCEPT !.s = z, !.written = @ + 1] = [s |-> z, node |-> node, written |-> w + 1, full |-> f]
  <2> DEFINE r == [t EXCEPT !.s = z, !.written = @ + 1]
  <2>1. r \in [s : {z}, node : {node}, written : {w + 1}, full : {f}]
    BY <1>1
  <2> HIDE DEF r
  <2>2. r = [s |-> z, node |-> node, written |-> w + 1, full |-> f]
    BY <2>1
  <2> QED
    BY <2>2 DEF r
<1>3. [t EXCEPT !.full = x] = [s |-> s, node |-> node, written |-> w, full |-> x]
  BY <1>1
<1>4. [t EXCEPT !.full = x, !.s = z] = [s |-> z, node |-> node, written |-> w, full |-> x]
  <2> DEFINE r == [t EXCEPT !.full = x, !.s = z]
  <2>1. r \in [s : {z}, node : {node}, written : {w}, full : {x}]
    BY <1>1
  <2> HIDE DEF r
  <2>2. r = [s |-> z, node |-> node, written |-> w, full |-> x]
    BY <2>1
  <2> QED
    BY <2>2 DEF r
<1>5. [t EXCEPT !.s = z, !.node = y, !.written = @ + 1] = [s |-> z, node |-> y, written |-> w + 1, full |-> f]
  <2> DEFINE r == [t EXCEPT !.s = z, !.node = y, !.written = @ + 1]
  <2>1. r \in [s : {z}, node : {y}, written : {w + 1}, full : {f}]
    BY <1>1
  <2> HIDE DEF r
  <2>2. r = [s |-> z, node |-> y, written |-> w + 1, full |-> f]
    BY <2>1
  <2> QED
    BY <2>2 DEF r
<1> QED
  BY <1>2, <1>3, <1>4, <1>5

\* One block more is written, or the disk or the inode is full.
LEMMA FillStep ==
    ASSUME NEW c, c.n \in Nat, c.m \in c.S, c.v \in Values, c.offset \in Nat, NEW seq, NEW k \in Nat, NEW t,
           Filling(c, seq, k, t)
    PROVE  Filling(c, seq, k + 1, FillTo(c, t, k + 1))
<1> DEFINE n == c.n
           m == c.m
           S == c.S
           A == c.A
           v == c.v
           offset == c.offset
           i == offset + k
           s == t.s
           node == t.node
           b == ext2_get_file_block(s.d, node, i)
           r == FillTo(c, t, k + 1)
<1>1. /\ t = [s |-> s, node |-> node, written |-> t.written, full |-> t.full]
      /\ Instead(s, m, node, n, S, A) /\ (t.full = TRUE \/ t.full = FALSE) /\ t.written \in Nat
      /\ (t.full = FALSE => t.written = k) /\ (t.written = 0 \/ offset + t.written <= Direct + 1)
  BY DEF Filling
<1>2. r = WriteBlock(t, i, v)
  <2>1. offset + (k + 1) - 1 = offset + k
    OBVIOUS
  <2> QED
    BY <2>1, Zenon DEF FillTo
<1>3. n \in Nat /\ m \in S /\ i \in Nat /\ v \in Values /\ offset \in Nat
  OBVIOUS
<1>4. \A x : Filling(c, seq, k + 1, x) <=>
          /\ x = [s |-> x.s, node |-> x.node, written |-> x.written, full |-> x.full]
          /\ Instead(x.s, m, x.node, n, S, A) /\ (x.full = TRUE \/ x.full = FALSE) /\ x.written \in Nat
          /\ (x.full = FALSE => x.written = k + 1) /\ (x.written = 0 \/ offset + x.written <= Direct + 1)
  BY DEF Filling
<1>9. i = offset + k
  OBVIOUS
<1> HIDE DEF r, n, m, S, A, v, offset, i, s, node
<1>5. CASE t.full = TRUE
  <2>1. r = t
    BY <1>2, <1>5, Zenon DEF WriteBlock
  <2>2. t.s = s /\ t.node = node
    BY DEF s, node
  <2> QED
    BY <1>1, <1>4, <1>5, <2>1, <2>2 DEF r
<1>6. CASE t.full = FALSE /\ b # 0
  <2> DEFINE z == ext2_write_block(s, b, DataBlock(v))
  <2>1. r = [t EXCEPT !.s = z, !.written = @ + 1]
    <3>1. r = [t EXCEPT !.s = ext2_write_block(@, b, DataBlock(v)), !.written = @ + 1]
      BY <1>2, <1>6 DEF WriteBlock, s, node
    <3> QED
      BY <3>1 DEF s
  <2>2. Instead(z, m, node, n, S, A) /\ i <= Direct
    BY <1>1, <1>3, <1>6, BlockWritten
  <2> HIDE DEF z
  <2>3. r = [s |-> z, node |-> node, written |-> t.written + 1, full |-> t.full]
    <3> DEFINE w == t.written
               g == t.full
    <3>1. t = [s |-> s, node |-> node, written |-> w, full |-> g] /\ r = [t EXCEPT !.s = z, !.written = @ + 1]
      BY <1>1, <2>1
    <3> HIDE DEF w, g
    <3>2. r = [s |-> z, node |-> node, written |-> w + 1, full |-> g]
      BY <3>1, TurnIs
    <3> QED
      BY <3>2 DEF w, g
  <2>4. r.s = z /\ r.node = node /\ r.written = k + 1 /\ r.full = FALSE
    BY <1>1, <1>6, <2>3
  <2>5. offset + (k + 1) <= Direct + 1
    BY <1>3, <1>9, <2>2, IndexIs
  <2>6. r = [s |-> r.s, node |-> r.node, written |-> r.written, full |-> r.full]
    BY <2>3
  <2>7. Filling(c, seq, k + 1, r)
    BY <1>4, <2>2, <2>4, <2>5, <2>6
  <2> QED
    BY <2>7 DEF r
<1>7. CASE t.full = FALSE /\ b = 0
  <2> DEFINE a == ext2_allocate(s, "block")
             q == a.unit
  <2>1. r = FillNew(t, a, i, v)
    BY <1>2, <1>7 DEF WriteBlock, s, node
  <2>2. q # 0 => /\ Instead(a.s, m, node, n, S, A) /\ q \in Blocks /\ q \in a.s.d.used["block"]
                 /\ Unpointed(a.s.d, S, q) /\ Unpointed(NewNode(a.s.d, m, node), S, q)
    BY <1>1, <1>3, TakenInstead
  <2>10. q = a.unit
    OBVIOUS
  <2> HIDE DEF a, q
  <2>3. CASE q = 0
    <3>1. r = [t EXCEPT !.full = TRUE]
      BY <2>1, <2>3, <2>10 DEF FillNew
    <3>2. r = [s |-> s, node |-> node, written |-> t.written, full |-> TRUE]
      <4> DEFINE w == t.written
                 g == t.full
      <4>1. t = [s |-> s, node |-> node, written |-> w, full |-> g] /\ r = [t EXCEPT !.full = TRUE]
        BY <1>1, <3>1
      <4> HIDE DEF w, g
      <4>2. r = [s |-> s, node |-> node, written |-> w, full |-> TRUE]
        BY <4>1, TurnIs
      <4> QED
        BY <4>2 DEF w, g
    <3>3. r.s = s /\ r.node = node /\ r.written = t.written /\ r.full = TRUE
      BY <3>2
    <3>4. r = [s |-> r.s, node |-> r.node, written |-> r.written, full |-> r.full]
      BY <3>2
    <3>5. Filling(c, seq, k + 1, r)
      BY <1>1, <1>4, <3>3, <3>4
    <3> QED
      BY <3>5 DEF r
  <2>4. CASE q # 0 /\ i >= Direct
    <3> DEFINE f == ext2_free(a.s, "block", q)
    <3>1. r = [t EXCEPT !.full = TRUE, !.s = f]
      BY <2>1, <2>4, <2>10 DEF FillNew
    <3>6. Instead(f, m, node, n, S, A)
      BY <1>3, <2>2, <2>4, GivenInstead
    <3> HIDE DEF f
    <3>2. r = [s |-> f, node |-> node, written |-> t.written, full |-> TRUE]
      <4> DEFINE w == t.written
                 g == t.full
      <4>1. t = [s |-> s, node |-> node, written |-> w, full |-> g] /\ r = [t EXCEPT !.full = TRUE, !.s = f]
        BY <1>1, <3>1
      <4> HIDE DEF w, g
      <4>2. r = [s |-> f, node |-> node, written |-> w, full |-> TRUE]
        BY <4>1, TurnIs
      <4> QED
        BY <4>2 DEF w, g
    <3>3. r.s = f /\ r.node = node /\ r.written = t.written /\ r.full = TRUE
      BY <3>2
    <3>4. r = [s |-> r.s, node |-> r.node, written |-> r.written, full |-> r.full]
      BY <3>2
    <3>5. Filling(c, seq, k + 1, r)
      BY <1>1, <1>4, <3>3, <3>4, <3>6
    <3> QED
      BY <3>5 DEF r
  <2>5. CASE q # 0 /\ ~(i >= Direct)
    <3> DEFINE z == ext2_write_block(a.s, q, DataBlock(v))
               new == Pointing(node, i, q)
    <3>1. r = [t EXCEPT !.s = z, !.node.i_block[i] = q, !.written = @ + 1]
      BY <2>1, <2>5, <2>10 DEF FillNew
    <3>7. i \in 0 .. Direct - 1
      BY <1>3, <2>5, IndexIs
    <3>6. Instead(z, m, new, n, S, A)
      BY <1>3, <2>2, <2>5, <3>7, FilledInstead
    <3>8. r = [t EXCEPT !.s = z, !.node = new, !.written = t.written + 1]
      <4>1. t.node = node
        BY DEF node
      <4> HIDE DEF z
      <4> QED
        BY <3>1, <4>1, Zenon DEF Pointing
    <3> HIDE DEF z, new
    <3>2. r = [s |-> z, node |-> new, written |-> t.written + 1, full |-> t.full]
      BY <1>1, <3>8
    <3>3. r.s = z /\ r.node = new /\ r.written = k + 1 /\ r.full = FALSE
      BY <1>1, <1>7, <3>2
    <3>4. r = [s |-> r.s, node |-> r.node, written |-> r.written, full |-> r.full]
      BY <3>2
    <3>9. offset + (k + 1) <= Direct + 1
      BY <1>3, <1>9, <3>7, IndexIs
    <3>5. Filling(c, seq, k + 1, r)
      BY <1>1, <1>4, <3>3, <3>4, <3>6, <3>9
    <3> QED
      BY <3>5 DEF r
  <2> QED
    BY <2>3, <2>4, <2>5
<1> QED
  BY <1>1, <1>5, <1>6, <1>7

\* The larger of two sizes.
LEMMA MaxIs ==
    ASSUME NEW a \in Nat, NEW b \in Nat
    PROVE  Max({a, b}) \in {a, b}
<1>1. \E x \in {a, b} : \A y \in {a, b} : x >= y
  <2>1. CASE a >= b
    BY <2>1
  <2>2. CASE ~(a >= b)
    BY <2>2
  <2> QED
    BY <2>1, <2>2
<1> QED
  BY <1>1, Zenon DEF Max

\* An inode with another size.
Sized(node, size) == [node EXCEPT !.size = size]
\* The last write of ext2_write_file.
LEMMA SizedWritten ==
    ASSUME NEW n \in Nat, NEW s, NEW S, NEW A, NEW m \in S, NEW node, Instead(s, m, node, n, S, A),
           NEW size \in 0 .. Direct + 1
    PROVE  Ready(ext2_write_inode_sync(s, m, Sized(node, size)), n, S, A)
<1> DEFINE d == s.d
           new == Sized(node, size)
           h == NewNode(d, m, node)
           x == NewNode(d, m, new)
<1>1. d \in Disks /\ Sound(d, S, A) /\ S \subseteq Inodes /\ m \in Inodes /\ Ready(s, n, S, A)
      /\ node \in Nodes /\ Sound(h, S, A)
  BY ReadyIs DEF Sound, Ancestors, Instead
<1>2. new \in Nodes /\ SamePlaces(new, node)
  BY <1>1 DEF Sized, Nodes, SamePlaces
<1> HIDE DEF d, new
<1>3. /\ h \in Disks /\ SameUnits(d, h) /\ h.data = d.data /\ h.node[m] = node
      /\ \A y \in Inodes : y # m => h.node[y] = d.node[y]
  BY <1>1, NewNodeIs
<1>4. /\ x \in Disks /\ SameUnits(d, x) /\ x.data = d.data /\ x.node[m] = new
      /\ \A y \in Inodes : y # m => x.node[y] = d.node[y]
  BY <1>1, <1>2, NewNodeIs
<1>5. Sound(h, S, A)
  BY <1>1
<1> HIDE DEF h, x
<1>6. SamePointers(h, x, S) /\ x.used = h.used
  BY <1>1, <1>2, <1>3, <1>4 DEF SamePointers, SamePlaces, SameUnits
<1>7. Sound(x, S, A)
  BY <1>3, <1>4, <1>5, <1>6, SoundSame
<1>8. Sound(NewNode(s.d, m, new), S, A)
  BY <1>7 DEF x, d
<1>9. Ready(ext2_write_inode_sync(s, m, new), n, S, A)
  BY <1>1, <1>2, <1>8, ReadyInode
<1> QED
  BY <1>9 DEF new

\* An inode with itself in its place.
LEMMA InsteadItself ==
    ASSUME NEW n \in Nat, NEW s, NEW S, NEW A, Ready(s, n, S, A), NEW m \in S
    PROVE  Instead(s, m, s.d.node[m], n, S, A)
<1> DEFINE d == s.d
           node == d.node[m]
           h == NewNode(d, m, node)
<1>1. d \in Disks /\ Sound(d, S, A) /\ S \subseteq Inodes /\ m \in Inodes
  BY ReadyIs DEF Sound, Ancestors
<1> HIDE DEF d
<1>2. node \in Nodes
  BY <1>1, DiskIs
<1>3. /\ h \in Disks /\ SameUnits(d, h) /\ h.data = d.data /\ h.node[m] = node
      /\ \A y \in Inodes : y # m => h.node[y] = d.node[y]
  BY <1>1, <1>2, NewNodeIs
<1> HIDE DEF h
<1>4. SamePointers(d, h, S) /\ h.used = d.used
  BY <1>1, <1>3 DEF SamePointers, SamePlaces, SameUnits
<1>5. Sound(h, S, A)
  BY <1>1, <1>3, <1>4, SoundSame
<1>6. Sound(NewNode(s.d, m, s.d.node[m]), S, A) /\ s.d.node[m] \in Nodes
  BY <1>2, <1>5 DEF h, d
<1> QED
  BY <1>6 DEF Instead

\* ext2_write_file, once the inode is found.
LEMMA WriteToWhole ==
    ASSUME NEW n \in Nat, NEW s, NEW S, NEW A, Ready(s, n, S, A), NEW m \in S \cup {0}, NEW u,
           NEW offset \in 0 .. Direct + 1, NEW size \in Nat, NEW v \in Values
    PROVE  Whole(WriteTo(s, m, u, offset, size, v).s, n)
<1> DEFINE r == WriteTo(s, m, u, offset, size, v)
           refused == m = 0 \/ ~Permits(s.d, m, u, "w")
<1>1. CASE refused
  <2>1. r = Failed(s)
    BY <1>1, Zenon DEF WriteTo
  <2> QED
    BY <2>1 DEF Whole, Failed
<1>2. CASE ~refused
  <2> DEFINE c == [n |-> n, m |-> m, S |-> S, A |-> A, v |-> v, offset |-> offset]
             seq == [i \in 1 .. size |-> i]
             base == [s |-> s, node |-> s.d.node[m], written |-> 0, full |-> FALSE]
             t == FoldLeft(LAMBDA b, i : WriteBlock(b, c.offset + i - 1, c.v), base, seq)
  <2>1. c.n = n /\ c.m = m /\ c.S = S /\ c.A = A /\ c.v = v /\ c.offset = offset
    OBVIOUS
  <2>2. m \in S /\ size \in Nat /\ offset \in 0 .. Direct + 1 /\ offset \in Nat
    BY <1>2, IndexIs
  <2>3. DOMAIN seq = 1 .. size /\ \A i \in 1 .. size : seq[i] = i
    OBVIOUS
  <2>4. base.s = s /\ base.node = s.d.node[m] /\ base.written = 0 /\ base.full = FALSE
        /\ base = [s |-> base.s, node |-> base.node, written |-> base.written, full |-> base.full]
    OBVIOUS
  <2> HIDE DEF c
  <2>5. r = Written(t, m, offset)
    <3>1. r = WriteTo(s, m, u, c.offset, size, c.v)
      BY <2>1
    <3>2. m # 0 /\ Permits(s.d, m, u, "w")
      BY <1>2
    <3> HIDE DEF r
    <3>3. r = Written(t, m, c.offset)
      BY <3>1, <3>2, Zenon DEF WriteTo
    <3> QED
      BY <2>1, <3>3
  <2>6. t = Fills!Fold(c, base, seq)
    BY Zenon DEF FillTo, Fills!Fold, Fills!MapThenFoldSet, Fills!Largest,
       FoldLeft, MapThenFoldSet, Max
  <2> HIDE DEF seq, base, t, r
  <2>7. Instead(s, m, s.d.node[m], n, S, A)
    BY <2>2, InsteadItself
  <2>8. Filling(c, seq, 0, base)
    BY <2>1, <2>4, <2>7 DEF Filling
  <2>9. ASSUME NEW i \in 0 .. size - 1, NEW b, Filling(c, seq, i, b)
        PROVE  Filling(c, seq, i + 1, FillTo(c, b, seq[i + 1]))
    <3>1. seq[i + 1] = i + 1 /\ i \in Nat
      BY <2>2, <2>3
    <3>2. c.n \in Nat /\ c.m \in c.S /\ c.v \in Values /\ c.offset \in Nat
      BY <2>1, <2>2
    <3>3. Filling(c, seq, i + 1, FillTo(c, b, i + 1))
      BY <2>9, <3>1, <3>2, FillStep
    <3> QED
      BY <3>1, <3>3
  <2>10. Filling(c, seq, size, t)
    BY <2>2, <2>3, <2>6, <2>8, <2>9, Fills!LoopRule
  <2>11. Instead(t.s, m, t.node, n, S, A) /\ t.written \in Nat
         /\ (t.written = 0 \/ offset + t.written <= Direct + 1)
    BY <2>1, <2>10 DEF Filling
  <2> DEFINE x == t.node.size
             y == offset + t.written
             new == Max({x, y})
  <2>12. x \in 0 .. Direct + 1 /\ y \in 0 .. Direct + 1 /\ x \in Nat /\ y \in Nat
    <3>1. t.node \in Nodes
      BY <2>11 DEF Instead
    <3> QED
      BY <2>2, <2>11, <3>1, IndexIs DEF Nodes
  <2>13. r = Done(ext2_write_inode_sync(t.s, m, Sized(t.node, new)))
    BY <2>5, Zenon DEF Written, Sized
  <2> HIDE DEF x, y
  <2>14. new \in 0 .. Direct + 1
    <3>1. Max({x, y}) \in {x, y}
      BY <2>12, MaxIs
    <3> QED
      BY <2>12, <3>1
  <2> HIDE DEF new
  <2>15. Ready(ext2_write_inode_sync(t.s, m, Sized(t.node, new)), n, S, A)
    BY <2>2, <2>11, <2>14, SizedWritten
  <2>16. Whole(r.s, n)
    BY <2>13, <2>15 DEF Done, Whole
  <2> QED
    BY <2>16 DEF r
<1> QED
  BY <1>1, <1>2

\* ext2_write_file.
LEMMA WriteFileWhole ==
    ASSUME NEW n \in Nat, NEW s, NEW S, NEW A, Ready(s, n, S, A), NEW u, NEW path \in AllPaths,
           NEW offset \in 0 .. Direct + 1, NEW size \in Nat, NEW v \in Values
    PROVE  Whole(ext2_write_file(s, u, path, offset, size, v).s, n)
<1> DEFINE m == ext2_resolve_path(s.d, u, path)
<1>1. m \in S \cup {0} /\ (m # 0 => m \in Inodes /\ s.d.node[m] \in Nodes)
  BY MemberIs
<1>2. ext2_write_file(s, u, path, offset, size, v) = WriteTo(s, m, u, offset, size, v)
  BY DEF ext2_write_file
<1> HIDE DEF m
<1> QED
  BY <1>1, <1>2, WriteToWhole

-----------------------------------------------------------------------------
(* Deleting: between its writes the disk is sound, or it is dangling       *)

\* A path leads to inode m, also when only it has changed.
Standing(d, m) ==
    \A e : e.data = d.data /\ (\A x \in Inodes : x # m => e.node[x] = d.node[x]) => m \in Reached(e)

\* What is reached and not marked is left dangling.
LEMMA DanglesBy ==
    ASSUME NEW e, NEW m \in Reached(e), NEW i \in 0 .. Direct + 1,
           m \notin e.used["inode"] \/ (Pointer(e, m, i) # 0 /\ Pointer(e, m, i) \notin e.used["block"])
    PROVE  Dangling(e)
<1> DEFINE T == Reached(e)
           x == <<m, i>>
<1>1. Pointer(e, m, i) # 0 => Pointer(e, m, i) \in Named(e, T)
  <2>1. x[1] = m /\ x[2] = i /\ x \in T \X (0 .. Direct + 1)
    OBVIOUS
  <2> HIDE DEF x, T
  <2>2. Pointer(e, m, i) # 0 => x \in Pointers(e, T)
    BY <2>1 DEF Pointers
  <2> QED
    BY <2>1, <2>2 DEF Named
<1>2. m \in T
  OBVIOUS
<1> HIDE DEF T
<1>3. Unmarked(e, T)
  BY <1>1, <1>2 DEF Unmarked
<1> QED
  BY <1>3 DEF Dangling, T

\* A disk near enough that may be met between two writes of a delete.
LEMMA HaltIs ==
    ASSUME NEW n \in Nat, NEW x \in Disks, Held(x) \/ Dangling(x)
    PROVE  /\ Near(x, n + 1) => x \in DeleteHalts(n)
           /\ Near(x, n) => x \in DeleteHalts(n)
<1>1. \A k \in Kinds : Off(x, k) \in Nat /\ x.sb[k] \in Nat /\ x.bgd[k] \in Nat
  BY OffIs DEF Disks, Counts
<1>2. Near(x, n) => Near(x, n + 1)
  BY <1>1 DEF Near
<1> QED
  BY <1>2 DEF DeleteHalts

\* A volume between two operations of a delete.
Between(t, n) == Steady(t, n, DeleteHalts(n)) /\ t.d \in DeleteHalts(n)
\* A delete begins between two operations.
LEMMA ReadyBetween ==
    ASSUME NEW n \in Nat, NEW s, NEW S, NEW A, Ready(s, n, S, A)
    PROVE  Between(s, n)
<1>1. Steady(s, n, Halts(n)) /\ s.d \in Halts(n)
  BY ReadyIs
<1>2. Halts(n) \subseteq DeleteHalts(n)
  BY DEF Halts, DeleteHalts
<1> QED
  BY <1>1, <1>2 DEF Between, Steady

\* A unit is freed that is still reached, or that a reached inode points to.
LEMMA FreedBetween ==
    ASSUME NEW n \in Nat, NEW t, Between(t, n), NEW k \in Kinds, NEW unit \in Units(k), unit \in t.d.used[k],
           \A x : Marked(x, t.d, WithBitmap(t.d.used, k, t.d.used[k] \ {unit})) => Dangling(x)
    PROVE  /\ Between(ext2_free(t, k, unit), n)
           /\ Marked(ext2_free(t, k, unit).d, t.d, WithBitmap(t.d.used, k, t.d.used[k] \ {unit}))
<1> DEFINE V == DeleteHalts(n)
           f == ext2_free(t, k, unit)
           used == WithBitmap(t.d.used, k, t.d.used[k] \ {unit})
<1>1. Steady(t, n, V) /\ t.d \in V
  BY DEF Between
<1>2. \A x : Marked(x, t.d, used) => x \in Disks /\ Dangling(x)
  BY DEF Marked
<1> HIDE DEF used
<1>3. \A x : Marked(x, t.d, used) /\ Near(x, n + 1) => x \in V
  BY <1>2, HaltIs
<1> HIDE DEF V
<1>4. Steady(f, n, V) /\ Marked(f.d, t.d, WithBitmap(t.d.used, k, t.d.used[k] \ {unit}))
  BY <1>1, <1>3, FreeIs DEF used
<1>5. Marked(f.d, t.d, used) /\ Near(f.d, n)
  BY <1>4 DEF used, Steady
<1> HIDE DEF f
<1>6. f.d \in V
  BY <1>2, <1>5, HaltIs DEF V
<1> QED
  BY <1>4, <1>6 DEF Between, f, V, used

\* The first k direct blocks of the inode are free; the rest is as on disk c.d.
Emptied(c, seq, k, t) ==
    /\ Between(t, c.n) /\ t.d.node = c.d.node /\ t.d.data = c.d.data
    /\ t.d.used["inode"] = c.d.used["inode"]
    /\ t.d.used["block"] = c.d.used["block"] \ {seq[i] : i \in 1 .. k}
EmptyTo(c, t, b) == IF b = 0 THEN t ELSE ext2_free(t, "block", b)
Empties == INSTANCE SequenceLemmas WITH Body <- EmptyTo, Kept <- Emptied

\* The direct blocks of inode m.
DirectBlocks(d, m) == [i \in 1 .. Direct |-> d.node[m].i_block[i - 1]]
\* They are marked, and no block comes twice.
LEMMA DirectBlocksAre ==
    ASSUME NEW d \in Disks, NEW S, NEW A, Sound(d, S, A), NEW m \in S
    PROVE  \A i \in 1 .. Direct :
               /\ DirectBlocks(d, m)[i] = Pointer(d, m, i - 1) /\ DirectBlocks(d, m)[i] \in d.used["block"] \cup {0}
               /\ \A j \in 1 .. Direct : DirectBlocks(d, m)[i] # 0 /\ DirectBlocks(d, m)[j] = DirectBlocks(d, m)[i] => i = j
<1>1. m \in Inodes /\ MarkedIn(d, S) /\ ApartIn(d, S)
  BY DEF Sound, Ancestors
<1>2. \A i \in 1 .. Direct : i - 1 \in 0 .. Direct - 1 /\ i - 1 \in 0 .. Direct + 1
  BY IndexIs
<1>3. \A i \in 1 .. Direct : DirectBlocks(d, m)[i] = Pointer(d, m, i - 1)
  <2> SUFFICES ASSUME NEW i \in 1 .. Direct PROVE DirectBlocks(d, m)[i] = Pointer(d, m, i - 1)
    OBVIOUS
  <2>1. DirectBlocks(d, m)[i] = d.node[m].i_block[i - 1]
    BY DEF DirectBlocks
  <2> QED
    BY <1>1, <1>2, <2>1, PointerIs
<1> SUFFICES ASSUME NEW i \in 1 .. Direct, NEW j \in 1 .. Direct
             PROVE  /\ Pointer(d, m, i - 1) \in d.used["block"] \cup {0}
                    /\ Pointer(d, m, i - 1) # 0 /\ Pointer(d, m, j - 1) = Pointer(d, m, i - 1) => i = j
  BY <1>3
<1>4. Pointer(d, m, i - 1) \in d.used["block"] \cup {0}
  BY <1>1, <1>2 DEF MarkedIn
<1>5. Pointer(d, m, i - 1) # 0 /\ Pointer(d, m, j - 1) = Pointer(d, m, i - 1) => i - 1 = j - 1
  BY <1>1, <1>2 DEF ApartIn
<1> QED
  BY <1>4, <1>5

\* One block more is freed, or there is none.
LEMMA EmptyStep ==
    ASSUME NEW c, c.n \in Nat, c.d \in Disks, Sound(c.d, c.S, c.A), c.m \in c.S, Standing(c.d, c.m),
           NEW seq, seq = DirectBlocks(c.d, c.m), NEW k \in 0 .. Direct - 1, NEW t, Emptied(c, seq, k, t)
    PROVE  Emptied(c, seq, k + 1, EmptyTo(c, t, seq[k + 1]))
<1> DEFINE b == seq[k + 1]
           d == c.d
           m == c.m
           n == c.n
           r == EmptyTo(c, t, b)
           gone == {seq[i] : i \in 1 .. k}
<1>1. k + 1 \in 1 .. Direct /\ k \in 0 .. Direct + 1 /\ (\A i \in 1 .. k : i \in 1 .. Direct /\ i # k + 1)
      /\ (\A i \in 1 .. k + 1 : i \in 1 .. k \/ i = k + 1) /\ (k + 1) - 1 = k
  BY IndexIs
<1>2. b = Pointer(d, m, k) /\ b \in d.used["block"] \cup {0}
  BY <1>1, DirectBlocksAre
<1>3. b # 0 => b \notin gone
  BY <1>1, DirectBlocksAre
<1>4. {seq[i] : i \in 1 .. k + 1} = gone \cup {b}
  BY <1>1
<1>5. /\ Between(t, n) /\ t.d.node = d.node /\ t.d.data = d.data
      /\ t.d.used["inode"] = d.used["inode"] /\ t.d.used["block"] = d.used["block"] \ gone
  BY DEF Emptied
<1>6. d.used["block"] \subseteq Blocks /\ "block" \in Kinds /\ Units("block") = Blocks
  BY DEF Disks, Bitmaps, Kinds, Units
<1>7. \A x : Emptied(c, seq, k + 1, x) <=>
          /\ Between(x, n) /\ x.d.node = d.node /\ x.d.data = d.data
          /\ x.d.used["inode"] = d.used["inode"] /\ x.d.used["block"] = d.used["block"] \ (gone \cup {b})
  BY <1>4 DEF Emptied
<1>8. Standing(d, m) /\ n \in Nat
  OBVIOUS
<1>9. r = IF b = 0 THEN t ELSE ext2_free(t, "block", b)
  BY DEF EmptyTo
<1> HIDE DEF b, gone, d, m, n, r
<1>10. CASE b = 0
  <2>1. d.used["block"] \ gone = d.used["block"] \ (gone \cup {b})
    BY <1>6, <1>10, UnitIs
  <2>2. Emptied(c, seq, k + 1, r)
    BY <1>5, <1>7, <1>9, <1>10, <2>1
  <2> QED
    BY <2>2 DEF r, b
<1>11. CASE b # 0
  <2> DEFINE f == ext2_free(t, "block", b)
             U == t.d.used["block"] \ {b}
  <2>1. b \in Blocks /\ b \in t.d.used["block"]
    BY <1>2, <1>3, <1>5, <1>6, <1>11
  <2>2. t.d \in Disks /\ U \in SUBSET Blocks
    BY <1>5, <1>6 DEF Between, Steady, Volumes
  <2>3. ASSUME NEW x, Marked(x, t.d, WithBitmap(t.d.used, "block", t.d.used["block"] \ {b})) PROVE Dangling(x)
    <3>1. Marked(x, t.d, WithBitmap(t.d.used, "block", U))
      BY <2>3
    <3> HIDE DEF U
    <3>2. x.used["block"] = U /\ x.used["inode"] = t.d.used["inode"] /\ x.node = t.d.node /\ x.data = t.d.data
      BY <2>2, <3>1, BlocksMarked
    <3>3. m \in Reached(x)
      BY <1>5, <1>8, <3>2 DEF Standing
    <3>4. Pointer(x, m, k) = b
      BY <1>2, <1>5, <3>2 DEF Pointer, ext2_get_file_block
    <3>5. b \notin x.used["block"]
      BY <3>2 DEF U
    <3> QED
      BY <1>1, <1>11, <3>3, <3>4, <3>5, DanglesBy
  <2>4. /\ Between(f, n)
        /\ Marked(f.d, t.d, WithBitmap(t.d.used, "block", t.d.used["block"] \ {b}))
    BY <1>5, <1>6, <1>8, <2>1, <2>3, FreedBetween
  <2> DEFINE e == f.d
  <2>5. Marked(e, t.d, WithBitmap(t.d.used, "block", U))
    BY <2>4
  <2>6. U = d.used["block"] \ (gone \cup {b})
    BY <1>5
  <2> HIDE DEF f, U, e
  <2>7. e.used["block"] = U /\ e.used["inode"] = t.d.used["inode"] /\ e.node = t.d.node /\ e.data = t.d.data
    BY <2>2, <2>5, BlocksMarked
  <2>8. Emptied(c, seq, k + 1, f)
    BY <1>5, <1>7, <2>4, <2>6, <2>7 DEF e
  <2> QED
    BY <1>9, <1>11, <2>8 DEF r, b, f
<1> QED
  BY <1>10, <1>11

\* FreeBlocks on the direct blocks of an inode.
LEMMA BlocksEmptied ==
    ASSUME NEW n \in Nat, NEW s, NEW S, NEW A, Ready(s, n, S, A), NEW m \in S, Standing(s.d, m),
           NEW t, t = FreeBlocks(s, DirectBlocks(s.d, m))
    PROVE  /\ Between(t, n) /\ t.d.node = s.d.node /\ t.d.data = s.d.data
           /\ t.d.used["inode"] = s.d.used["inode"]
           /\ t.d.used["block"] = s.d.used["block"] \ {DirectBlocks(s.d, m)[i] : i \in 1 .. Direct}
<1> DEFINE c == [n |-> n, d |-> s.d, S |-> S, A |-> A, m |-> m]
           seq == DirectBlocks(s.d, m)
<1>1. c.n = n /\ c.d = s.d /\ c.S = S /\ c.A = A /\ c.m = m
  OBVIOUS
<1>2. s.d \in Disks /\ Sound(s.d, S, A) /\ Between(s, n)
  BY ReadyIs, ReadyBetween
<1>3. DOMAIN seq = 1 .. Direct /\ Direct \in Nat
  BY IndexIs DEF DirectBlocks
<1>4. seq = DirectBlocks(c.d, c.m)
  BY <1>1
<1>5. t = FreeBlocks(s, seq)
  OBVIOUS
<1>6. c.n \in Nat /\ c.d \in Disks /\ Sound(c.d, c.S, c.A) /\ c.m \in c.S /\ Standing(c.d, c.m)
  BY <1>1, <1>2
<1> HIDE DEF c, seq
<1>7. t = Empties!Fold(c, s, seq)
  BY <1>5, Zenon DEF FreeBlocks, EmptyTo, Empties!Fold, Empties!MapThenFoldSet, Empties!Largest,
     FoldLeft, MapThenFoldSet, Max
<1>8. Emptied(c, seq, 0, s)
  BY <1>1, <1>2 DEF Emptied
<1>9. ASSUME NEW i \in 0 .. Direct - 1, NEW b, Emptied(c, seq, i, b)
      PROVE  Emptied(c, seq, i + 1, EmptyTo(c, b, seq[i + 1]))
  BY <1>4, <1>6, <1>9, EmptyStep
<1>10. Emptied(c, seq, Direct, t)
  BY <1>3, <1>7, <1>8, <1>9, Empties!LoopRule
<1> QED
  BY <1>1, <1>10 DEF Emptied, seq

\* The inode of a deleted file: no size, no direct blocks.
EmptyNode(node) == [node EXCEPT !.size = 0, !.i_block = NoBlocks]
\* The indirect block stays.
LEMMA EmptyNodeIs ==
    ASSUME NEW node \in Nodes
    PROVE  /\ EmptyNode(node) \in Nodes /\ EmptyNode(node).kind = node.kind
           /\ EmptyNode(node).indirect = node.indirect
           /\ \A i \in 0 .. Direct - 1 : EmptyNode(node).i_block[i] = 0
<1>1. NoBlocks \in [0 .. Direct - 1 -> Blocks \cup {0}] /\ \A i \in 0 .. Direct - 1 : NoBlocks[i] = 0
  BY DEF NoBlocks
<1>2. 0 \in 0 .. Direct + 1
  BY IndexIs
<1> QED
  BY <1>1, <1>2 DEF EmptyNode, Nodes

\* What it leaves is sound: the blocks that are free have no pointers now.
LEMMA EmptySound ==
    ASSUME NEW d \in Disks, NEW S, NEW A, Sound(d, S, A), NEW m \in S, NEW e \in Disks, e.data = d.data,
           e.used["inode"] = d.used["inode"],
           e.used["block"] = d.used["block"] \ {DirectBlocks(d, m)[i] : i \in 1 .. Direct},
           e.node[m] = EmptyNode(d.node[m]), \A x \in Inodes : x # m => e.node[x] = d.node[x]
    PROVE  Sound(e, S, A)
<1> DEFINE gone == {DirectBlocks(d, m)[i] : i \in 1 .. Direct}
           node == d.node[m]
<1>1. /\ S \subseteq Inodes /\ m \in Inodes /\ Ancestors(S, A) /\ MarkedIn(d, S) /\ ApartIn(d, S) /\ IndirectIn(d, S)
      /\ EntriesIn(d, S, A)
  BY DEF Sound, Ancestors
<1>2. node \in Nodes
  BY <1>1, DiskIs
<1> HIDE DEF node
<1>3. /\ EmptyNode(node).kind = node.kind /\ EmptyNode(node).indirect = node.indirect
      /\ \A i \in 0 .. Direct - 1 : EmptyNode(node).i_block[i] = 0
  BY <1>2, EmptyNodeIs
<1>4. /\ e.node[m].kind = d.node[m].kind /\ e.node[m].indirect = d.node[m].indirect
      /\ \A i \in 0 .. Direct - 1 : e.node[m].i_block[i] = 0
  BY <1>3 DEF node
<1>5. \A x \in S : e.node[x].kind = d.node[x].kind /\ e.node[x].indirect = d.node[x].indirect
  BY <1>1, <1>4
<1>6. \A x \in S : \A i \in 0 .. Direct + 1 :
          Pointer(e, x, i) # 0 => /\ Pointer(e, x, i) = Pointer(d, x, i)
                                  /\ x = m => i \notin 0 .. Direct - 1
  <2> SUFFICES ASSUME NEW x \in S, NEW i \in 0 .. Direct + 1, Pointer(e, x, i) # 0
               PROVE  Pointer(e, x, i) = Pointer(d, x, i) /\ (x = m => i \notin 0 .. Direct - 1)
    OBVIOUS
  <2>0. x \in Inodes
    BY <1>1
  <2>1. CASE x # m
    <3>1. e.node[x] = d.node[x]
      BY <2>0, <2>1
    <3> QED
      BY <2>1, <3>1 DEF Pointer, ext2_get_file_block
  <2>2. CASE x = m
    <3>1. i \notin 0 .. Direct - 1
      BY <1>1, <1>4, <2>2, PointerIs
    <3>2. i = Direct \/ i = Direct + 1
      BY <3>1, IndexIs
    <3>3. Pointer(d, x, Direct) = d.node[x].indirect /\ Pointer(e, x, Direct) = e.node[x].indirect
      BY <2>0, PointerIs
    <3>4. Pointer(d, x, Direct + 1) = Pointer(e, x, Direct + 1)
      <4>1. CASE d.node[x].indirect = 0
        BY <1>5, <2>0, <4>1, PointerIs
      <4>2. CASE d.node[x].indirect # 0
        BY <1>5, <2>0, <4>2, PointerIs
      <4> QED
        BY <4>1, <4>2
    <3> QED
      BY <1>5, <3>1, <3>2, <3>3, <3>4
  <2> QED
    BY <2>1, <2>2
<1>7. \A x \in S : \A i \in 0 .. Direct + 1 : Pointer(e, x, i) # 0 => Pointer(e, x, i) \in e.used["block"]
  <2> SUFFICES ASSUME NEW x \in S, NEW i \in 0 .. Direct + 1, Pointer(e, x, i) # 0
               PROVE  Pointer(d, x, i) \in d.used["block"] \ gone
    BY <1>6
  <2>1. Pointer(d, x, i) # 0 /\ (x = m => i \notin 0 .. Direct - 1)
    BY <1>6
  <2>2. Pointer(d, x, i) \in d.used["block"]
    BY <1>1, <2>1 DEF MarkedIn
  <2>3. ASSUME NEW j \in 1 .. Direct, DirectBlocks(d, m)[j] = Pointer(d, x, i) PROVE FALSE
    <3>1. DirectBlocks(d, m)[j] = Pointer(d, m, j - 1)
      BY DirectBlocksAre
    <3>2. j - 1 \in 0 .. Direct - 1 /\ j - 1 \in 0 .. Direct + 1
      BY IndexIs
    <3>3. Pointer(d, x, i) = Pointer(d, m, j - 1)
      BY <2>3, <3>1
    <3>4. x = m /\ i = j - 1
      BY <1>1, <2>1, <3>2, <3>3 DEF ApartIn
    <3> QED
      BY <2>1, <3>2, <3>4
  <2> QED
    BY <2>2, <2>3
<1>8. \A x \in DirsIn(e, S) : x \in DirsIn(d, S) /\
          \A i \in 0 .. Direct - 1 : \A j \in 0 .. Slots - 1 :
              Place(e, x, i, j).inode # 0 => Place(e, x, i, j) = Place(d, x, i, j)
  <2> SUFFICES ASSUME NEW x \in DirsIn(e, S), NEW i \in 0 .. Direct - 1, NEW j \in 0 .. Slots - 1
               PROVE  x \in DirsIn(d, S) /\ (Place(e, x, i, j).inode # 0 => Place(e, x, i, j) = Place(d, x, i, j))
    BY IndexIs
  <2>1. x \in DirsIn(d, S) /\ x \in S /\ x \in Inodes
    BY <1>1, <1>5 DEF DirsIn
  <2>2. CASE x # m
    <3>1. e.node[x] = d.node[x]
      BY <2>1, <2>2
    <3> QED
      BY <2>1, <3>1 DEF Place, EntryIn, Formatted
  <2>3. CASE x = m
    <3>1. e.node[x].i_block[i] = 0
      BY <1>4, <2>3
    <3>2. Place(e, x, i, j) = NoEntry
      BY <3>1 DEF Place, EntryIn, Formatted
    <3> QED
      BY <2>1, <3>2 DEF NoEntry
  <2> QED
    BY <2>2, <2>3
<1>9. Fewer(d, e, S)
  BY <1>6, <1>7, <1>8 DEF Fewer
<1>10. IndirectIn(e, S)
  BY <1>1, <1>5 DEF IndirectIn
<1>11. S \subseteq e.used["inode"]
  BY <1>1 DEF MarkedIn
<1>12. \A x \in DirsIn(e, S) : \A i \in 0 .. Direct - 1 : \A j \in 0 .. Slots - 1 :
           Place(e, x, i, j).inode # 0 => Place(e, x, i, j).inode \in S
  BY <1>1, <1>8 DEF EntriesIn, Leads
<1> QED
  BY <1>1, <1>9, <1>10, <1>11, <1>12, SoundLess

\* The inode is written once its blocks are free.
LEMMA EmptyWritten ==
    ASSUME NEW n \in Nat, NEW d \in Disks, NEW S, NEW A, Sound(d, S, A), NEW m \in S,
           NEW t, Between(t, n), t.d.node = d.node, t.d.data = d.data, t.d.used["inode"] = d.used["inode"],
           t.d.used["block"] = d.used["block"] \ {DirectBlocks(d, m)[i] : i \in 1 .. Direct},
           NEW r, r = ext2_write_inode_sync(t, m, EmptyNode(d.node[m]))
    PROVE  /\ Between(r, n) /\ Sound(r.d, S, A) /\ r.d.data = d.data /\ r.d.used["inode"] = d.used["inode"]
           /\ r.d.node[m] = EmptyNode(d.node[m]) /\ \A x \in Inodes : x # m => r.d.node[x] = d.node[x]
<1> DEFINE b == t.d
           node == EmptyNode(d.node[m])
           e == NewNode(b, m, node)
           V == DeleteHalts(n)
<1>1. b \in Disks /\ m \in Inodes /\ Steady(t, n, V) /\ b \in V
  BY DEF Between, Steady, Volumes, Sound, Ancestors
<1>2. d.node[m] \in Nodes
  BY <1>1, DiskIs
<1>3. node \in Nodes
  BY <1>2, EmptyNodeIs
<1>4. r = Put(t, e)
  BY DEF ext2_write_inode_sync, NewNode
<1>5. /\ b.node = d.node /\ b.data = d.data /\ b.used["inode"] = d.used["inode"]
      /\ b.used["block"] = d.used["block"] \ {DirectBlocks(d, m)[i] : i \in 1 .. Direct}
  OBVIOUS
<1> HIDE DEF node
<1>6. t.d \in V /\ b = t.d
  BY <1>1
<1> HIDE DEF b, V
<1>7. /\ e \in Disks /\ SameUnits(b, e) /\ e.data = b.data /\ e.node[m] = node
      /\ \A x \in Inodes : x # m => e.node[x] = b.node[x]
  BY <1>1, <1>3, NewNodeIs
<1> HIDE DEF e
<1>8. e.data = d.data /\ e.used["inode"] = d.used["inode"]
      /\ e.used["block"] = d.used["block"] \ {DirectBlocks(d, m)[i] : i \in 1 .. Direct}
      /\ e.node[m] = EmptyNode(d.node[m]) /\ \A x \in Inodes : x # m => e.node[x] = d.node[x]
  BY <1>5, <1>7 DEF SameUnits, node
<1>9. Sound(e, S, A)
  BY <1>7, <1>8, EmptySound
<1>10. e.used = t.d.used /\ e.sb = t.d.sb /\ e.bgd = t.d.bgd
  BY <1>6, <1>7 DEF SameUnits
<1>11. Steady(Put(t, e), n, V) /\ Put(t, e).d = e
  BY <1>1, <1>6, <1>7, <1>10, PutSteady
<1>12. e \in V
  <2>1. Held(e) /\ Near(e, n)
    BY <1>9, <1>11 DEF Held, Steady
  <2> QED
    BY <1>7, <2>1, HaltIs DEF V
<1> QED
  BY <1>4, <1>8, <1>9, <1>11, <1>12 DEF Between, V

\* Disk e has inode m free, and else what disk d has.
InodeGone(e, d, m) ==
    /\ e.used["inode"] = d.used["inode"] \ {m} /\ e.used["block"] = d.used["block"]
    /\ e.node = d.node /\ e.data = d.data
\* This is what the bitmap of the inodes becomes.
LEMMA InodeGoneIs ==
    ASSUME NEW d \in Disks, NEW m, NEW e, Marked(e, d, WithBitmap(d.used, "inode", d.used["inode"] \ {m}))
    PROVE  InodeGone(e, d, m)
<1> DEFINE U == d.used["inode"] \ {m}
<1>1. U \in SUBSET Inodes
  BY DEF Disks, Bitmaps, Kinds, Units
<1>2. Marked(e, d, WithBitmap(d.used, "inode", U))
  OBVIOUS
<1> HIDE DEF U
<1>3. e.used["inode"] = U /\ e.used["block"] = d.used["block"] /\ e.node = d.node /\ e.data = d.data
  BY <1>1, <1>2, InodesMarked
<1> QED
  BY <1>3 DEF InodeGone, U

\* The inode is free, and its entry is still there.
LEMMA InodeFreed ==
    ASSUME NEW n \in Nat, NEW d, NEW m \in Inodes, Standing(d, m), NEW t, Between(t, n),
           t.d.data = d.data, \A x \in Inodes : x # m => t.d.node[x] = d.node[x], m \in t.d.used["inode"],
           NEW f, f = ext2_free(t, "inode", m)
    PROVE  Between(f, n) /\ InodeGone(f.d, t.d, m)
<1>1. t.d \in Disks /\ "inode" \in Kinds /\ Units("inode") = Inodes
  BY DEF Between, Steady, Volumes, Kinds, Units
<1>2. ASSUME NEW x, Marked(x, t.d, WithBitmap(t.d.used, "inode", t.d.used["inode"] \ {m})) PROVE Dangling(x)
  <2>1. InodeGone(x, t.d, m)
    BY <1>1, <1>2, InodeGoneIs
  <2>2. m \in Reached(x)
    BY <2>1 DEF Standing, InodeGone
  <2>3. m \notin x.used["inode"] /\ 0 \in 0 .. Direct + 1
    BY <2>1, IndexIs DEF InodeGone
  <2> QED
    BY <2>2, <2>3, DanglesBy
<1>3. /\ Between(f, n)
      /\ Marked(f.d, t.d, WithBitmap(t.d.used, "inode", t.d.used["inode"] \ {m}))
  BY <1>1, <1>2, FreedBetween
<1>4. InodeGone(f.d, t.d, m)
  BY <1>1, <1>3, InodeGoneIs
<1> QED
  BY <1>3, <1>4

\* A directory block without one of its entries.
Without(content, j0) == [content EXCEPT !.entry[j0] = NoEntry]
\* The others stay.
LEMMA WithoutIs ==
    ASSUME NEW content \in DirContents, NEW j0 \in 0 .. Slots - 1
    PROVE  /\ Without(content, j0) \in DirContents /\ Without(content, j0).entry[j0] = NoEntry
           /\ \A l \in 0 .. Slots - 1 : l # j0 => Without(content, j0).entry[l] = content.entry[l]
<1> DEFINE entry == [content.entry EXCEPT ![j0] = NoEntry]
<1>1. Without(content, j0) = [content EXCEPT !.entry = entry]
  BY Zenon DEF Without
<1>2. NoEntry \in DirEntries
  BY DEF NoEntry, DirEntries
<1> HIDE DEF NoEntry
<1>3. /\ entry \in [0 .. Slots - 1 -> DirEntries] /\ entry[j0] = NoEntry
      /\ \A l \in 0 .. Slots - 1 : l # j0 => entry[l] = content.entry[l]
  BY <1>2 DEF DirContents
<1> HIDE DEF entry
<1>4. Without(content, j0) \in DirContents /\ Without(content, j0).entry = entry
  BY <1>1, <1>3 DEF DirContents
<1> QED
  BY <1>3, <1>4

\* A block of a directory loses the one entry that names an inode.
LEMMA EntryGone ==
    ASSUME NEW d \in Disks, NEW g \in Disks, NEW S, NEW A, Sound(d, S, A), NEW m \in Inodes,
           NEW p \in DirsIn(d, S), NEW i0 \in 0 .. Direct - 1, NEW j0 \in 0 .. Slots - 1,
           NEW b, b = d.node[p].i_block[i0], b # 0,
           Place(d, p, i0, j0).inode = m, Place(d, p, i0, j0).name \in Names,
           NEW content, Rewrites(d, g, b, content), content.kind = "dir", d.data[b].kind = "dir",
           content.entry[j0] = NoEntry, \A l \in 0 .. Slots - 1 : l # j0 => content.entry[l] = d.data[b].entry[l]
    PROVE  Unlinked(g, S, m)
<1>1. S \subseteq Inodes /\ OneLink(d, S) /\ m # 0 /\ p \in S
  BY UnitIs DEF Sound, Ancestors, DirsIn
<1>8. b \in Blocks
  BY <1>1, DirectIs, SMTT(30)
<1>2. \A x \in S : \A k \in 0 .. Direct - 1 : d.node[x].i_block[k] = b => x = p /\ k = i0
  BY <1>1, DirectIs, SMTT(30)
<1> SUFFICES ASSUME NEW x \in DirsIn(g, S), NEW i \in 0 .. Direct - 1, NEW j \in 0 .. Slots - 1,
                    Place(g, x, i, j).inode = m, Place(g, x, i, j).name \in Names
             PROVE  FALSE
  BY DEF Unlinked
<1>3. x \in S /\ x \in Inodes /\ x \in DirsIn(d, S)
  BY <1>1 DEF DirsIn, Rewrites
<1>4. Place(d, x, i, j) = Place(g, x, i, j) => x = p /\ i = i0 /\ j = j0
  <2>1. Place(d, x, i, j) = Place(g, x, i, j) => Links2(d, x, i, j, p, i0, j0)
    BY <1>1 DEF Links2
  <2> QED
    BY <1>1, <1>3, <2>1, SMTT(30) DEF OneLink
<1>6. CASE d.node[x].i_block[i] # b
  <2>1. Place(g, x, i, j) = Place(d, x, i, j)
    BY <1>3, <1>6, <1>8, PlaceRead, SMTT(30)
  <2> QED
    BY <1>4, <1>6, <2>1
<1>7. CASE d.node[x].i_block[i] = b
  <2>1. Place(g, x, i, j) = content.entry[j] /\ Place(d, x, i, j) = d.data[b].entry[j]
    BY <1>3, <1>7, <1>8, PlaceRead, SMTT(30)
  <2>2. CASE j = j0
    <3>1. Place(g, x, i, j).inode = 0
      BY <2>1, <2>2, SMTT(30) DEF NoEntry
    <3> QED
      BY <1>1, <3>1
  <2>3. CASE j # j0
    BY <1>4, <2>1, <2>3
  <2> QED
    BY <2>2, <2>3
<1> QED
  BY <1>6, <1>7

\* An inode that is free and has no entry goes, and what is below it.
LEMMA InodeRemoved ==
    ASSUME NEW d \in Disks, NEW e \in Disks, NEW S, NEW A, Sound(d, S, A), NEW m \in S, m # ROOT,
           Unlinked(d, S, m), InodeGone(e, d, m)
    PROVE  Held(e)
<1> DEFINE T == {x \in S : m \notin A[x]}
<1>1. S \subseteq Inodes /\ Ancestors(S, A) /\ MarkedIn(d, S) /\ IndirectIn(d, S)
  BY DEF Sound, Ancestors
<1>2. e.node = d.node /\ e.data = d.data /\ e.used["inode"] = d.used["inode"] \ {m} /\ e.used["block"] = d.used["block"]
  BY DEF InodeGone
<1>3. \A x, i : Pointer(e, x, i) = Pointer(d, x, i)
  BY <1>2 DEF Pointer, ext2_get_file_block
<1>4. \A x, i, j : Place(e, x, i, j) = Place(d, x, i, j)
  BY <1>2 DEF Place, EntryIn, Formatted
<1>5. T \subseteq S /\ m \notin T
  BY <1>1 DEF Ancestors
<1>6. T = {x \in S : m \notin A[x]}
  OBVIOUS
<1> HIDE DEF T
<1>7. Fewer(d, e, T)
  <2>1. \A x \in T : \A i \in 0 .. Direct + 1 : Pointer(e, x, i) # 0 => Pointer(e, x, i) \in e.used["block"]
    BY <1>1, <1>2, <1>3, <1>5 DEF MarkedIn
  <2>2. DirsIn(e, T) = DirsIn(d, T)
    BY <1>2 DEF DirsIn
  <2>3. DirsIn(d, T) \subseteq DirsIn(d, S)
    BY <1>5 DEF DirsIn
  <2> QED
    BY <1>3, <1>4, <2>1, <2>2, <2>3 DEF Fewer
<1>8. IndirectIn(e, T)
  BY <1>1, <1>2, <1>5 DEF IndirectIn
<1>9. T \subseteq e.used["inode"]
  BY <1>1, <1>2, <1>5 DEF MarkedIn
<1>10. \A x \in DirsIn(e, T) : \A i \in 0 .. Direct - 1 : \A j \in 0 .. Slots - 1 :
           Place(e, x, i, j).inode = m => Place(e, x, i, j).name \notin Names
  <2>1. DirsIn(e, T) \subseteq DirsIn(d, S)
    BY <1>2, <1>5 DEF DirsIn
  <2> QED
    BY <1>4, <2>1 DEF Unlinked
<1>11. Sound(e, T, A)
  BY <1>6, <1>7, <1>8, <1>9, <1>10, SoundWithout
<1> QED
  BY <1>11 DEF Held

\* Disk e has inode m free and block b without its entry j0, and else what disk
\* d has.
EntryLost(e, d, m, b, j0) ==
    /\ e.node = d.node /\ e.used["inode"] = d.used["inode"] \ {m} /\ e.used["block"] = d.used["block"]
    /\ \A x \in Blocks : e.data[x] = IF x = b THEN Without(d.data[b], j0) ELSE d.data[x]

\* When the entry is gone too, what is left without the inode is sound.
LEMMA EntryRemoved ==
    ASSUME NEW d \in Disks, NEW S, NEW A, Sound(d, S, A), NEW m \in S, m # ROOT, NEW p \in S, d.node[p].kind = "dir",
           NEW i0 \in 0 .. Direct - 1, NEW j0 \in 0 .. Slots - 1, NEW name \in Names,
           NEW b, b = d.node[p].i_block[i0], Place(d, p, i0, j0) = [inode |-> m, name |-> name],
           NEW e \in Disks, EntryLost(e, d, m, b, j0)
    PROVE  Held(e)
<1> DEFINE content == Without(d.data[b], j0)
           g == NewData(d, b, content)
<1>1. S \subseteq Inodes /\ m \in Inodes /\ p \in Inodes /\ Ancestors(S, A) /\ OneLink(d, S)
  BY DEF Sound, Ancestors
<1>2. Place(d, p, i0, j0).inode = m /\ Place(d, p, i0, j0).name = name /\ m # 0
  BY <1>1, UnitIs
<1>3. b \in Blocks /\ d.data[b].kind = "dir" /\ Place(d, p, i0, j0) = d.data[b].entry[j0]
  BY <1>1, <1>2, PlaceIs, ZenonT(30)
<1>4. d.data[b] \in Contents
  BY <1>3, DiskIs
<1>5. d.data[b] \in DirContents
  BY <1>3, <1>4, DirContent
<1>6. /\ content \in DirContents /\ content.entry[j0] = NoEntry
      /\ \A l \in 0 .. Slots - 1 : l # j0 => content.entry[l] = d.data[b].entry[l]
  BY <1>5, WithoutIs
<1>13. /\ e.node = d.node /\ e.used["inode"] = d.used["inode"] \ {m} /\ e.used["block"] = d.used["block"]
       /\ \A x \in Blocks : e.data[x] = IF x = b THEN content ELSE d.data[x]
  BY DEF EntryLost
<1> HIDE DEF content
<1>7. content \in Contents /\ content.kind = "dir"
  BY <1>6, DirContent DEF DirContents
<1>8. g \in Disks /\ SameUnits(d, g) /\ Rewrites(d, g, b, content)
  BY <1>3, <1>7, NewDataIs
<1>9. b # 0
  BY <1>3, UnitIs
<1>10. /\ \A x \in S : d.node[x].indirect # b
       /\ \A x \in S : \A k \in 0 .. Direct - 1 : d.node[x].i_block[k] = b => x = p /\ k = i0
  BY <1>9, DirectIs
<1> HIDE DEF g
<1>11. NoNewEntry(d, b, content)
  BY <1>3, <1>6, SMTT(30) DEF NoNewEntry, NoEntry
<1>12. Sound(g, S, A)
  BY <1>3, <1>8, <1>10, <1>11, SoundBlock
<1>14. Unlinked(g, S, m)
  <2>1. p \in DirsIn(d, S) /\ b = d.node[p].i_block[i0] /\ m \in Inodes
    BY <1>1 DEF DirsIn
  <2> QED
    BY <1>2, <1>3, <1>6, <1>7, <1>8, <1>9, <2>1, EntryGone
<1>15. \A x \in Blocks : e.data[x] = g.data[x]
  BY <1>8, <1>13 DEF Rewrites
<1>16. e.data = g.data
  BY <1>8, <1>15 DEF Disks
<1>17. InodeGone(e, g, m)
  BY <1>8, <1>13, <1>16 DEF Rewrites, InodeGone
<1> QED
  BY <1>8, <1>12, <1>14, <1>17, InodeRemoved

\* The last write of a delete takes the entry away.
LEMMA EntryCleared ==
    ASSUME NEW n \in Nat, NEW d \in Disks, NEW S, NEW A, Sound(d, S, A), NEW m \in S, m # ROOT,
           NEW p \in S, d.node[p].kind = "dir",
           NEW i0 \in 0 .. Direct - 1, NEW j0 \in 0 .. Slots - 1, NEW name \in Names,
           NEW b, b = d.node[p].i_block[i0], Place(d, p, i0, j0) = [inode |-> m, name |-> name],
           NEW t, Between(t, n), InodeGone(t.d, d, m),
           NEW r, r = ext2_write_block(t, b, Without(t.d.data[b], j0))
    PROVE  Between(r, n) /\ Held(r.d)
<1> DEFINE g == t.d
           content == Without(g.data[b], j0)
           e == NewData(g, b, content)
           V == DeleteHalts(n)
<1>1. p \in Inodes /\ m \in Inodes /\ m # 0 /\ g \in Disks /\ Steady(t, n, V) /\ g \in V
  BY UnitIs DEF Sound, Ancestors, Between, Steady, Volumes
<1>2. Place(d, p, i0, j0).inode = m /\ Place(d, p, i0, j0).inode # 0
  BY <1>1
<1>3. b \in Blocks /\ d.data[b].kind = "dir"
  BY <1>1, <1>2, PlaceIs, ZenonT(30)
<1>4. d.data[b] \in Contents
  BY <1>3, DiskIs
<1>5. d.data[b] \in DirContents
  BY <1>3, <1>4, DirContent
<1>6. g.data = d.data /\ g.node = d.node /\ g.used["inode"] = d.used["inode"] \ {m} /\ g.used["block"] = d.used["block"]
  BY DEF InodeGone
<1>7. content = Without(d.data[b], j0)
  BY <1>6
<1>8. content \in DirContents
  BY <1>5, <1>7, WithoutIs
<1>9. content \in Contents
  BY <1>8, DirContent
<1>10. r = Put(t, e)
  BY DEF ext2_write_block, NewData
<1>19. t.d = g
  OBVIOUS
<1> HIDE DEF g, content, V
<1>11. e \in Disks /\ SameUnits(g, e) /\ Rewrites(g, e, b, content)
  BY <1>1, <1>3, <1>9, NewDataIs
<1> HIDE DEF e
<1>12. EntryLost(e, d, m, b, j0)
  BY <1>6, <1>7, <1>11 DEF Rewrites, EntryLost
<1>13. Held(e)
  BY <1>11, <1>12, EntryRemoved
<1>14. e.used = t.d.used /\ e.sb = t.d.sb /\ e.bgd = t.d.bgd /\ t.d \in V
  BY <1>1, <1>11, <1>19 DEF SameUnits
<1>15. Steady(Put(t, e), n, V) /\ Put(t, e).d = e
  BY <1>1, <1>11, <1>14, PutSteady
<1>16. Near(e, n)
  BY <1>15 DEF Steady
<1>17. e \in V
  BY <1>11, <1>13, <1>16, HaltIs DEF V
<1> QED
  BY <1>10, <1>13, <1>15, <1>17 DEF Between, V

\* What a delete leaves.
Deleted(s, n) == Between(s, n) /\ Held(s.d)
\* ext2_delete_file once it has found the inode and its directory: blocks, inode,
\* bitmap and entry in this order.
LEMMA DeleteIs ==
    ASSUME NEW n \in Nat, NEW s, NEW S, NEW A, Ready(s, n, S, A), NEW m \in S, Standing(s.d, m), NEW p \in S,
           NEW name \in Names, Child(s.d, A, p, name, m),
           NEW r, r = Delete(s, m, s.d.node[m], s.d.node[p], name)
    PROVE  Deleted(r.s, n)
<1> DEFINE d == s.d
           node == d.node[m]
           dir == d.node[p]
           s1 == FreeBlocks(s, DirectBlocks(d, m))
           s2 == ext2_write_inode_sync(s1, m, EmptyNode(node))
           s3 == ext2_free(s2, "inode", m)
           found == Holding(Entries(s3.d, dir), name)
           s4 == ext2_remove_dir_entry(s3, dir, name)
           q == Min(found)
           i0 == q \div Slots
           j0 == q % Slots
           b == dir.i_block[i0]
<1>1. d \in Disks /\ Sound(d, S, A) /\ S \subseteq Inodes /\ m \in Inodes /\ p \in Inodes /\ Ancestors(S, A)
      /\ Standing(d, m) /\ Child(d, A, p, name, m)
  BY ReadyIs DEF Sound, Ancestors
<1>2. m # p /\ m # ROOT
  <2>1. p \in A[p] /\ m \notin A[p] /\ A[m] = A[p] \cup {m} /\ A[ROOT] = {ROOT}
    BY <1>1 DEF Child, Ancestors
  <2> QED
    BY <2>1
<1>3. r = Done(s4)
  BY Zenon DEF Delete, DirectBlocks, EmptyNode
<1>4. /\ Between(s1, n) /\ s1.d.node = s.d.node /\ s1.d.data = s.d.data
      /\ s1.d.used["inode"] = s.d.used["inode"]
      /\ s1.d.used["block"] = s.d.used["block"] \ {DirectBlocks(s.d, m)[i] : i \in 1 .. Direct}
  BY BlocksEmptied
<1> HIDE DEF s1
<1>5. /\ Between(s2, n) /\ Sound(s2.d, S, A) /\ s2.d.data = d.data /\ s2.d.used["inode"] = d.used["inode"]
      /\ s2.d.node[m] = EmptyNode(d.node[m]) /\ \A x \in Inodes : x # m => s2.d.node[x] = d.node[x]
  BY <1>1, <1>4, EmptyWritten
<1>6. s2.d \in Disks /\ m \in s2.d.used["inode"] /\ s2.d.node[p] = dir
  BY <1>1, <1>2, <1>5 DEF Between, Steady, Volumes, Sound, MarkedIn
<1> HIDE DEF s2
<1>7. Between(s3, n) /\ InodeGone(s3.d, s2.d, m)
  BY <1>1, <1>5, <1>6, InodeFreed
<1> HIDE DEF s3
<1>8. s3.d.data = d.data
  BY <1>5, <1>7 DEF InodeGone
<1>9. Entries(s3.d, dir) = Entries(d, dir)
  BY <1>8 DEF Entries, EntryAt, EntryIn, Formatted, BlockAt, ext2_get_file_block
<1>10. /\ found # {} /\ q \in Positions /\ EntryAt(d, dir, q) = [inode |-> m, name |-> name]
       /\ dir.kind = "dir"
  BY <1>1, <1>9 DEF Child
<1>11. s4 = WriteEntry(s3, BlockAt(s3.d, dir, i0), j0, NoEntry)
  BY <1>10 DEF ext2_remove_dir_entry, ClearEntry
<1>12. EntryAt(d, d.node[p], q).inode # 0
  BY <1>1, <1>10, UnitIs
<1> HIDE DEF q, found, d
<1>13. /\ EntryAt(d, d.node[p], q) = Place(d, p, i0, j0)
       /\ BlockAt(d, d.node[p], i0) = d.node[p].i_block[i0] /\ d.node[p].i_block[i0] # 0
  BY <1>1, <1>10, <1>12, EntryIs
<1>14. i0 \in 0 .. Direct - 1 /\ j0 \in 0 .. Slots - 1
  BY <1>10, PositionIs
<1> HIDE DEF i0, j0
<1>15. BlockAt(s3.d, dir, i0) = b
  <2>1. BlockAt(s3.d, dir, i0) = BlockAt(d, dir, i0)
    BY <1>8 DEF BlockAt, ext2_get_file_block
  <2> QED
    BY <1>13, <2>1
<1>16. s4 = ext2_write_block(s3, b, Without(s3.d.data[b], j0))
  BY <1>11, <1>15, Zenon DEF WriteEntry, Without
<1>17. Place(s2.d, p, i0, j0) = [inode |-> m, name |-> name]
  <2>1. Place(s2.d, p, i0, j0) = Place(d, p, i0, j0)
    BY <1>5, <1>6 DEF Place, EntryIn, Formatted
  <2> QED
    BY <1>10, <1>13, <2>1
<1>18. b = s2.d.node[p].i_block[i0] /\ s2.d.node[p].kind = "dir"
  BY <1>6, <1>10
<1> HIDE DEF s4, b, dir
<1>19. Between(s4, n) /\ Held(s4.d)
  BY <1>2, <1>5, <1>6, <1>7, <1>14, <1>16, <1>17, <1>18, EntryCleared, SMTT(30)
<1> QED
  BY <1>3, <1>19 DEF Deleted, Done

\* ext2_delete_file.
LEMMA DeleteFileIs ==
    ASSUME NEW n \in Nat, NEW s, NEW S, NEW A, Ready(s, n, S, A), NEW u, NEW path \in Paths
    PROVE  Deleted(ext2_delete_file(s, u, path).s, n)
<1> DEFINE p == Parent(s, u, path)
           q == ext2_resolve_path(s.d, u, Front(path))
           m == ext2_resolve_path(s.d, u, path)
           name == Last(path)
           r == ext2_delete_file(s, u, path)
<1>1. r = DeleteIn(s, p, m, name)
  BY DEF ext2_delete_file
<1>2. s.d \in Disks /\ Sound(s.d, S, A) /\ S \subseteq Inodes /\ name \in Names
  BY ReadyIs, FrontIs DEF Sound, Ancestors
<1>3. p = 0 \/ p = q
  BY DEF Parent, Writable
<1>4. CASE p = 0 \/ m = 0
  <2>1. r.s = s
    BY <1>1, <1>4 DEF DeleteIn, Failed
  <2>2. Between(s, n) /\ Held(s.d)
    BY <1>2, ReadyBetween DEF Held
  <2> QED
    BY <2>1, <2>2 DEF Deleted
<1>5. CASE ~(p = 0 \/ m = 0)
  <2>1. r = Delete(s, m, s.d.node[m], s.d.node[p], name)
    BY <1>1, <1>5 DEF DeleteIn
  <2>2. q \in S /\ m \in S /\ Child(s.d, A, q, name, m)
    BY <1>2, <1>5, ParentIs
  <2>3. \A e : e.data = s.d.data /\ (\A x \in Inodes : x # m => e.node[x] = s.d.node[x]) => m \in Reached(e)
    BY <1>2, <1>5, StillReached
  <2>4. Standing(s.d, m)
    BY <2>3 DEF Standing
  <2>5. p \in S /\ Child(s.d, A, p, name, m)
    BY <1>3, <1>5, <2>2
  <2> HIDE DEF p, q, m, name, r
  <2>6. Deleted(r.s, n)
    BY <1>2, <2>1, <2>2, <2>4, <2>5, DeleteIs
  <2> QED
    BY <2>6 DEF r
<1> QED
  BY <1>4, <1>5

-----------------------------------------------------------------------------
(* The actions *)

\* A system call begins with a sound disk.
LEMMA VolumeReady ==
    ASSUME DiskInv, Followed
    PROVE  \E S, A : Ready(Volume, stops, S, A)
<1>1. PICK S, A : Sound(disk, S, A)
  BY DEF DiskInv, Held
<1>2. Volume.d = disk /\ Volume.sb = sb /\ Volume.bgd = bgd /\ Volume.via = {}
  BY DEF Volume
<1>3. disk \in Disks /\ disk.sb = sb /\ disk.bgd = bgd /\ Near(disk, stops)
  BY DEF DiskInv
<1>4. sb \in Counts /\ bgd \in Counts
  BY <1>3 DEF Disks
<1>5. Volume \in Volumes
  BY <1>3, <1>4 DEF Volume, Volumes
<1>6. Steady(Volume, stops, Halts(stops))
  BY <1>2, <1>3, <1>5 DEF Steady
<1> QED
  BY <1>1, <1>2, <1>6 DEF Ready

\* A disk of which the rest is forgotten.
LEMMA Forgotten ==
    ASSUME NEW d \in Disks
    PROVE  /\ Forget(d) \in Disks /\ Forget(d).sb = d.sb /\ Forget(d).bgd = d.bgd
           /\ Held(d) => Held(Forget(d))
           /\ \A n : Near(d, n) => Near(Forget(d), n)
<1>1. Forget(d) \in Disks /\ Forget(d).used = d.used /\ Forget(d).sb = d.sb /\ Forget(d).bgd = d.bgd
  BY ForgetIs
<1>2. ASSUME NEW S, NEW A, Sound(d, S, A) PROVE Sound(Forget(d), S, A)
  BY <1>2, ForgetSound
<1>3. Held(d) => Held(Forget(d))
  BY <1>2 DEF Held
<1>4. \A n : Near(d, n) => Near(Forget(d), n)
  BY <1>1 DEF Near, Off
<1> QED
  BY <1>1, <1>3, <1>4

\* A call runs to its end.
LEMMA ReturnsKept ==
    ASSUME DiskInv, NEW s, NEW V, Steady(s, stops, V), Held(s.d), NEW harm, harm \subseteq {"lost"}, Returns(s, harm)
    PROVE  DiskInv'
<1> DEFINE d == s.d
           e == Forget(d)
<1>1. d \in Disks /\ Held(d) /\ Near(d, stops) /\ s.sb = d.sb /\ s.bgd = d.bgd
  BY DEF Steady, Volumes
<1> HIDE DEF d
<1>2. e \in Disks /\ e.sb = d.sb /\ e.bgd = d.bgd /\ Held(e) /\ Near(e, stops)
  BY <1>1, Forgotten
<1>3. disk' = e /\ sb' = s.sb /\ bgd' = s.bgd /\ damage' = damage \cup harm /\ euid' = euid /\ stops' = stops
  BY DEF Returns, d
<1> HIDE DEF e
<1>4. damage' \subseteq {"stop", "lost", "dangling"} /\ euid \in Users /\ stops \in 0 .. MaxStops
  BY <1>3 DEF DiskInv
<1>5. disk' \in Disks /\ disk'.sb = sb' /\ disk'.bgd = bgd' /\ Held(disk') /\ Near(disk', stops')
  BY <1>1, <1>2, <1>3
<1> QED
  BY <1>3, <1>4, <1>5 DEF DiskInv

\* The machine stops in a call.
LEMMA StopsKept ==
    ASSUME DiskInv, NEW s, NEW deletes,
           (deletes /\ s.via \subseteq DeleteHalts(stops)) \/ (~deletes /\ s.via \subseteq Halts(stops)),
           Stops(s, deletes)
    PROVE  DiskInv'
<1> DEFINE harm == IF deletes /\ Dangling(disk) THEN {"dangling"} ELSE {}
<1>1. stops \in 0 .. MaxStops /\ stops < MaxStops /\ stops' = stops + 1 /\ euid' = euid /\ euid \in Users
      /\ damage \subseteq {"stop", "lost", "dangling"}
  BY DEF DiskInv, Stops
<1>2. PICK d \in s.via : /\ disk' = Forget(d) /\ sb' = d.sb /\ bgd' = d.bgd
                         /\ damage' = damage \cup {"stop"} \cup
                               (IF deletes /\ Dangling(d) THEN {"dangling"} ELSE {})
  BY DEF Stops
<1>3. d \in Disks /\ Near(d, stops + 1) /\ (Held(d) \/ (deletes /\ Dangling(d)))
  BY DEF Halts, DeleteHalts
<1> DEFINE e == Forget(d)
<1>4. e \in Disks /\ e.sb = d.sb /\ e.bgd = d.bgd /\ (Held(d) => Held(e)) /\ Near(e, stops + 1)
  BY <1>3, Forgotten
<1>5. disk' = e
  BY <1>2
<1> HIDE DEF e
<1>6. "dangling" \notin damage' => Held(e)
  BY <1>2, <1>3, <1>4
<1>7. stops' \in 0 .. MaxStops
  BY <1>1, BoundsAssumption DEF BoundsAssumption
<1>8. damage' \subseteq {"stop", "lost", "dangling"}
  BY <1>1, <1>2
<1>9. disk' \in Disks /\ disk'.sb = sb' /\ disk'.bgd = bgd' /\ Near(disk', stops')
      /\ ("dangling" \notin damage' => Held(disk'))
  BY <1>1, <1>2, <1>4, <1>5, <1>6
<1> QED
  BY <1>1, <1>7, <1>8, <1>9 DEF DiskInv, Followed

\* A call that is not a delete.
LEMMA CallsKept ==
    ASSUME DiskInv, NEW r, Whole(r.s, stops), NEW lost, Calls(r, lost)
    PROVE  DiskInv'
<1>1. PICK S, A : Ready(r.s, stops, S, A)
  BY DEF Whole
<1>2. Steady(r.s, stops, Halts(stops)) /\ Held(r.s.d) /\ r.s.via \subseteq Halts(stops)
  BY <1>1 DEF Ready, Steady, Held
<1>3. CASE Returns(r.s, IF lost THEN {"lost"} ELSE {})
  <2> DEFINE harm == IF lost THEN {"lost"} ELSE {}
  <2>1. harm \subseteq {"lost"} /\ Returns(r.s, harm)
    BY <1>3
  <2> HIDE DEF harm
  <2> QED
    BY <1>2, <2>1, ReturnsKept
<1>4. CASE Stops(r.s, FALSE)
  BY <1>2, <1>4, StopsKept
<1> QED
  BY <1>3, <1>4 DEF Calls

\* What any call begins with.
LEMMA PathsIn == Paths \subseteq AllPaths /\ <<>> \in AllPaths /\ Attributed \subseteq AllPaths
BY DEF AllPaths, Attributed

\* The numbers of a call.
LEMMA StopsIn ==
    ASSUME DiskInv
    PROVE  stops \in Nat /\ euid \in Users
BY BoundsAssumption DEF DiskInv, BoundsAssumption

\* ext2_create_file.
LEMMA CreateFileKept ==
    ASSUME DiskInv, NEW p \in Paths, CreateFile(p)
    PROVE  DiskInv'
<1> DEFINE r == ext2_create_file(Volume, euid, p)
           lost == r.ok /\ IsFile(Front(p))
<1>1. Calls(r, lost)
  BY DEF CreateFile
<1>2. PICK S, A : Ready(Volume, stops, S, A)
  BY <1>1, VolumeReady DEF Calls, Returns, Stops
<1>3. Whole(r.s, stops)
  BY <1>2, StopsIn, CreateFileWhole
<1> HIDE DEF r, lost
<1> QED
  BY <1>1, <1>3, CallsKept

\* ext2_create_dir.
LEMMA CreateDirKept ==
    ASSUME DiskInv, NEW p \in Paths, CreateDir(p)
    PROVE  DiskInv'
<1> DEFINE r == ext2_create_dir(Volume, euid, p)
           lost == r.s.d.used # disk.used /\ (~r.ok \/ IsFile(Front(p)))
<1>1. Calls(r, lost)
  BY DEF CreateDir
<1>2. PICK S, A : Ready(Volume, stops, S, A)
  BY <1>1, VolumeReady DEF Calls, Returns, Stops
<1>3. Whole(r.s, stops)
  BY <1>2, StopsIn, CreateDirWhole
<1> HIDE DEF r, lost
<1> QED
  BY <1>1, <1>3, CallsKept

\* ext2_delete_file, which may be stopped where the directory still has the entry.
LEMMA DeleteFileKept ==
    ASSUME DiskInv, NEW p \in Paths, DeleteFile(p)
    PROVE  DiskInv'
<1> DEFINE r == ext2_delete_file(Volume, euid, p)
           n == ext2_resolve_path(disk, euid, p)
           lost == r.ok /\ (disk.node[n].indirect # 0 \/ \E x \in Links(disk, {n}) : TRUE)
           harm == IF lost THEN {"lost"} ELSE {}
<1>1. Returns(r.s, harm) \/ Stops(r.s, TRUE)
  BY DEF DeleteFile
<1>2. harm \subseteq {"lost"}
  BY Zenon
<1>3. PICK S, A : Ready(Volume, stops, S, A)
  BY <1>1, VolumeReady DEF Returns, Stops
<1>4. Deleted(r.s, stops)
  BY <1>3, StopsIn, DeleteFileIs
<1> HIDE DEF r, n, lost, harm
<1>5. Steady(r.s, stops, DeleteHalts(stops)) /\ Held(r.s.d)
  BY <1>4 DEF Deleted, Between
<1>6. r.s.via \subseteq DeleteHalts(stops)
  BY <1>5 DEF Steady
<1>7. CASE Returns(r.s, harm)
  BY <1>2, <1>5, <1>7, ReturnsKept
<1>8. CASE Stops(r.s, TRUE)
  BY <1>6, <1>8, StopsKept
<1> QED
  BY <1>1, <1>7, <1>8

\* ext2_write_file.
LEMMA WriteFileKept ==
    ASSUME DiskInv, NEW p \in Paths, NEW offset \in 0 .. Direct + 1, NEW size \in Nat, NEW v \in Values,
           WriteFile(p, offset, size, v)
    PROVE  DiskInv'
<1> DEFINE r == ext2_write_file(Volume, euid, p, offset, size, v)
           lost == r.ok /\ ext2_is_dir(disk, 0, p) /\ size > 0
<1>1. Calls(r, lost)
  BY DEF WriteFile
<1>2. PICK S, A : Ready(Volume, stops, S, A)
  BY <1>1, VolumeReady DEF Calls, Returns, Stops
<1>3. Whole(r.s, stops)
  BY <1>2, StopsIn, PathsIn, WriteFileWhole
<1> HIDE DEF r, lost
<1> QED
  BY <1>1, <1>3, CallsKept

\* ext2_chmod.
LEMMA SetModeKept ==
    ASSUME DiskInv, NEW p \in AllPaths, SetMode(p, OwnerMode)
    PROVE  DiskInv'
<1> DEFINE r == ext2_chmod(Volume, euid, p, OwnerMode)
<1>1. Calls(r, FALSE)
  BY DEF SetMode
<1>2. PICK S, A : Ready(Volume, stops, S, A)
  BY <1>1, VolumeReady DEF Calls, Returns, Stops
<1>3. OwnerMode \in SUBSET Rights
  BY DEF OwnerMode, Rights
<1>4. Whole(r.s, stops)
  BY <1>2, <1>3, StopsIn, ChmodWhole
<1> HIDE DEF r
<1> QED
  BY <1>1, <1>4, CallsKept

\* ext2_chown.
LEMMA SetOwnerKept ==
    ASSUME DiskInv, NEW p \in AllPaths, NEW u \in Users, SetOwner(p, u)
    PROVE  DiskInv'
<1> DEFINE r == ext2_chown(Volume, euid, p, u, u)
<1>1. Calls(r, FALSE)
  BY DEF SetOwner
<1>2. PICK S, A : Ready(Volume, stops, S, A)
  BY <1>1, VolumeReady DEF Calls, Returns, Stops
<1>3. Whole(r.s, stops)
  BY <1>2, StopsIn, ChownWhole
<1> HIDE DEF r
<1> QED
  BY <1>1, <1>3, CallsKept

\* Nothing is called, or seteuid.
LEMMA SwitchKept ==
    ASSUME DiskInv, Switch \/ UNCHANGED vars
    PROVE  DiskInv'
<1>1. disk' = disk /\ sb' = sb /\ bgd' = bgd /\ stops' = stops /\ damage' = damage /\ euid' \in Users
  BY DEF DiskInv, Switch, vars
<1> QED
  BY <1>1 DEF DiskInv, Followed

\* A call of any process.
LEMMA NextKept ==
    ASSUME DiskInv, Next
    PROVE  DiskInv'
<1>1. ASSUME NEW p \in Paths, CreateFile(p) PROVE DiskInv'
  BY <1>1, CreateFileKept
<1>2. ASSUME NEW p \in Paths, CreateDir(p) PROVE DiskInv'
  BY <1>2, CreateDirKept
<1>3. ASSUME NEW p \in Paths, DeleteFile(p) PROVE DiskInv'
  BY <1>3, DeleteFileKept
<1>4. ASSUME NEW p \in Paths, NEW offset \in Offsets, NEW size \in Sizes, NEW v \in Values,
             WriteFile(p, offset, size, v)
      PROVE  DiskInv'
  <2>1. offset \in 0 .. Direct + 1 /\ size \in Nat
    BY BoundsAssumption DEF BoundsAssumption
  <2> QED
    BY <1>4, <2>1, WriteFileKept
<1>5. ASSUME NEW p \in Attributed, SetMode(p, OwnerMode) PROVE DiskInv'
  BY <1>5, PathsIn, SetModeKept
<1>6. ASSUME NEW p \in Attributed, NEW u \in Users, SetOwner(p, u) PROVE DiskInv'
  BY <1>6, PathsIn, SetOwnerKept
<1>7. CASE Switch
  BY <1>7, SwitchKept
<1> QED
  BY <1>1, <1>2, <1>3, <1>4, <1>5, <1>6, <1>7 DEF Next

\* The calls of update_password, and those of the others.
LEMMA AccountsKept ==
    ASSUME IInv, AccountsNext
    PROVE  IInv'
<1> USE DEF IInv
<1>1. ASSUME NEW p \in Paths, ReadAccounts(p) PROVE IInv'
  <2>1. UNCHANGED vars /\ update' = [at |-> "read", path |-> p]
    BY <1>1 DEF ReadAccounts
  <2>2. DiskInv'
    BY <2>1, SwitchKept
  <2>3. UpdateInv'
    BY <2>1, PathsIn DEF UpdateInv
  <2> QED
    BY <2>2, <2>3
<1>2. CASE Unlink
  <2>1. update.path \in Paths /\ DeleteFile(update.path)
    BY <1>2 DEF Unlink, UpdateInv
  <2>2. DiskInv'
    BY <2>1, DeleteFileKept
  <2>3. update' = Resting \/ update' = [update EXCEPT !.at = "unlinked"]
    BY <1>2 DEF Unlink
  <2>4. UpdateInv'
    BY <2>1, <2>3, PathsIn DEF UpdateInv, Resting
  <2> QED
    BY <2>2, <2>4
<1>3. CASE Create
  <2>1. update.path \in Paths /\ (CreateFile(update.path) \/ UNCHANGED vars)
    BY <1>3 DEF Create, UpdateInv
  <2>2. DiskInv'
    BY <2>1, CreateFileKept, SwitchKept
  <2>3. update' = Resting \/ update' = [update EXCEPT !.at = "created"]
    BY <1>3 DEF Create
  <2>4. UpdateInv'
    BY <2>1, <2>3, PathsIn DEF UpdateInv, Resting
  <2> QED
    BY <2>2, <2>4
<1>4. CASE Rewrite
  <2>1. update.path \in Paths /\ ((\E v \in Values : WriteFile(update.path, 0, 1, v)) \/ UNCHANGED vars)
    BY <1>4 DEF Rewrite, UpdateInv
  <2>2. 0 \in 0 .. Direct + 1 /\ 1 \in Nat
    BY SizesAssumption DEF SizesAssumption
  <2>3. DiskInv'
    BY <2>1, <2>2, WriteFileKept, SwitchKept
  <2>4. update' = Resting \/ update' = [update EXCEPT !.at = "done"]
    BY <1>4 DEF Rewrite
  <2>5. UpdateInv'
    BY <2>1, <2>4, PathsIn DEF UpdateInv, Resting
  <2> QED
    BY <2>3, <2>5
<1>5. CASE Others
  <2>1. Next /\ update' = Resting
    BY <1>5 DEF Others
  <2>2. DiskInv'
    BY <2>1, NextKept
  <2>3. UpdateInv'
    BY <2>1, PathsIn DEF UpdateInv, Resting
  <2> QED
    BY <2>2, <2>3
<1> QED
  BY <1>1, <1>2, <1>3, <1>4, <1>5 DEF AccountsNext

\* A step of the file system.
LEMMA FilesKept ==
    ASSUME IInv, [FilesNext]_<<vars, update, pathVars>>
    PROVE  IInv'
<1>1. CASE AccountsNext
  BY <1>1, AccountsKept
<1>2. CASE UNCHANGED <<vars, update>>
  <2>1. UNCHANGED vars /\ update' = update
    BY <1>2
  <2>2. DiskInv'
    BY <2>1, SwitchKept DEF IInv
  <2>3. UpdateInv'
    BY <2>1 DEF IInv, UpdateInv
  <2> QED
    BY <2>2, <2>3 DEF IInv
<1> QED
  BY <1>1, <1>2 DEF FilesNext

-----------------------------------------------------------------------------
(* The disk the build makes *)

Images == {<<>>} \cup {<<name>> : name \in Names}
LongNode == [Node("file", 0) EXCEPT !.size = Direct + 1, !.indirect = 2]
RootEntries(names) ==
    <<[inode |-> ROOT, name |-> "."], [inode |-> ROOT, name |-> ".."]>>
        \o [i \in DOMAIN names |-> [inode |-> ROOT + 1, name |-> names[i]]]

\* What is in the image, if anything.
LEMMA LongNodeIs ==
    /\ LongNode \in Nodes /\ LongNode.indirect = 2 /\ LongNode.kind = "file"
    /\ \A i \in 0 .. Direct - 1 : LongNode.i_block[i] = 0
<1> DEFINE node == Node("file", 0)
<1>1. 0 \in Users /\ 2 \in Blocks /\ Direct + 1 \in 0 .. Direct + 1
  BY UsersAssumption, ImageAssumption, IndexIs DEF UsersAssumption, ImageAssumption
<1>2. node \in Nodes /\ node.indirect = 0 /\ \A i \in 0 .. Direct - 1 : node.i_block[i] = 0
  BY <1>1, NodeIs
<1>3. node.kind = "file"
  BY DEF Node
<1>4. LongNode = [node EXCEPT !.size = Direct + 1, !.indirect = 2]
  BY DEF LongNode
<1> HIDE DEF node
<1> QED
  BY <1>1, <1>2, <1>3, <1>4 DEF Nodes

\* The entries of the root directory.
LEMMA RootEntriesAre ==
    ASSUME NEW names \in Images
    PROVE  /\ DirBlock(RootEntries(names)) \in Contents /\ DirBlock(RootEntries(names)).kind = "dir"
           /\ \A l \in 0 .. Slots - 1 : DirBlock(RootEntries(names)).entry[l].inode # 0 =>
                 \/ /\ DirBlock(RootEntries(names)).entry[l].name \in {".", ".."}
                    /\ DirBlock(RootEntries(names)).entry[l].inode = ROOT
                 \/ /\ l = 2 /\ names # <<>> /\ DirBlock(RootEntries(names)).entry[l].name \in Names
                    /\ DirBlock(RootEntries(names)).entry[l].inode = ROOT + 1
<1> DEFINE one == [inode |-> ROOT, name |-> "."]
           two == [inode |-> ROOT, name |-> ".."]
           link(i) == [inode |-> ROOT + 1, name |-> names[i]]
           rest == [i \in DOMAIN names |-> link(i)]
           seq == RootEntries(names)
           entry == [j \in 0 .. Slots - 1 |-> IF j < Len(seq) THEN seq[j + 1] ELSE NoEntry]
<1>1. names \in Seq(Names) /\ Len(names) \in {0, 1} /\ (Len(names) = 0 => names = <<>>)
  <2>1. CASE names = <<>>
    BY <2>1
  <2>2. ASSUME NEW name \in Names, names = <<name>> PROVE names \in Seq(Names) /\ Len(names) = 1
    BY <2>2
  <2> QED
    BY <2>1, <2>2 DEF Images
<1>2. \A i \in DOMAIN names : i = 1 /\ names[i] \in Names /\ Len(names) = 1 /\ names # <<>>
  BY <1>1
<1>3. ROOT \in Inodes /\ ROOT + 1 \in Inodes
  BY UnitsAssumption, ImageAssumption DEF UnitsAssumption, ImageAssumption
<1>4. one \in DirEntries /\ two \in DirEntries /\ NoEntry \in DirEntries /\ NoEntry.inode = 0
      /\ \A i \in DOMAIN names : link(i) \in DirEntries
  BY <1>2, <1>3 DEF NoEntry, DirEntries
<1>5. rest \in Seq(DirEntries) /\ Len(rest) = Len(names) /\ \A i \in DOMAIN names : rest[i] = link(i)
  BY <1>1, <1>4
<1>6. <<one, two>> \in Seq(DirEntries) /\ Len(<<one, two>>) = 2 /\ <<one, two>>[1] = one /\ <<one, two>>[2] = two
  BY <1>4
<1>7. seq = <<one, two>> \o rest
  BY Zenon DEF RootEntries
<1> DEFINE dots == <<one, two>>
<1> HIDE DEF rest, dots, entry, seq
<1>8. dots \in Seq(DirEntries) /\ Len(dots) = 2 /\ dots[1] = one /\ dots[2] = two /\ seq = dots \o rest
  BY <1>6, <1>7 DEF dots
<1>9. /\ seq \in Seq(DirEntries) /\ Len(seq) = 2 + Len(names)
      /\ \A i \in 1 .. Len(seq) : seq[i] = IF i <= 2 THEN dots[i] ELSE rest[i - 2]
  <2>1. dots \o rest \in Seq(DirEntries) /\ Len(dots \o rest) = Len(dots) + Len(rest)
        /\ \A i \in 1 .. Len(dots) + Len(rest) :
              (dots \o rest)[i] = IF i <= Len(dots) THEN dots[i] ELSE rest[i - Len(dots)]
    <3>1. dots \in Seq(DirEntries) /\ rest \in Seq(DirEntries)
      BY <1>5, <1>8
    <3> QED
      BY <3>1, ConcatProperties, Zenon
  <2>2. Len(seq) = 2 + Len(names) /\ Len(rest) = Len(names) /\ Len(dots) = 2
    BY <1>5, <1>8, <2>1
  <2> QED
    BY <1>8, <2>1, <2>2
<1>10. ASSUME NEW l \in 0 .. Slots - 1
       PROVE  \/ entry[l] = one \/ entry[l] = two \/ entry[l] = NoEntry
              \/ l = 2 /\ 1 \in DOMAIN names /\ entry[l] = link(1)
  <2>1. l \in Int /\ Len(seq) \in Int /\ entry[l] = IF l < Len(seq) THEN seq[l + 1] ELSE NoEntry
    BY <1>1, <1>9 DEF entry
  <2> HIDE DEF one, two, link
  <2>2. CASE l >= Len(seq)
    BY <2>1, <2>2
  <2>3. CASE l < Len(seq) /\ l < 2
    <3>1. l \in {0, 1} /\ l + 1 \in {1, 2} /\ l + 1 \in 1 .. Len(seq) /\ entry[l] = seq[l + 1]
      BY <2>1, <2>3
    <3>2. seq[l + 1] = dots[l + 1]
      BY <1>9, <3>1
    <3> QED
      BY <1>8, <3>1, <3>2
  <2>4. CASE l < Len(seq) /\ l >= 2
    <3> DEFINE c == Len(names)
               m == Len(seq)
    <3>1. m = 2 + c /\ c \in {0, 1} /\ l \in Int /\ l < m /\ l >= 2
      BY <1>1, <1>9, <2>1, <2>4
    <3> HIDE DEF c, m
    <3>2. m = 3 /\ c = 1
      BY <3>1
    <3>3. Len(seq) = 3 /\ Len(names) = 1
      BY <3>2 DEF c, m
    <3>4. l = 2 /\ 3 \in 1 .. Len(seq) /\ entry[l] = seq[3]
      BY <2>1, <2>4, <3>3
    <3>5. seq[3] = rest[1] /\ 1 \in DOMAIN names
      BY <1>1, <1>9, <3>3, <3>4
    <3> QED
      BY <1>5, <3>4, <3>5
  <2> QED
    BY <2>1, <2>2, <2>3, <2>4
<1>11. DirBlock(seq) = [kind |-> "dir", entry |-> entry]
  BY DEF DirBlock, entry
<1>12. \A l \in 0 .. Slots - 1 : entry[l] \in DirEntries
  BY <1>4, <1>10
<1>13. entry \in [0 .. Slots - 1 -> DirEntries]
  BY <1>12 DEF entry
<1>14. DirBlock(seq) \in DirContents
  BY <1>11, <1>13 DEF DirContents
<1>15. DirBlock(seq) \in Contents /\ DirBlock(seq).kind = "dir" /\ DirBlock(seq).entry = entry
  BY <1>11, <1>14, DirContent
<1>16. ASSUME NEW l \in 0 .. Slots - 1, entry[l].inode # 0
       PROVE  \/ entry[l].name \in {".", ".."} /\ entry[l].inode = ROOT
              \/ l = 2 /\ names # <<>> /\ entry[l].name \in Names /\ entry[l].inode = ROOT + 1
  <2>1. CASE entry[l] = one \/ entry[l] = two
    BY <2>1
  <2>2. CASE l = 2 /\ 1 \in DOMAIN names /\ entry[l] = link(1)
    BY <1>2, <2>2
  <2> QED
    BY <1>4, <1>10, <1>16, <2>1, <2>2
<1> QED
  BY <1>15, <1>16 DEF seq

\* mkfs.ext2 and what the makefile copies.
LEMMA MkfsIs ==
    ASSUME NEW names \in Images, NEW d, d = Mkfs(names)
    PROVE  /\ d \in Disks
           /\ d.used["inode"] = ROOT .. ROOT + Len(names) /\ d.used["block"] = 1 .. 1 + 2 * Len(names)
           /\ \A k \in Kinds : d.sb[k] = Off(d, k) /\ d.bgd[k] = Off(d, k)
           /\ d.node[ROOT] = DirNode(0, 1) /\ d.data[1] = DirBlock(RootEntries(names))
           /\ names # <<>> =>
                 Len(names) = 1 /\ d.node[ROOT + 1] = LongNode /\ d.data[2] \in [kind : {"indirect"}, to : {3}]
<1> DEFINE used == [k \in Kinds |-> IF k = "inode" THEN ROOT .. ROOT + Len(names) ELSE 1 .. 1 + 2 * Len(names)]
           free == [k \in Kinds |-> Cardinality(Units(k) \ used[k])]
           node == [n \in Inodes |->
                       IF n = ROOT THEN [Node("dir", 0) EXCEPT !.size = 1, !.i_block[0] = 1]
                       ELSE IF n \in used["inode"] THEN LongNode ELSE Node("none", 0)]
           data == [b \in Blocks |->
                       IF b = 1 THEN DirBlock(RootEntries(names))
                       ELSE IF b \notin used["block"] THEN Zeroed
                       ELSE IF b = 2 THEN [kind |-> "indirect", to |-> 3]
                       ELSE DataBlock(CHOOSE v \in Values : TRUE)]
<1>1. d = [used |-> used, sb |-> free, bgd |-> free, node |-> node, data |-> data]
  BY Zenon DEF Mkfs, LongNode, RootEntries
<1>2. /\ ROOT \in Inodes /\ ROOT + 1 \in Inodes /\ ROOT \in Nat /\ 1 .. 3 \subseteq Blocks
      /\ 1 \in Blocks /\ 2 \in Blocks /\ 3 \in Blocks /\ 0 \in Users
  BY UnitsAssumption, ImageAssumption, UsersAssumption DEF UnitsAssumption, ImageAssumption, UsersAssumption
<1>3. Len(names) \in {0, 1} /\ (Len(names) = 0 => names = <<>>)
  <2>1. CASE names = <<>>
    BY <2>1
  <2>2. ASSUME NEW name \in Names, names = <<name>> PROVE Len(names) = 1
    BY <2>2
  <2> QED
    BY <2>1, <2>2 DEF Images
<1> DEFINE c == Len(names)
<1>4. c \in {0, 1}
  BY <1>3
<1>5. used["inode"] = ROOT .. ROOT + c /\ used["block"] = 1 .. 1 + 2 * c /\ DOMAIN used = Kinds
  BY DEF Kinds
<1> HIDE DEF c, used
<1>6. used["inode"] \subseteq Inodes /\ used["block"] \subseteq Blocks
  <2>1. CASE c = 0
    BY <1>2, <1>5, <2>1
  <2>2. CASE c = 1
    BY <1>2, <1>5, <2>2
  <2> QED
    BY <1>4, <2>1, <2>2
<1>7. used \in Bitmaps
  <2>1. \A k \in Kinds : used[k] \subseteq Units(k)
    BY <1>6 DEF Kinds, Units
  <2>2. \A k \in Kinds : used[k] \in SUBSET (Blocks \cup Inodes)
    BY <2>1 DEF Units
  <2>3. used = [k \in Kinds |-> used[k]]
    BY Zenon DEF used
  <2> QED
    BY <2>1, <2>2, <2>3 DEF Bitmaps
<1>8. free \in Counts
  <2>1. \A k \in Kinds : IsFiniteSet(Units(k))
    BY UnitsAssumption DEF UnitsAssumption, Units, Kinds
  <2>2. \A k \in Kinds : Cardinality(Units(k) \ used[k]) \in Nat
    BY <2>1, FS_Difference, FS_CardinalityType
  <2> QED
    BY <2>2 DEF Counts
<1>9. [Node("dir", 0) EXCEPT !.size = 1, !.i_block[0] = 1] = DirNode(0, 1)
  BY DEF DirNode, Node
<1>10. DirNode(0, 1) \in Nodes /\ LongNode \in Nodes /\ Node("none", 0) \in Nodes
  BY <1>2, DirNodeIs, LongNodeIs, NodeIs
<1>11. node \in [Inodes -> Nodes] /\ node[ROOT] = DirNode(0, 1)
  BY <1>2, <1>9, <1>10
<1>12. c = 1 => node[ROOT + 1] = LongNode
  BY <1>2, <1>5
<1>13. Zeroed \in Contents /\ [kind |-> "indirect", to |-> 3] \in Contents
       /\ DataBlock(CHOOSE v \in Values : TRUE) \in Contents /\ DirBlock(RootEntries(names)) \in Contents
  <2>1. (CHOOSE v \in Values : TRUE) \in Values
    BY ImageAssumption DEF ImageAssumption
  <2>2. [kind |-> "indirect", to |-> 3] \in [kind : {"indirect"}, to : Blocks]
    BY <1>2
  <2> QED
    BY <2>1, <2>2, RootEntriesAre DEF Contents
<1>14. data \in [Blocks -> Contents] /\ data[1] = DirBlock(RootEntries(names))
  BY <1>2, <1>13
<1>15. c = 1 => data[2] = [kind |-> "indirect", to |-> 3]
  BY <1>2, <1>5
<1> HIDE DEF node, data, free
<1>16. d \in Disks /\ d.used = used /\ d.sb = free /\ d.bgd = free /\ d.node = node /\ d.data = data
  BY <1>1, <1>7, <1>8, <1>11, <1>14 DEF Disks
<1>17. \A k \in Kinds : d.sb[k] = Off(d, k) /\ d.bgd[k] = Off(d, k)
  BY <1>16 DEF Off, free
<1>18. names # <<>> => c = 1
  BY <1>3 DEF c
<1>19. names # <<>> => d.node[ROOT + 1] = LongNode /\ d.data[2] \in [kind : {"indirect"}, to : {3}]
  BY <1>12, <1>15, <1>16, <1>18
<1> QED
  BY <1>5, <1>11, <1>14, <1>16, <1>17, <1>18, <1>19 DEF c

\* The root directory and what it names.
LEMMA MkfsSound ==
    ASSUME NEW names \in Images, NEW d, d = Mkfs(names)
    PROVE  Held(d)
<1> DEFINE one == ROOT + 1
           S == IF names = <<>> THEN {ROOT} ELSE {ROOT, one}
           A == [x \in {ROOT, one} |-> IF x = ROOT THEN {ROOT} ELSE {ROOT, one}]
           root == DirBlock(RootEntries(names))
<1>1. /\ d \in Disks
      /\ d.used["inode"] = ROOT .. ROOT + Len(names) /\ d.used["block"] = 1 .. 1 + 2 * Len(names)
      /\ d.node[ROOT] = DirNode(0, 1) /\ d.data[1] = root
      /\ names # <<>> =>
            Len(names) = 1 /\ d.node[one] = LongNode /\ d.data[2] \in [kind : {"indirect"}, to : {3}]
  BY MkfsIs
<1>2. ROOT \in Inodes /\ one \in Inodes /\ ROOT \in Nat /\ one = ROOT + 1 /\ 1 \in Blocks /\ 2 \in Blocks /\ 3 \in Blocks
      /\ 0 \in Users
  BY UnitsAssumption, ImageAssumption, UsersAssumption DEF UnitsAssumption, ImageAssumption, UsersAssumption
<1>3. Len(names) \in Nat /\ (names # <<>> => Len(names) = 1)
  BY <1>1 DEF Images
<1>4. /\ root.kind = "dir"
      /\ \A l \in 0 .. Slots - 1 : root.entry[l].inode # 0 =>
            \/ root.entry[l].name \in {".", ".."} /\ root.entry[l].inode = ROOT
            \/ l = 2 /\ names # <<>> /\ root.entry[l].name \in Names /\ root.entry[l].inode = one
  BY RootEntriesAre
<1>5. /\ d.node[ROOT].indirect = 0 /\ d.node[ROOT].i_block[0] = 1
      /\ \A i \in 1 .. Direct - 1 : d.node[ROOT].i_block[i] = 0
  BY <1>1, <1>2, DirNodeIs
<1>6. names # <<>> => /\ d.node[one].indirect = 2 /\ d.node[one].kind = "file"
                      /\ \A i \in 0 .. Direct - 1 : d.node[one].i_block[i] = 0
                      /\ d.data[2].to = 3 /\ d.data[2] \in [kind : {"indirect"}, to : Blocks]
  BY <1>1, <1>2, LongNodeIs
<1> HIDE DEF root, one
<1>7. S \subseteq {ROOT, one} /\ ROOT \in S /\ (names # <<>> => S = {ROOT, one}) /\ (one \in S => names # <<>>)
      /\ A[ROOT] = {ROOT} /\ A[one] = {ROOT, one} /\ ROOT # one
  BY <1>2
<1> HIDE DEF S, A
<1>8. Ancestors(S, A)
  <2>1. S \subseteq Inodes
    BY <1>2, <1>7
  <2>2. ASSUME NEW x \in S PROVE x \in A[x] /\ A[x] \subseteq S /\ \A y \in A[x] : A[y] \subseteq A[x]
    <3>1. CASE x = ROOT
      BY <1>7, <3>1
    <3>2. CASE x = one
      BY <1>7, <2>2, <3>2
    <3> QED
      BY <1>7, <3>1, <3>2
  <2> QED
    BY <1>7, <2>1, <2>2 DEF Ancestors
\* The pointers: the directory has block 1, the file blocks 2 and 3.
<1>9. /\ Pointer(d, ROOT, 0) = 1 /\ \A i \in 1 .. Direct + 1 : Pointer(d, ROOT, i) = 0
      /\ names # <<>> => /\ \A i \in 0 .. Direct - 1 : Pointer(d, one, i) = 0
                         /\ Pointer(d, one, Direct) = 2 /\ Pointer(d, one, Direct + 1) = 3
  <2>1. Direct \in Nat /\ Direct >= 1
    BY SizesAssumption DEF SizesAssumption
  <2>2. \A i \in 1 .. Direct + 1 : i \in 1 .. Direct - 1 \/ i = Direct \/ i = Direct + 1
    BY <2>1
  <2>3. /\ \A i \in 0 .. Direct - 1 : Pointer(d, ROOT, i) = d.node[ROOT].i_block[i]
        /\ Pointer(d, ROOT, Direct) = 0 /\ Pointer(d, ROOT, Direct + 1) = 0
    BY <1>1, <1>2, <1>5, PointerIs
  <2>4. names # <<>> => /\ \A i \in 0 .. Direct - 1 : Pointer(d, one, i) = d.node[one].i_block[i]
                        /\ Pointer(d, one, Direct) = 2 /\ Pointer(d, one, Direct + 1) = 3
    BY <1>1, <1>2, <1>6, PointerIs
  <2>5. 0 \in 0 .. Direct - 1 /\ 1 .. Direct - 1 \subseteq 0 .. Direct - 1
    BY <2>1
  <2> QED
    BY <1>5, <1>6, <2>2, <2>3, <2>4, <2>5
<1>10. ASSUME NEW n \in S, NEW i \in 0 .. Direct + 1, Pointer(d, n, i) # 0
       PROVE  \/ n = ROOT /\ i = 0 /\ Pointer(d, n, i) = 1
              \/ names # <<>> /\ n = one /\ i = Direct /\ Pointer(d, n, i) = 2
              \/ names # <<>> /\ n = one /\ i = Direct + 1 /\ Pointer(d, n, i) = 3
  <2>1. Direct \in Nat /\ i \in Nat /\ i <= Direct + 1
    BY SizesAssumption DEF SizesAssumption
  <2>2. i = 0 \/ i \in 1 .. Direct + 1
    BY <2>1
  <2>3. i \in 0 .. Direct - 1 \/ i = Direct \/ i = Direct + 1
    BY <2>1
  <2> QED
    BY <1>7, <1>9, <1>10, <2>2, <2>3
<1>11. MarkedIn(d, S)
  <2>1. S \subseteq d.used["inode"]
    <3>1. CASE names = <<>>
      BY <1>1, <1>2, <1>3, <1>7, <3>1
    <3>2. CASE names # <<>>
      BY <1>1, <1>2, <1>7, <3>2
    <3> QED
      BY <3>1, <3>2
  <2>2. 1 \in d.used["block"] /\ (names # <<>> => 2 \in d.used["block"] /\ 3 \in d.used["block"])
    BY <1>1, <1>3
  <2>3. \A n \in S : \A i \in 0 .. Direct + 1 : Pointer(d, n, i) \in d.used["block"] \cup {0}
    BY <1>10, <2>2
  <2> QED
    BY <2>1, <2>3 DEF MarkedIn
<1>12. ApartIn(d, S)
  <2> SUFFICES ASSUME NEW n \in S, NEW m \in S, NEW i \in 0 .. Direct + 1, NEW j \in 0 .. Direct + 1,
                      Pointer(d, n, i) # 0, Pointer(d, n, i) = Pointer(d, m, j)
               PROVE  n = m /\ i = j
    BY DEF ApartIn
  <2>1. Pointer(d, m, j) # 0
    OBVIOUS
  <2> QED
    BY <1>10, <2>1
<1>13. IndirectIn(d, S)
  BY <1>5, <1>6, <1>7 DEF IndirectIn
<1>14. DirsIn(d, S) \subseteq {ROOT}
  BY <1>6, <1>7 DEF DirsIn
<1>15. ASSUME NEW i \in 0 .. Direct - 1, NEW j \in 0 .. Slots - 1, Place(d, ROOT, i, j).inode # 0
       PROVE  i = 0 /\ Place(d, ROOT, i, j) = root.entry[j]
  <2>1. i = 0 \/ i \in 1 .. Direct - 1
    OBVIOUS
  <2>2. CASE i # 0
    <3>1. d.node[ROOT].i_block[i] = 0
      BY <1>5, <2>1, <2>2
    <3>2. Place(d, ROOT, i, j) = NoEntry
      BY <3>1 DEF Place, EntryIn, Formatted
    <3> QED
      BY <1>15, <3>2 DEF NoEntry
  <2>3. CASE i = 0
    <3>1. d.node[ROOT].i_block[i] = 1
      BY <1>5, <2>3
    <3>2. Place(d, ROOT, i, j) = root.entry[j]
      BY <1>1, <1>4, <3>1 DEF Place, EntryIn, Formatted
    <3> QED
      BY <2>3, <3>2
  <2> QED
    BY <2>2, <2>3
<1>16. EntriesIn(d, S, A)
  <2> SUFFICES ASSUME NEW i \in 0 .. Direct - 1, NEW j \in 0 .. Slots - 1, Place(d, ROOT, i, j).inode # 0
               PROVE  Leads(Place(d, ROOT, i, j), ROOT, S, A)
    BY <1>14 DEF EntriesIn
  <2> DEFINE e == Place(d, ROOT, i, j)
  <2>1. e = root.entry[j] /\ e.inode # 0
    BY <1>15
  <2> HIDE DEF e
  <2>2. \/ e.name \in {".", ".."} /\ e.inode = ROOT
        \/ names # <<>> /\ e.name \in Names /\ e.inode = one
    BY <1>4, <2>1
  <2>3. Leads(e, ROOT, S, A)
    BY <1>7, <2>2 DEF Leads
  <2> QED
    BY <2>3 DEF e
<1>17. OneLink(d, S)
  <2> SUFFICES ASSUME NEW i \in 0 .. Direct - 1, NEW k \in 0 .. Direct - 1, NEW j \in 0 .. Slots - 1,
                      NEW l \in 0 .. Slots - 1, Links2(d, ROOT, i, j, ROOT, k, l)
               PROVE  i = k /\ j = l
    BY <1>14 DEF OneLink
  <2>1. /\ Place(d, ROOT, i, j).inode # 0 /\ Place(d, ROOT, k, l).inode # 0
        /\ Place(d, ROOT, i, j).name \in Names /\ Place(d, ROOT, k, l).name \in Names
    BY DEF Links2
  <2>2. i = 0 /\ k = 0 /\ Place(d, ROOT, i, j) = root.entry[j] /\ Place(d, ROOT, k, l) = root.entry[l]
    BY <1>15, <2>1
  <2>3. \A name \in Names : name # "." /\ name # ".."
    BY NamesAssumption DEF NamesAssumption
  <2>4. j = 2 /\ l = 2
    BY <1>4, <2>1, <2>2, <2>3
  <2> QED
    BY <2>2, <2>4
<1> QED
  BY <1>8, <1>11, <1>12, <1>13, <1>16, <1>17 DEF Sound, Held

-----------------------------------------------------------------------------
(* The theorems *)

\* The boot finds the disk that the build made.
LEMMA FilesInitHolds ==
    ASSUME FilesInit
    PROVE  IInv
<1>1. /\ disk \in {Mkfs(<<>>)} \cup {Mkfs(<<name>>) : name \in Names}
      /\ sb = disk.sb /\ bgd = disk.bgd /\ euid = 0 /\ stops = 0 /\ damage = {} /\ update = Resting
  BY DEF FilesInit, Init
<1>2. PICK names \in Images : disk = Mkfs(names)
  BY <1>1 DEF Images
<1> DEFINE d == Mkfs(names)
<1>3. disk = d
  BY <1>2
<1>4. d \in Disks /\ \A k \in Kinds : d.sb[k] = Off(d, k) /\ d.bgd[k] = Off(d, k)
  BY MkfsIs
<1>5. Held(d)
  BY MkfsSound
<1> HIDE DEF d
<1>6. Near(d, 0)
  <2>1. \A k \in Kinds : Off(d, k) \in Nat
    BY <1>4, OffIs
  <2> QED
    BY <1>4, <2>1 DEF Near
<1>7. 0 \in 0 .. MaxStops /\ 0 \in Users
  BY BoundsAssumption, UsersAssumption DEF BoundsAssumption, UsersAssumption
<1>8. DiskInv
  BY <1>1, <1>3, <1>4, <1>5, <1>6, <1>7 DEF DiskInv
<1>9. UpdateInv
  BY <1>1, PathsIn DEF UpdateInv, Resting
<1> QED
  BY <1>8, <1>9 DEF IInv

\* Every call of every process, complete, failed or stopped, keeps what the
\* driver depends on: as long as no delete was stopped half way, the disk has
\* a set of inodes with the root in it and all that its directories lead to,
\* marked in the bitmaps with all their blocks, each block with one pointer
\* and each inode with one entry in a directory that is not below it.
THEOREM FilesIInv == FilesSpec => []IInv
<1>1. FilesInit => IInv
  BY FilesInitHolds
<1>2. IInv /\ [FilesNext]_<<vars, update, pathVars>> => IInv'
  BY FilesKept
<1> QED
  BY <1>1, <1>2, PTL DEF FilesSpec

\* Everything has its type, and the superblock and the group descriptor are on
\* the disk as ext2_write_superblock and ext2_write_bgd were given them.
THEOREM FilesTypeOK == FilesSpec => []AccountsTypeOK
<1>1. ASSUME IInv PROVE AccountsTypeOK
  <2>1. /\ disk \in Disks /\ disk.sb = sb /\ disk.bgd = bgd
        /\ euid \in Users /\ stops \in 0 .. MaxStops /\ damage \subseteq {"stop", "lost", "dangling"}
    BY <1>1 DEF IInv, DiskInv
  <2>2. \A k \in Kinds : disk.used[k] \subseteq Units(k)
    BY <2>1 DEF Disks, Bitmaps
  <2>3. sb \in [Kinds -> Nat] /\ bgd \in [Kinds -> Nat]
    BY <2>1 DEF Disks, Counts
  <2>4. \A n \in Inodes : disk.node[n].i_block \in [0 .. Direct - 1 -> Blocks \cup {0}]
                          /\ disk.node[n].size \in 0 .. Direct + 1
    BY <2>1 DEF Disks, Nodes
  <2>5. \A b \in Blocks : disk.data[b] \in Contents
    BY <2>1 DEF Disks
  <2>6. update \in [at : {"no", "read", "unlinked", "created", "done"}, path : AllPaths]
    BY <1>1 DEF IInv, UpdateInv
  <2> QED
    BY <2>1, <2>2, <2>3, <2>4, <2>5, <2>6 DEF AccountsTypeOK, TypeOK
<1> QED
  BY <1>1, FilesIInv, PTL

\* Whatever ext2_create_file, ext2_create_dir, ext2_write_file and the others
\* fail at, and wherever one of them is stopped, what the root leads to is
\* marked, no block has two places and no inode has two entries: an allocation
\* never returns what something leads to.
THEOREM FilesShareNothing == FilesSpec => []NothingShared
<1>1. ASSUME IInv PROVE NothingShared
  <2> SUFFICES ASSUME "dangling" \notin damage
               PROVE  ~Dangling(disk) /\ Shares(disk, Reached(disk))
    BY Zenon DEF NothingShared, Shares
  <2>1. disk \in Disks /\ Held(disk)
    BY <1>1 DEF IInv, DiskInv, Followed
  <2>2. PICK S, A : Sound(disk, S, A)
    BY <2>1 DEF Held
  <2>3. Reached(disk) \subseteq S
    BY <2>1, <2>2, ReachedIn
  <2>4. Shares(disk, Reached(disk))
    BY <2>1, <2>2, <2>3, SoundShares
  <2>5. ~Dangling(disk)
    BY <2>4 DEF Shares, Dangling
  <2> QED
    BY <2>4, <2>5
<1> QED
  BY <1>1, FilesIInv, PTL

\* The free counts that ext2_allocate_block, ext2_free_block and those of the
\* inodes keep are those of the bitmaps, off by one for each stop at most,
\* through every path by which a call fails half way.
THEOREM FilesCount == FilesSpec => []CountsFollowBitmaps
<1>1. ASSUME IInv PROVE CountsFollowBitmaps
  <2> SUFFICES ASSUME Followed, NEW k \in Kinds
               PROVE  /\ sb[k] - Cardinality(Units(k) \ disk.used[k]) \in -stops .. stops
                      /\ bgd[k] - Cardinality(Units(k) \ disk.used[k]) \in -stops .. stops
    BY Zenon DEF CountsFollowBitmaps
  <2>1. disk.sb = sb /\ disk.bgd = bgd /\ Near(disk, stops)
    BY <1>1 DEF IInv, DiskInv
  <2> QED
    BY <2>1 DEF Near, Off
<1> QED
  BY <1>1, FilesIInv, PTL

-----------------------------------------------------------------------------
(* Path strings and mounts: the working directory is always a normal path, *)
(* the one that fs_resolve_path made of its last argument (PathInv).       *)

\* What is between two slashes, and the components of a normal path.
Words == Seq(Chars \ {"/"}) \ {<<>>}
Proper == Words \ {<<".">>, <<".", ".">>}

\* A string that is being split.
Scanned == [ts : Seq(Words), word : Seq(Chars \ {"/"})]
Unread(ts) == [ts |-> ts, word |-> <<>>]

ScanAll(w, s) == FoldLeft(Scan, w, s)
EnterAll(dir, ts) == FoldLeft(Enter, dir, ts)
JoinAll(ts) == FoldLeft(LAMBDA s, t : s \o <<"/">> \o t, <<>>, ts)

\* The three loops, as instances of the lemmas on folds.
ScanTo(c, w, x) == Scan(w, x)
EnterTo(c, dir, token) == Enter(dir, token)
JoinTo(c, s, t) == s \o <<"/">> \o t
NoFact(c, seq, k, b) == TRUE
Scans == INSTANCE SequenceLemmas WITH Body <- ScanTo, Kept <- NoFact
Enters == INSTANCE SequenceLemmas WITH Body <- EnterTo, Kept <- NoFact
Joins == INSTANCE SequenceLemmas WITH Body <- JoinTo, Kept <- NoFact

\* The loop that splits a string is a fold.
LEMMA ScanFold == ASSUME NEW w, NEW s PROVE ScanAll(w, s) = Scans!Fold(0, w, s)
  BY Zenon DEF ScanAll, ScanTo, Scans!Fold, Scans!MapThenFoldSet, Scans!Largest, FoldLeft, MapThenFoldSet, Max
\* The loop that enters the components is one, ...
LEMMA EnterFold == ASSUME NEW dir, NEW ts PROVE EnterAll(dir, ts) = Enters!Fold(0, dir, ts)
  BY Zenon DEF EnterAll, EnterTo, Enters!Fold, Enters!MapThenFoldSet, Enters!Largest, FoldLeft, MapThenFoldSet, Max
\* ... and so is the loop that joins them.
LEMMA JoinFold == ASSUME NEW ts PROVE JoinAll(ts) = Joins!Fold(0, <<>>, ts)
  BY Zenon DEF JoinAll, JoinTo, Joins!Fold, Joins!MapThenFoldSet, Joins!Largest, FoldLeft, MapThenFoldSet, Max

\* How a string is split, character by character and piece by piece.
LEMMA ScanRules ==
    /\ \A w : ScanAll(w, <<>>) = w
    /\ \A w : \A s \in Seq(Chars) : \A x \in Chars : ScanAll(w, Append(s, x)) = Scan(ScanAll(w, s), x)
    /\ \A w : \A s, t \in Seq(Chars) : ScanAll(w, s \o t) = ScanAll(ScanAll(w, s), t)
<1>1. ASSUME NEW w PROVE ScanAll(w, <<>>) = w
  BY ScanFold, Scans!FoldEmpty
<1>2. ASSUME NEW w, NEW s \in Seq(Chars), NEW x \in Chars
      PROVE  ScanAll(w, Append(s, x)) = Scan(ScanAll(w, s), x)
  <2>1. Scans!Fold(0, w, Append(s, x)) = ScanTo(0, Scans!Fold(0, w, s), x)
    BY Scans!FoldStep
  <2> QED
    BY <2>1, ScanFold DEF ScanTo
<1>3. ASSUME NEW w, NEW s \in Seq(Chars), NEW t \in Seq(Chars)
      PROVE  ScanAll(w, s \o t) = ScanAll(ScanAll(w, s), t)
  <2>1. Scans!Fold(0, w, s \o t) = Scans!Fold(0, Scans!Fold(0, w, s), t)
    BY Scans!FoldConcat
  <2> QED
    BY <2>1, ScanFold
<1> QED
  BY <1>1, <1>2, <1>3

\* How the components are entered.
LEMMA EnterRules ==
    /\ \A dir : EnterAll(dir, <<>>) = dir
    /\ \A dir : \A s \in Seq(Words) : \A x \in Words : EnterAll(dir, Append(s, x)) = Enter(EnterAll(dir, s), x)
    /\ \A dir : \A s, t \in Seq(Words) : EnterAll(dir, s \o t) = EnterAll(EnterAll(dir, s), t)
<1>1. ASSUME NEW w PROVE EnterAll(w, <<>>) = w
  BY EnterFold, Enters!FoldEmpty
<1>2. ASSUME NEW w, NEW s \in Seq(Words), NEW x \in Words
      PROVE  EnterAll(w, Append(s, x)) = Enter(EnterAll(w, s), x)
  <2>1. Enters!Fold(0, w, Append(s, x)) = EnterTo(0, Enters!Fold(0, w, s), x)
    BY Enters!FoldStep
  <2> QED
    BY <2>1, EnterFold DEF EnterTo
<1>3. ASSUME NEW w, NEW s \in Seq(Words), NEW t \in Seq(Words)
      PROVE  EnterAll(w, s \o t) = EnterAll(EnterAll(w, s), t)
  <2>1. Enters!Fold(0, w, s \o t) = Enters!Fold(0, Enters!Fold(0, w, s), t)
    BY Enters!FoldConcat
  <2> QED
    BY <2>1, EnterFold
<1> QED
  BY <1>1, <1>2, <1>3

\* How they are joined.
LEMMA JoinRules ==
    /\ JoinAll(<<>>) = <<>>
    /\ \A s \in Seq(Words) : \A x \in Words : JoinAll(Append(s, x)) = JoinAll(s) \o <<"/">> \o x
<1>1. JoinAll(<<>>) = <<>>
  BY JoinFold, Joins!FoldEmpty
<1>2. ASSUME NEW s \in Seq(Words), NEW x \in Words
      PROVE  JoinAll(Append(s, x)) = JoinAll(s) \o <<"/">> \o x
  <2>1. Joins!Fold(0, <<>>, Append(s, x)) = JoinTo(0, Joins!Fold(0, <<>>, s), x)
    BY Joins!FoldStep
  <2> QED
    BY <2>1, JoinFold DEF JoinTo
<1> QED
  BY <1>1, <1>2

\* Nothing is read yet.
LEMMA UnreadIs == ASSUME NEW T \in Seq(Words) PROVE Unread(T) \in Scanned /\ Ended(Unread(T)) = T
  BY DEF Unread, Scanned, Ended

\* Splitting gives words, ...
LEMMA ScanIs ==
    ASSUME NEW w \in Scanned, NEW s \in Seq(Chars)
    PROVE  ScanAll(w, s) \in Scanned
<1> DEFINE S == {t \in Seq(Chars) : ScanAll(w, t) \in Scanned}
<1>1. <<>> \in S
  BY ScanRules
<1>2. ASSUME NEW t \in Seq(Chars), NEW x \in Chars, t \in S PROVE Append(t, x) \in S
  <2> DEFINE v == ScanAll(w, t)
  <2>1. v \in Scanned
    BY <1>2
  <2>2. ScanAll(w, Append(t, x)) = Scan(v, x)
    BY ScanRules
  <2> HIDE DEF v
  <2>5. Append(t, x) \in Seq(Chars)
    OBVIOUS
  <2>3. CASE x = "/"
    <3>1. v.ts \in Seq(Words) /\ (v.word = <<>> \/ v.word \in Words)
      BY <2>1 DEF Scanned, Words
    <3>2. Ended(v) \in Seq(Words)
      <4> HIDE DEF Words
      <4> QED
        BY <3>1 DEF Ended
    <3>3. Scan(v, x) = Unread(Ended(v))
      BY <2>3 DEF Scan, Unread
    <3> QED
      BY <2>2, <2>5, <3>2, <3>3, UnreadIs
  <2>4. CASE x # "/"
    <3>1. Append(v.word, x) \in Seq(Chars \ {"/"}) /\ v.ts \in Seq(Words)
      BY <2>1, <2>4 DEF Scanned
    <3>2. Scan(v, x) = [ts |-> v.ts, word |-> Append(v.word, x)]
      BY <2>4 DEF Scan
    <3>3. Scan(v, x) \in Scanned
      BY <3>1, <3>2 DEF Scanned
    <3> QED
      BY <2>2, <2>5, <3>3
  <2> QED
    BY <2>2, <2>3, <2>4
<1>3. Seq(Chars) \subseteq S
  <2> HIDE DEF S
  <2> QED
    BY <1>1, <1>2, Scans!SeqInduction
<1> QED
  BY <1>3

\* ... the one being read among them, in the end.
LEMMA EndedIs == ASSUME NEW w \in Scanned PROVE Ended(w) \in Seq(Words)
<1>1. w.ts \in Seq(Words) /\ (w.word = <<>> \/ w.word \in Words)
  BY DEF Scanned, Words
<1> HIDE DEF Words
<1> QED
  BY <1>1 DEF Ended

\* The components of a string are words.
LEMMA TokensAre == ASSUME NEW s \in Seq(Chars) PROVE Tokens(s) \in Seq(Words)
<1>1. <<>> \in Seq(Words)
  OBVIOUS
<1> QED
  BY <1>1, UnreadIs, ScanIs, EndedIs DEF Tokens, ScanAll, Unread

\* What was split before comes before.
Behind(T, w) == [ts |-> T \o w.ts, word |-> w.word]
\* What was split before stays in front when the last word ends.
LEMMA EndedBehind ==
    ASSUME NEW T \in Seq(Words), NEW w \in Scanned
    PROVE  Ended(Behind(T, w)) = T \o Ended(w)
<1>1. w.ts \in Seq(Words) /\ (w.word = <<>> \/ w.word \in Words)
  BY DEF Scanned, Words
<1> HIDE DEF Words
<1>2. w.word \in Words => T \o Append(w.ts, w.word) = Append(T \o w.ts, w.word)
  BY <1>1
<1> QED
  BY <1>1, <1>2 DEF Ended, Behind

\* Splitting goes on from what was split before in the same way.
LEMMA ScanBehind ==
    ASSUME NEW T \in Seq(Words), NEW s \in Seq(Chars)
    PROVE  ScanAll(Unread(T), s) = Behind(T, ScanAll(Unread(<<>>), s))
<1> DEFINE S == {t \in Seq(Chars) : ScanAll(Unread(T), t) = Behind(T, ScanAll(Unread(<<>>), t))}
<1>1. <<>> \in S
  <2>1. T \o <<>> = T /\ <<>> \in Seq(Chars)
    OBVIOUS
  <2>2. ScanAll(Unread(T), <<>>) = Unread(T) /\ ScanAll(Unread(<<>>), <<>>) = Unread(<<>>)
    BY ScanRules
  <2>3. Behind(T, Unread(<<>>)) = Unread(T)
    BY <2>1 DEF Unread, Behind
  <2> QED
    BY <2>1, <2>2, <2>3
<1>2. ASSUME NEW t \in Seq(Chars), NEW x \in Chars, t \in S PROVE Append(t, x) \in S
  <2> DEFINE v == ScanAll(Unread(<<>>), t)
  <2>1. v \in Scanned
    <3>1. <<>> \in Seq(Words)
      OBVIOUS
    <3> QED
      BY <3>1, UnreadIs, ScanIs
  <2>2. ScanAll(Unread(T), Append(t, x)) = Scan(Behind(T, v), x)
    BY <1>2, ScanRules
  <2>3. ScanAll(Unread(<<>>), Append(t, x)) = Scan(v, x)
    BY ScanRules
  <2> HIDE DEF v
  <2>4. Scan(Behind(T, v), x) = Behind(T, Scan(v, x))
    <3>1. T \o Ended(v) = Ended(Behind(T, v))
      BY <2>1, EndedBehind
    <3> QED
      BY <3>1 DEF Scan, Behind
  <2> QED
    BY <2>2, <2>3, <2>4
<1>3. Seq(Chars) \subseteq S
  <2> HIDE DEF S
  <2> QED
    BY <1>1, <1>2, Scans!SeqInduction
<1> QED
  BY <1>3

\* The components of two strings with a slash between them.
LEMMA TokensConcat ==
    ASSUME NEW s \in Seq(Chars), NEW t \in Seq(Chars)
    PROVE  Tokens(s \o <<"/">> \o t) = Tokens(s) \o Tokens(t)
<1> DEFINE w == ScanAll(Unread(<<>>), s)
           v == ScanAll(Unread(<<>>), t)
           u == s \o <<"/">>
<1>1. "/" \in Chars /\ <<>> \in Seq(Words) /\ Unread(<<>>) \in Scanned
  <2>1. <<>> \in Seq(Words)
    OBVIOUS
  <2> QED
    BY <2>1, UnreadIs DEF Chars
<1>2. w \in Scanned /\ v \in Scanned
  BY <1>1, ScanIs
<1>3. u \in Seq(Chars) /\ u = Append(s, "/") /\ s \o <<"/">> \o t = u \o t
  BY <1>1
<1>4. Tokens(s) = Ended(w) /\ Tokens(t) = Ended(v) /\ Tokens(u \o t) = Ended(ScanAll(Unread(<<>>), u \o t))
  BY DEF Tokens, ScanAll, Unread
<1> HIDE DEF w, v, u
<1>5. ScanAll(Unread(<<>>), u) = Scan(w, "/")
  BY <1>1, <1>3, ScanRules DEF w
<1>6. Scan(w, "/") = Unread(Ended(w))
  BY DEF Scan, Unread
<1>7. ScanAll(Unread(<<>>), u \o t) = ScanAll(Unread(Ended(w)), t)
  <2>1. u \in Seq(Chars)
    BY <1>3
  <2>2. ScanAll(Unread(<<>>), u \o t) = ScanAll(ScanAll(Unread(<<>>), u), t)
    BY <2>1, ScanRules
  <2> QED
    BY <1>5, <1>6, <2>2
<1>8. Ended(w) \in Seq(Words)
  BY <1>2, EndedIs
<1>9. ScanAll(Unread(Ended(w)), t) = Behind(Ended(w), v)
  BY <1>8, ScanBehind DEF v
<1>10. Ended(Behind(Ended(w), v)) = Ended(w) \o Ended(v)
  BY <1>2, <1>8, EndedBehind
<1> QED
  BY <1>3, <1>4, <1>7, <1>9, <1>10

\* Nothing has no component, and neither has a slash.
LEMMA TokensOfNone == Tokens(<<>>) = <<>> /\ Tokens(<<"/">>) = <<>>
<1>1. Tokens(<<>>) = <<>>
  <2>1. ScanAll(Unread(<<>>), <<>>) = Unread(<<>>)
    BY ScanRules
  <2> QED
    BY <2>1 DEF Tokens, ScanAll, Unread, Ended
<1>2. <<>> \in Seq(Chars) /\ <<>> \o <<"/">> \o <<>> = <<"/">> /\ <<>> \o <<>> = <<>>
  BY DEF Chars
<1> QED
  BY <1>1, <1>2, TokensConcat

\* A word is its only component.
LEMMA TokensOfWord == ASSUME NEW t \in Words PROVE Tokens(t) = <<t>>
<1> DEFINE V == Chars \ {"/"}
           S == {s \in Seq(V) : ScanAll(Unread(<<>>), s) = [ts |-> <<>>, word |-> s]}
<1>1. <<>> \in S
  BY ScanRules DEF Unread
<1>2. ASSUME NEW s \in Seq(V), NEW x \in V, s \in S PROVE Append(s, x) \in S
  <2>1. s \in Seq(Chars) /\ x \in Chars /\ x # "/" /\ Append(s, x) \in Seq(V)
    OBVIOUS
  <2>2. ScanAll(Unread(<<>>), Append(s, x)) = Scan(ScanAll(Unread(<<>>), s), x)
    BY <2>1, ScanRules
  <2>3. Scan([ts |-> <<>>, word |-> s], x) = [ts |-> <<>>, word |-> Append(s, x)]
    BY <2>1 DEF Scan
  <2> QED
    BY <1>2, <2>1, <2>2, <2>3
<1>3. Seq(V) \subseteq S
  <2> HIDE DEF S, V
  <2> QED
    BY <1>1, <1>2, Scans!SeqInduction
<1>4. ScanAll(Unread(<<>>), t) = [ts |-> <<>>, word |-> t] /\ t # <<>>
  BY <1>3 DEF Words
<1>5. Append(<<>>, t) = <<t>>
  OBVIOUS
<1>6. Tokens(t) = Ended(ScanAll(Unread(<<>>), t))
  BY DEF Tokens, ScanAll, Unread
<1>7. Ended([ts |-> <<>>, word |-> t]) = Append(<<>>, t)
  BY <1>4 DEF Ended
<1> QED
  BY <1>4, <1>5, <1>6, <1>7

\* What was joined splits as it was.
LEMMA JoinedIs ==
    ASSUME NEW ts \in Seq(Words)
    PROVE  JoinAll(ts) \in Seq(Chars) /\ Tokens(JoinAll(ts)) = ts
<1> DEFINE S == {s \in Seq(Words) : JoinAll(s) \in Seq(Chars) /\ Tokens(JoinAll(s)) = s}
<1>1. <<>> \in S
  <2>1. <<>> \in Seq(Words) /\ <<>> \in Seq(Chars)
    OBVIOUS
  <2> QED
    BY <2>1, JoinRules, TokensOfNone
<1>2. ASSUME NEW s \in Seq(Words), NEW x \in Words, s \in S PROVE Append(s, x) \in S
  <2>1. x \in Seq(Chars) /\ JoinAll(s) \in Seq(Chars)
    BY <1>2 DEF Words
  <2>2. JoinAll(Append(s, x)) = JoinAll(s) \o <<"/">> \o x
    BY JoinRules
  <2>3. "/" \in Chars
    BY DEF Chars
  <2>4. JoinAll(s) \o <<"/">> \o x \in Seq(Chars)
    BY <2>1, <2>3
  <2>5. Tokens(JoinAll(s) \o <<"/">> \o x) = s \o <<x>>
    BY <1>2, <2>1, TokensConcat, TokensOfWord
  <2>6. s \o <<x>> = Append(s, x)
    OBVIOUS
  <2>7. Append(s, x) \in Seq(Words)
    OBVIOUS
  <2> QED
    BY <2>2, <2>4, <2>5, <2>6, <2>7
<1>3. Seq(Words) \subseteq S
  <2> HIDE DEF S
  <2> QED
    BY <1>1, <1>2, Scans!SeqInduction
<1> QED
  BY <1>3

\* A normal path splits into the components it was made of.
LEMMA TokensJoined ==
    ASSUME NEW ts \in Seq(Words)
    PROVE  Joined(ts) \in Seq(Chars) /\ Joined(ts) # <<>> /\ Tokens(Joined(ts)) = ts
<1>1. CASE ts = <<>>
  <2>1. "/" \in Chars
    BY DEF Chars
  <2>2. <<"/">> \in Seq(Chars) /\ <<"/">> # <<>>
    BY <2>1
  <2> QED
    BY <1>1, <2>2, TokensOfNone DEF Joined
<1>2. CASE ts # <<>>
  <2>1. Joined(ts) = JoinAll(ts)
    BY <1>2 DEF Joined, JoinAll
  <2>2. JoinAll(ts) # <<>>
    BY <1>2, JoinedIs, TokensOfNone
  <2> QED
    BY <2>1, <2>2, JoinedIs
<1> QED
  BY <1>1, <1>2

\* A normal path but "/" does not end with a slash.
LEMMA LastJoined == ASSUME NEW ts \in Seq(Words), ts # <<>> PROVE Last(Joined(ts)) # "/"
<1> DEFINE S == {s \in Seq(Words) : s = <<>> \/ Last(JoinAll(s)) # "/"}
<1>1. <<>> \in S
  OBVIOUS
<1>2. ASSUME NEW s \in Seq(Words), NEW x \in Words PROVE Append(s, x) \in S
  <2>1. JoinAll(Append(s, x)) = JoinAll(s) \o <<"/">> \o x /\ JoinAll(s) \in Seq(Chars)
    BY JoinRules, JoinedIs
  <2>2. x \in Seq(Chars) /\ Len(x) > 0 /\ Len(x) \in Nat /\ \A i \in 1 .. Len(x) : x[i] # "/"
    BY DEF Words
  <2>3. "/" \in Chars
    BY DEF Chars
  <2> DEFINE u == JoinAll(s) \o <<"/">>
  <2>4. u \in Seq(Chars)
    BY <2>1, <2>3
  <2> HIDE DEF u
  <2>5. Len(u \o x) = Len(u) + Len(x) /\ (u \o x)[Len(u) + Len(x)] = x[Len(x)]
    BY <2>2, <2>4
  <2>6. Last(u \o x) # "/"
    BY <2>2, <2>5 DEF Last
  <2>7. Append(s, x) \in Seq(Words)
    OBVIOUS
  <2> QED
    BY <2>1, <2>6, <2>7 DEF u
<1>3. Seq(Words) \subseteq S
  <2> HIDE DEF S
  <2> QED
    BY <1>1, <1>2, Scans!SeqInduction
<1>4. Joined(ts) = JoinAll(ts)
  BY DEF Joined, JoinAll
<1> QED
  BY <1>3, <1>4

\* Entering keeps a path normal, ...
LEMMA EnterIs ==
    ASSUME NEW dir \in Seq(Proper), NEW ts \in Seq(Words)
    PROVE  EnterAll(dir, ts) \in Seq(Proper)
<1> DEFINE S == {s \in Seq(Words) : EnterAll(dir, s) \in Seq(Proper)}
<1>1. <<>> \in S
  <2>1. <<>> \in Seq(Words)
    OBVIOUS
  <2> QED
    BY <2>1, EnterRules
<1>2. ASSUME NEW s \in Seq(Words), NEW x \in Words, s \in S PROVE Append(s, x) \in S
  <2> DEFINE d == EnterAll(dir, s)
  <2>1. d \in Seq(Proper)
    BY <1>2
  <2>2. EnterAll(dir, Append(s, x)) = Enter(d, x)
    BY EnterRules
  <2>3. Append(s, x) \in Seq(Words)
    OBVIOUS
  <2> HIDE DEF d
  <2>4. x \notin {<<".">>, <<".", ".">>} => x \in Proper
    BY DEF Proper
  <2> HIDE DEF Proper, Words
  <2>5. Append(d, x) \in Seq(Proper) \/ x \in {<<".">>, <<".", ".">>}
    BY <2>1, <2>4
  <2>6. d # <<>> => Front(d) \in Seq(Proper)
    BY <2>1 DEF Front
  <2>7. Enter(d, x) \in Seq(Proper)
    BY <2>1, <2>5, <2>6 DEF Enter
  <2> QED
    BY <2>2, <2>3, <2>7
<1>3. Seq(Words) \subseteq S
  <2> HIDE DEF S
  <2> QED
    BY <1>1, <1>2, Scans!SeqInduction
<1> QED
  BY <1>3

\* ... and components without dots are appended.
LEMMA EnterProper ==
    ASSUME NEW dir \in Seq(Proper), NEW ts \in Seq(Proper)
    PROVE  EnterAll(dir, ts) = dir \o ts
<1> DEFINE S == {s \in Seq(Proper) : EnterAll(dir, s) = dir \o s}
<1>1. <<>> \in S
  <2>1. <<>> \in Seq(Proper) /\ dir \o <<>> = dir
    OBVIOUS
  <2> QED
    BY <2>1, EnterRules
<1>2. ASSUME NEW s \in Seq(Proper), NEW x \in Proper, s \in S PROVE Append(s, x) \in S
  <2>1. Proper \subseteq Words /\ x \notin {<<".">>, <<".", ".">>}
    BY DEF Proper
  <2> HIDE DEF Words
  <2>2. s \in Seq(Words) /\ x \in Words
    BY <2>1
  <2>3. EnterAll(dir, Append(s, x)) = Enter(dir \o s, x)
    <3>1. EnterAll(dir, Append(s, x)) = Enter(EnterAll(dir, s), x)
      BY <2>2, EnterRules
    <3>2. EnterAll(dir, s) = dir \o s
      BY <1>2
    <3> QED
      BY <3>1, <3>2
  <2>4. Enter(dir \o s, x) = Append(dir \o s, x)
    BY <2>1 DEF Enter
  <2> HIDE DEF Proper
  <2>5. Append(dir \o s, x) = dir \o Append(s, x) /\ Append(s, x) \in Seq(Proper)
    <3> HIDE DEF S
    <3> DEFINE V == Proper
               a == Append(dir \o s, x)
               b == dir \o Append(s, x)
    <3>1. dir \in Seq(V) /\ s \in Seq(V) /\ x \in V
      OBVIOUS
    <3> HIDE DEF V
    <3>2. Append(s, x) \in Seq(V) /\ dir \o s \in Seq(V)
      BY <3>1
    <3>3. a \in Seq(V) /\ b \in Seq(V) /\ Len(a) = Len(b)
      BY <3>1, <3>2
    <3>4. \A i \in 1 .. Len(a) : a[i] = b[i]
      BY <3>1, <3>2
    <3> HIDE DEF a, b
    <3>5. a = b
      BY <3>3, <3>4, SeqEqual
    <3> QED
      BY <3>2, <3>5 DEF a, b, V
  <2> QED
    BY <2>3, <2>4, <2>5
<1>3. Seq(Proper) \subseteq S
  <2> HIDE DEF S
  <2> QED
    BY <1>1, <1>2, Scans!SeqInduction
<1> QED
  BY <1>3

\* Where a path begins, seen from a directory.
Absolute(path) == path # <<>> /\ Head(path) = "/"
Start(dir, path) == IF Absolute(path) THEN <<>> ELSE dir

\* fs_resolve_path enters the components of a path, from there.
LEMMA ResolvedIs ==
    ASSUME NEW dir \in Seq(Proper), NEW path \in Seq(Chars)
    PROVE  fs_resolve_path(Joined(dir), path) = Joined(EnterAll(Start(dir, path), Tokens(path)))
<1> DEFINE cwd == Joined(dir)
           whole == IF Absolute(path) THEN path
                    ELSE IF Last(cwd) # "/" THEN cwd \o <<"/">> \o path ELSE cwd \o path
           none == <<>>
<1>1. fs_resolve_path(cwd, path) = Joined(EnterAll(none, Tokens(whole)))
  BY Zenon DEF fs_resolve_path, EnterAll, Absolute
<1>2. dir \in Seq(Words) /\ none \in Seq(Proper)
  <2>1. Proper \subseteq Words
    BY DEF Proper
  <2> HIDE DEF Words, Proper
  <2> QED
    BY <2>1
<1>3. cwd \in Seq(Chars) /\ Tokens(cwd) = dir /\ Tokens(path) \in Seq(Words)
  BY <1>2, TokensJoined, TokensAre
<1>4. CASE Absolute(path)
  BY <1>1, <1>4 DEF Start
<1>5. CASE ~Absolute(path)
  <2>1. Tokens(whole) = dir \o Tokens(path)
    <3>1. CASE dir = <<>>
      <4>1. cwd = <<"/">> /\ Last(cwd) = "/"
        BY <3>1 DEF Joined, Last
      <4>2. whole = <<"/">> \o path
        BY <1>5, <4>1
      <4>3. <<>> \in Seq(Chars) /\ <<"/">> \o path = <<>> \o <<"/">> \o path
        BY <1>3, <4>1
      <4>4. Tokens(whole) = <<>> \o Tokens(path)
        BY <4>2, <4>3, TokensConcat, TokensOfNone
      <4> QED
        BY <3>1, <4>4
    <3>2. CASE dir # <<>>
      <4>1. Last(cwd) # "/"
        BY <1>2, <3>2, LastJoined
      <4>2. whole = cwd \o <<"/">> \o path
        BY <1>5, <4>1
      <4> HIDE DEF cwd, whole
      <4> QED
        BY <1>3, <4>2, TokensConcat
    <3> QED
      BY <3>1, <3>2
  <2> HIDE DEF whole, cwd
  <2>2. EnterAll(none, dir \o Tokens(path)) = EnterAll(EnterAll(none, dir), Tokens(path))
    BY <1>2, <1>3, EnterRules
  <2>3. EnterAll(none, dir) = dir
    <3>1. EnterAll(none, dir) = none \o dir
      BY <1>2, EnterProper
    <3> QED
      BY <3>1
  <2> QED
    BY <1>1, <1>5, <2>1, <2>2, <2>3 DEF Start, cwd
<1> QED
  BY <1>4, <1>5

\* The working directory is where the last argument led from the one before.
PathInv ==
    \E dir \in Seq(Proper) :
        /\ from = Joined(dir) /\ input \in Seq(Chars)
        /\ current_path = fs_resolve_path(from, input)

\* It is normal, then.
LEMMA NormalPath ==
    ASSUME PathInv
    PROVE  \E dir, here \in Seq(Proper) :
               /\ from = Joined(dir) /\ current_path = Joined(here) /\ input \in Seq(Chars)
               /\ here = EnterAll(Start(dir, input), Tokens(input))
<1>1. PICK dir \in Seq(Proper) : /\ from = Joined(dir) /\ input \in Seq(Chars)
                                 /\ current_path = fs_resolve_path(from, input)
  BY DEF PathInv
<1> DEFINE here == EnterAll(Start(dir, input), Tokens(input))
<1>2. current_path = Joined(here)
  BY <1>1, ResolvedIs
<1>3. Start(dir, input) \in Seq(Proper)
  BY DEF Start
<1>4. Tokens(input) \in Seq(Words)
  BY <1>1, TokensAre
<1>5. here \in Seq(Proper)
  BY <1>3, <1>4, EnterIs
<1> HIDE DEF here
<1>6. here = EnterAll(Start(dir, input), Tokens(input))
  BY DEF here
<1> QED
  BY <1>1, <1>2, <1>5, <1>6

\* What is named from there is named from the one before.
LEMMA NamedFromBefore ==
    ASSUME NEW dir \in Seq(Proper), NEW here \in Seq(Proper), NEW path \in Seq(Chars),
           here = EnterAll(Start(dir, path), Tokens(path)),
           NEW s \in Seq(Chars), ~Absolute(s)
    PROVE  fs_resolve_path(Joined(here), s) =
               fs_resolve_path(Joined(dir), IF path = <<>> THEN s ELSE path \o <<"/">> \o s)
<1>1. fs_resolve_path(Joined(here), s) = Joined(EnterAll(here, Tokens(s)))
  BY ResolvedIs DEF Start
<1>2. CASE path = <<>>
  <2>1. Start(dir, path) = dir /\ Tokens(path) = <<>>
    BY <1>2, TokensOfNone DEF Start, Absolute
  <2>2. here = dir
    BY <2>1, EnterRules
  <2> QED
    BY <1>2, <2>2
<1>3. CASE path # <<>>
  <2> DEFINE t == path \o <<"/">> \o s
  <2>1. "/" \in Chars
    BY DEF Chars
  <2>2. t \in Seq(Chars) /\ t # <<>> /\ Head(t) = Head(path)
    BY <1>3, <2>1
  <2>3. Start(dir, t) = Start(dir, path)
    BY <1>3, <2>2 DEF Start, Absolute
  <2>4. Tokens(t) = Tokens(path) \o Tokens(s)
    BY TokensConcat
  <2> HIDE DEF t
  <2>5. fs_resolve_path(Joined(dir), t) = Joined(EnterAll(Start(dir, path), Tokens(path) \o Tokens(s)))
    BY <2>2, <2>3, <2>4, ResolvedIs
  <2>6. EnterAll(Start(dir, path), Tokens(path) \o Tokens(s)) = EnterAll(here, Tokens(s))
    <3>1. Tokens(path) \in Seq(Words) /\ Tokens(s) \in Seq(Words)
      BY TokensAre
    <3> QED
      BY <3>1, EnterRules
  <2> QED
    BY <1>1, <1>3, <2>5, <2>6 DEF t
<1> QED
  BY <1>2, <1>3

\* The strings of the model are strings.
LEMMA StringsAre == ASSUME NEW l, NEW s \in Strings(l) PROVE s \in Seq(Chars)
<1>1. PICK i \in 0 .. l : s \in [1 .. i -> Chars]
  BY DEF Strings
<1> QED
  BY <1>1

\* The invariant begins with the root and every fs_change_dir keeps it.
LEMMA PathInitInv == PathInit => PathInv
<1> SUFFICES ASSUME PathInit PROVE PathInv
  OBVIOUS
<1> DEFINE none == <<>>
<1>1. current_path = <<"/">> /\ from = <<"/">> /\ input = <<"/">>
  BY DEF PathInit
<1>2. none \in Seq(Proper) /\ Joined(none) = <<"/">>
  <2> HIDE DEF Proper
  <2>1. none \in Seq(Proper)
    OBVIOUS
  <2> QED
    BY <2>1 DEF Joined
<1>3. "/" \in Chars
  BY DEF Chars
<1>4. <<"/">> \in Seq(Chars) /\ <<"/">> # <<>> /\ Head(<<"/">>) = "/"
  BY <1>3
<1>5. fs_resolve_path(<<"/">>, <<"/">>) = <<"/">>
  <2>1. fs_resolve_path(<<"/">>, <<"/">>) = Joined(EnterAll(Start(none, <<"/">>), Tokens(<<"/">>)))
    BY <1>2, <1>4, ResolvedIs
  <2>2. Start(none, <<"/">>) = none /\ EnterAll(none, <<>>) = none
    BY EnterRules DEF Start
  <2> QED
    BY <1>2, <2>1, <2>2, TokensOfNone
<1> HIDE DEF none
<1> QED
  BY <1>1, <1>2, <1>4, <1>5 DEF PathInv

\* fs_change_dir leads from a normal path to a normal path.
LEMMA PathStep == PathInv /\ [PathNext]_pathVars => PathInv'
<1> SUFFICES ASSUME PathInv, [PathNext]_pathVars PROVE PathInv'
  OBVIOUS
<1>1. CASE PathNext
  <2>1. PICK s \in Strings(MaxInput) : fs_change_dir(s)
    BY <1>1 DEF PathNext
  <2>2. s \in Seq(Chars)
    BY StringsAre
  <2>3. PICK here \in Seq(Proper) : current_path = Joined(here)
    BY NormalPath
  <2>4. from' = Joined(here) /\ input' = s /\ current_path' = fs_resolve_path(from', s)
    BY <2>1, <2>3 DEF fs_change_dir
  <2>5. \E dir \in Seq(Proper) :
            /\ from' = Joined(dir) /\ input' \in Seq(Chars)
            /\ current_path' = fs_resolve_path(from', input')
    BY <2>2, <2>3, <2>4
  <2> QED
    BY <2>5 DEF PathInv
<1>2. CASE UNCHANGED pathVars
  BY <1>2 DEF pathVars, PathInv
<1> QED
  BY <1>1, <1>2

\* The invariant says what a name means from the new directory.
LEMMA NamesFollow == PathInv => NamesFollowDirectory
<1> SUFFICES ASSUME PathInv PROVE NamesFollowDirectory
  OBVIOUS
<1>1. PICK dir \in Seq(Proper), here \in Seq(Proper) :
          /\ from = Joined(dir) /\ current_path = Joined(here) /\ input \in Seq(Chars)
          /\ here = EnterAll(Start(dir, input), Tokens(input))
  BY NormalPath
<1>2. Proper \subseteq Words /\ \A x \in Proper : x \notin {<<".">>, <<".", ".">>}
  BY DEF Proper
<1> HIDE DEF Words, Proper
<1>3. here \in Seq(Words) /\ \A i \in DOMAIN here : here[i] \in Proper
  BY <1>2
<1>4. Tokens(current_path) = here
  BY <1>1, <1>3, TokensJoined
<1>5. \A i \in DOMAIN here : here[i] \notin {<<".">>, <<".", ".">>}
  BY <1>2, <1>3
<1>6. ASSUME NEW s \in Strings(MaxFrom), s = <<>> \/ Head(s) # "/"
      PROVE  fs_resolve_path(current_path, s) =
                 fs_resolve_path(from, IF input = <<>> THEN s ELSE input \o <<"/">> \o s)
  <2>1. s \in Seq(Chars)
    BY StringsAre
  <2>2. ~Absolute(s)
    BY <1>6 DEF Absolute
  <2> QED
    BY <1>1, <2>1, <2>2, NamedFromBefore
<1> QED
  BY <1>1, <1>4, <1>5, <1>6 DEF NamesFollowDirectory

\* What a concatenation holds.
Catenates(z, a, b) ==
    /\ Len(z) = Len(a) + Len(b)
    /\ \A i \in 1 .. Len(a) : z[i] = a[i]
    /\ \A i \in 1 .. Len(b) : z[Len(a) + i] = b[i]
\* The elements of a concatenation.
LEMMA ConcatIs ==
    ASSUME NEW V, NEW a \in Seq(V), NEW b \in Seq(V)
    PROVE  a \o b \in Seq(V) /\ Catenates(a \o b, a, b)
<1>1. a \o b \in Seq(V) /\ Len(a \o b) = Len(a) + Len(b) /\ Len(a) \in Nat /\ Len(b) \in Nat
  OBVIOUS
<1>2. ASSUME NEW i \in 1 .. Len(a) PROVE (a \o b)[i] = a[i]
  OBVIOUS
<1>3. ASSUME NEW i \in 1 .. Len(b) PROVE (a \o b)[Len(a) + i] = b[i]
  OBVIOUS
<1> QED
  BY <1>1, <1>2, <1>3 DEF Catenates

\* Concatenation is associative.
Associate(a, b, c) == (a \o b) \o c = a \o (b \o c)
\* Concatenation is associative.
LEMMA ConcatAssoc ==
    ASSUME NEW V, NEW a \in Seq(V), NEW b \in Seq(V), NEW c \in Seq(V)
    PROVE  Associate(a, b, c)
<1> DEFINE u == a \o b
           v == b \o c
           x == u \o c
           y == a \o v
           k == Len(a)
           l == Len(b)
           m == Len(c)
<1>1. k \in Nat /\ l \in Nat /\ m \in Nat
  OBVIOUS
<1>2. u \in Seq(V) /\ Catenates(u, a, b)
  BY ConcatIs
<1>3. v \in Seq(V) /\ Catenates(v, b, c)
  BY ConcatIs
<1> HIDE DEF u, v
<1>4. x \in Seq(V) /\ Catenates(x, u, c)
  BY <1>2, ConcatIs
<1>5. y \in Seq(V) /\ Catenates(y, a, v)
  BY <1>3, ConcatIs
<1> HIDE DEF x, y
<1>9. /\ Len(u) = k + l /\ Len(v) = l + m /\ Len(x) = k + l + m /\ Len(y) = k + (l + m)
      /\ \A i \in 1 .. k : u[i] = a[i] /\ y[i] = a[i]
      /\ \A i \in 1 .. l : u[k + i] = b[i] /\ v[i] = b[i]
      /\ \A i \in 1 .. m : v[l + i] = c[i] /\ x[(k + l) + i] = c[i]
      /\ \A i \in 1 .. k + l : x[i] = u[i]
      /\ \A i \in 1 .. l + m : y[k + i] = v[i]
  BY <1>2, <1>3, <1>4, <1>5 DEF Catenates
<1> HIDE DEF k, l, m
<1>6. Len(x) = Len(y) /\ Len(x) = k + l + m
  BY <1>1, <1>9
<1>7. ASSUME NEW i \in 1 .. Len(x) PROVE x[i] = y[i]
  <2>1. CASE i <= k
    <3>1. i \in 1 .. k /\ i \in 1 .. k + l
      BY <1>1, <1>6, <2>1
    <3> QED
      BY <1>9, <3>1
  <2>2. CASE k < i /\ i <= k + l
    <3> DEFINE j == i - k
    <3>1. j \in 1 .. l /\ j \in 1 .. l + m /\ i = k + j /\ i \in 1 .. k + l
      BY <1>1, <1>6, <2>2
    <3> HIDE DEF j
    <3>2. u[k + j] = b[j] /\ v[j] = b[j] /\ y[k + j] = v[j] /\ x[i] = u[i]
      BY <1>9, <3>1
    <3> QED
      BY <3>1, <3>2
  <2>3. CASE k + l < i
    <3> DEFINE j == i - (k + l)
    <3>1. j \in 1 .. m /\ l + j \in 1 .. l + m /\ i = (k + l) + j /\ i = k + (l + j)
      BY <1>1, <1>6, <2>3
    <3> HIDE DEF j
    <3>2. x[(k + l) + j] = c[j] /\ v[l + j] = c[j] /\ y[k + (l + j)] = v[l + j]
      BY <1>9, <3>1
    <3> QED
      BY <3>1, <3>2
  <2> QED
    BY <1>1, <1>6, <2>1, <2>2, <2>3
<1>8. x = y
  BY <1>4, <1>5, <1>6, <1>7, SeqEqual
<1> QED
  BY <1>8 DEF x, y, u, v, Associate

\* What follows the prefix of a sequence.
Rest(s, n) == SubSeq(s, n + 1, Len(s))

\* What is behind the prefix.
LEMMA RestAt ==
    ASSUME NEW V, NEW s \in Seq(V), NEW n \in Nat, n <= Len(s)
    PROVE  /\ Rest(s, n) \in Seq(V) /\ Len(Rest(s, n)) = Len(s) - n
           /\ \A i \in 1 .. Len(s) - n : Rest(s, n)[i] = s[n + i]
  BY DEF Rest

\* A prefix is what a sequence begins with.
LEMMA PrefixIs ==
    ASSUME NEW V, NEW p \in Seq(V), NEW s \in Seq(V)
    PROVE  /\ IsPrefix(p, s) => Len(p) <= Len(s) /\ Rest(s, Len(p)) \in Seq(V) /\ s = p \o Rest(s, Len(p))
           /\ \A r \in Seq(V) : s = p \o r => IsPrefix(p, s)
<1>1. ASSUME IsPrefix(p, s)
      PROVE  Len(p) <= Len(s) /\ Rest(s, Len(p)) \in Seq(V) /\ s = p \o Rest(s, Len(p))
  <2> DEFINE n == Len(p)
             r == Rest(s, n)
             t == p \o r
  <2>1. n \in Nat /\ n <= Len(s) /\ SubSeq(p, 1, n) = SubSeq(s, 1, n)
    BY <1>1 DEF IsPrefix
  <2>2. \A i \in 1 .. n : p[i] = s[i]
    BY <2>1
  <2>3. r \in Seq(V) /\ Len(r) = Len(s) - n /\ \A i \in 1 .. Len(s) - n : r[i] = s[n + i]
    BY <2>1 DEF Rest
  <2> HIDE DEF r
  <2>4. t \in Seq(V) /\ Len(t) = Len(s)
    BY <2>1, <2>3
  <2>5. ASSUME NEW i \in 1 .. Len(t) PROVE t[i] = s[i]
    <3>1. CASE i <= n
      BY <2>2, <2>3, <2>4, <3>1
    <3>2. CASE i > n
      <4>1. t[i] = r[i - n] /\ i - n \in 1 .. Len(s) - n
        BY <2>1, <2>3, <2>4, <3>2
      <4> QED
        BY <2>1, <2>3, <2>4, <4>1
    <3> QED
      BY <2>1, <3>1, <3>2
  <2> HIDE DEF t
  <2>6. t = s
    BY <2>4, <2>5, SeqEqual
  <2> QED
    BY <2>1, <2>3, <2>6 DEF r, t
<1>2. ASSUME NEW r \in Seq(V), s = p \o r PROVE IsPrefix(p, s)
  <2> DEFINE n == Len(p)
  <2>1. n \in Nat /\ n <= Len(s) /\ \A i \in 1 .. n : s[i] = p[i]
    BY <1>2
  <2>2. SubSeq(p, 1, n) \in Seq(V) /\ Len(SubSeq(p, 1, n)) = n /\ \A i \in 1 .. n : SubSeq(p, 1, n)[i] = p[i]
    BY <2>1
  <2>3. SubSeq(s, 1, n) \in Seq(V) /\ Len(SubSeq(s, 1, n)) = n /\ \A i \in 1 .. n : SubSeq(s, 1, n)[i] = s[i]
    BY <2>1
  <2> HIDE DEF n
  <2>4. \A i \in 1 .. Len(SubSeq(p, 1, n)) : SubSeq(p, 1, n)[i] = SubSeq(s, 1, n)[i]
    BY <2>1, <2>2, <2>3
  <2>5. SubSeq(p, 1, n) = SubSeq(s, 1, n)
    BY <2>2, <2>3, <2>4, SeqEqual
  <2> QED
    BY <2>1, <2>5 DEF IsPrefix, n
<1> QED
  BY <1>1, <1>2

\* Joining piece by piece.
LEMMA JoinConcat ==
    ASSUME NEW s \in Seq(Words), NEW t \in Seq(Words)
    PROVE  JoinAll(s \o t) = JoinAll(s) \o JoinAll(t)
<1> DEFINE S == {u \in Seq(Words) : JoinAll(s \o u) = JoinAll(s) \o JoinAll(u)}
<1>1. <<>> \in S
  <2>1. <<>> \in Seq(Words) /\ s \o <<>> = s
    OBVIOUS
  <2>2. JoinAll(s) \o <<>> = JoinAll(s)
    BY JoinedIs
  <2> QED
    BY <2>1, <2>2, JoinRules
<1>2. ASSUME NEW u \in Seq(Words), NEW x \in Words, u \in S PROVE Append(u, x) \in S
  <2>1. s \o u \in Seq(Words) /\ Append(u, x) \in Seq(Words) /\ s \o Append(u, x) = Append(s \o u, x)
    OBVIOUS
  <2>2. JoinAll(s \o Append(u, x)) = JoinAll(s \o u) \o <<"/">> \o x
    BY <2>1, JoinRules
  <2>3. JoinAll(Append(u, x)) = JoinAll(u) \o <<"/">> \o x
    BY JoinRules
  <2>4. JoinAll(s) \in Seq(Chars) /\ JoinAll(u) \in Seq(Chars) /\ x \in Seq(Chars) /\ <<"/">> \in Seq(Chars)
    <3>1. "/" \in Chars
      BY DEF Chars
    <3> QED
      BY <3>1, JoinedIs DEF Words
  <2>5. JoinAll(s \o u) = JoinAll(s) \o JoinAll(u)
    BY <1>2
  <2>6. (JoinAll(s) \o JoinAll(u)) \o <<"/">> \o x = JoinAll(s) \o (JoinAll(u) \o <<"/">> \o x)
    <3> DEFINE a == JoinAll(s)
               b == JoinAll(u)
               c == <<"/">>
               V == Chars
    <3>1. a \in Seq(V) /\ b \in Seq(V) /\ c \in Seq(V) /\ x \in Seq(V)
      BY <2>4
    <3> HIDE DEF a, b, c, V
    <3>2. b \o c \in Seq(V)
      BY <3>1
    <3>3. Associate(a, b, c)
      BY <3>1, ConcatAssoc
    <3> DEFINE d == b \o c
    <3> HIDE DEF d
    <3>4. Associate(a, d, x)
      <4>1. d \in Seq(V)
        BY <3>2 DEF d
      <4> QED
        BY <3>1, <4>1, ConcatAssoc
    <3> QED
      BY <3>3, <3>4 DEF a, b, c, d, Associate
  <2> QED
    BY <2>1, <2>2, <2>3, <2>5, <2>6
<1>3. Seq(Words) \subseteq S
  <2> HIDE DEF S
  <2> QED
    BY <1>1, <1>2, Scans!SeqInduction
<1> QED
  BY <1>3

\* Something joined begins with a slash and is longer than that.
LEMMA JoinHead ==
    ASSUME NEW ts \in Seq(Words), ts # <<>>
    PROVE  JoinAll(ts)[1] = "/" /\ Len(JoinAll(ts)) > 1 /\ JoinAll(ts) # <<>>
<1> DEFINE S == {s \in Seq(Words) : s = <<>> \/ (JoinAll(s)[1] = "/" /\ Len(JoinAll(s)) > 1)}
<1>1. <<>> \in S
  OBVIOUS
<1>2. ASSUME NEW s \in Seq(Words), NEW x \in Words, s \in S PROVE Append(s, x) \in S
  <2>1. JoinAll(Append(s, x)) = JoinAll(s) \o <<"/">> \o x /\ Append(s, x) \in Seq(Words)
    BY JoinRules
  <2>2. x \in Seq(Chars) /\ Len(x) \in Nat /\ Len(x) > 0 /\ "/" \in Chars
    BY DEF Words, Chars
  <2>3. JoinAll(s) \in Seq(Chars) /\ (s = <<>> => JoinAll(s) = <<>>)
    BY JoinedIs, JoinRules
  <2>4. s # <<>> => JoinAll(s)[1] = "/" /\ Len(JoinAll(s)) > 1
    BY <1>2
  <2> DEFINE a == JoinAll(s)
             u == a \o <<"/">>
  <2>5. a \in Seq(Chars) /\ (a = <<>> \/ (a[1] = "/" /\ Len(a) > 1))
    BY <2>3, <2>4
  <2> HIDE DEF a
  <2>6. u \in Seq(Chars) /\ u[1] = "/" /\ Len(u) > 0 /\ Len(u) \in Nat
    BY <2>2, <2>5
  <2> HIDE DEF u
  <2>7. (u \o x)[1] = "/" /\ Len(u \o x) > 1
    BY <2>2, <2>6
  <2> QED
    BY <2>1, <2>7 DEF u, a
<1>3. Seq(Words) \subseteq S
  <2> HIDE DEF S
  <2> QED
    BY <1>1, <1>2, Scans!SeqInduction
<1>4. JoinAll(ts)[1] = "/" /\ Len(JoinAll(ts)) > 1 /\ Len(<<>>) = 0
  BY <1>3
<1> QED
  BY <1>4

\* Shorter components make a shorter path.
LEMMA ShorterJoined ==
    ASSUME NEW s \in Seq(Words), NEW r \in Seq(Words), r # <<>>
    PROVE  Len(Joined(s)) < Len(Joined(s \o r))
<1>1. s \o r \in Seq(Words) /\ s \o r # <<>>
  OBVIOUS
<1>2. Joined(s \o r) = JoinAll(s \o r) /\ JoinAll(s \o r) \in Seq(Chars) /\ Len(JoinAll(s \o r)) > 1
  BY <1>1, JoinedIs, JoinHead DEF Joined, JoinAll
<1>3. CASE s = <<>>
  <2>1. Joined(s) = <<"/">> /\ Len(<<"/">>) = 1
    BY <1>3 DEF Joined
  <2> QED
    BY <1>2, <2>1
<1>4. CASE s # <<>>
  <2> DEFINE a == JoinAll(s)
             b == JoinAll(r)
  <2>1. Joined(s) = a /\ JoinAll(s \o r) = a \o b /\ a \in Seq(Chars) /\ b \in Seq(Chars) /\ Len(b) > 1
    BY <1>4, JoinConcat, JoinedIs, JoinHead DEF Joined, JoinAll
  <2> HIDE DEF a, b
  <2>2. Len(a \o b) = Len(a) + Len(b) /\ Len(a) \in Nat /\ Len(b) \in Nat
    BY <2>1
  <2> QED
    BY <1>2, <2>1, <2>2
<1> QED
  BY <1>3, <1>4

\* The prefixes that fs_get_driver looks for are those of the components.
LEMMA MatchesIs ==
    ASSUME NEW m \in Seq(Words), NEW g \in Seq(Words)
    PROVE  Matches(Joined(g), Joined(m)) <=> IsPrefix(m, g)
<1> DEFINE path == Joined(g)
           prefix == Joined(m)
           n == Len(prefix)
           rest == Rest(path, n)
<1>1. path \in Seq(Chars) /\ prefix \in Seq(Chars) /\ Tokens(path) = g /\ Tokens(prefix) = m
  BY TokensJoined
<1>2. n \in Nat /\ Len(path) \in Nat /\ "/" \in Chars
  BY <1>1 DEF Chars
<1>3. /\ g = <<>> => path = <<"/">>
      /\ g # <<>> => path = JoinAll(g) /\ path[1] = "/" /\ Len(path) > 1
      /\ m = <<>> => prefix = <<"/">> /\ n = 1
      /\ m # <<>> => prefix = JoinAll(m) /\ n > 1
  BY JoinHead DEF Joined, JoinAll
<1>4. ASSUME Matches(path, prefix) PROVE IsPrefix(m, g)
  <2>1. n <= Len(path) /\ rest \in Seq(Chars) /\ path = prefix \o rest
    BY <1>1, <1>4, PrefixIs DEF Matches
  <2>2. Len(path) = n \/ path[n + 1] = "/" \/ n = 1
    BY <1>4 DEF Matches
  <2>3. CASE m = <<>>
    <3>1. g = m \o g
      BY <2>3
    <3> QED
      BY <3>1, PrefixIs
  <2>4. CASE m # <<>> /\ Len(path) = n
    <3>1. path = prefix
      <4> HIDE DEF path, prefix, n
      <4>1. Len(rest) = 0
        BY <1>1, <1>2, <2>4 DEF Rest
      <4> HIDE DEF rest
      <4>2. rest = <<>>
        BY <2>1, <4>1
      <4> QED
        BY <1>1, <2>1, <4>2
    <3>2. g = m
      BY <1>1, <3>1
    <3>3. <<>> \in Seq(Words) /\ g = m \o <<>>
      BY <3>2
    <3> QED
      BY <3>3, PrefixIs
  <2>5. CASE m # <<>> /\ Len(path) # n
    <3>1. path[n + 1] = "/"
      <4>1. n > 1
        BY <1>3, <2>5
      <4> HIDE DEF n, path
      <4> QED
        BY <1>2, <2>2, <2>5, <4>1
    <3>2. rest # <<>> /\ Head(rest) = "/"
      <4> HIDE DEF path, prefix, n
      <4>1. Len(rest) = Len(path) - n /\ rest[1] = path[n + 1]
        BY <1>1, <1>2, <2>1, <2>5 DEF Rest
      <4> HIDE DEF rest
      <4> QED
        BY <1>2, <2>1, <2>5, <3>1, <4>1
    <3> DEFINE t == Tail(rest)
    <3> HIDE DEF path, prefix, n, rest
    <3>3. t \in Seq(Chars) /\ rest = <<"/">> \o t
      BY <2>1, <3>2
    <3>4. path = prefix \o <<"/">> \o t
      BY <1>1, <2>1, <3>3
    <3> HIDE DEF t
    <3>5. g = m \o Tokens(t) /\ Tokens(t) \in Seq(Words)
      BY <1>1, <3>3, <3>4, TokensConcat, TokensAre
    <3> QED
      BY <3>5, PrefixIs
  <2> QED
    BY <2>3, <2>4, <2>5
<1>5. ASSUME IsPrefix(m, g) PROVE Matches(path, prefix)
  <2> DEFINE r == Rest(g, Len(m))
  <2>1. r \in Seq(Words) /\ g = m \o r
    BY <1>5, PrefixIs
  <2> HIDE DEF r
  <2>2. CASE m = <<>>
    <3>1. path[1] = "/" /\ Len(path) >= 1
      BY <1>3
    <3> HIDE DEF path
    <3>2. path = <<"/">> \o Rest(path, 1)
      <4> DEFINE u == Rest(path, 1)
                 one == 1
      <4>1. u \in Seq(Chars) /\ Len(u) = Len(path) - 1 /\ \A i \in 1 .. Len(path) - 1 : u[i] = path[1 + i]
        <5>1. one \in Nat /\ one <= Len(path) /\ one = 1
          BY <3>1
        <5> HIDE DEF one
        <5>2. /\ Rest(path, one) \in Seq(Chars) /\ Len(Rest(path, one)) = Len(path) - one
              /\ \A i \in 1 .. Len(path) - one : Rest(path, one)[i] = path[one + i]
          BY <1>1, <5>1, RestAt
        <5> QED
          BY <5>1, <5>2
      <4> HIDE DEF u
      <4>2. <<"/">> \o u \in Seq(Chars) /\ Len(<<"/">> \o u) = Len(path)
        BY <1>2, <3>1, <4>1
      <4>3. \A i \in 1 .. Len(path) : (<<"/">> \o u)[i] = path[i]
        BY <1>2, <3>1, <4>1
      <4>4. \A i \in 1 .. Len(<<"/">> \o u) : (<<"/">> \o u)[i] = path[i]
        BY <4>2, <4>3
      <4> DEFINE v == <<"/">> \o u
      <4> HIDE DEF v
      <4>5. v \in Seq(Chars) /\ Len(v) = Len(path) /\ \A i \in 1 .. Len(v) : v[i] = path[i]
        BY <4>2, <4>4 DEF v
      <4>6. v = path
        BY <1>1, <4>5, SeqEqual
      <4> QED
        BY <4>6 DEF u, v
    <3>3. Rest(path, 1) \in Seq(Chars) /\ <<"/">> \in Seq(Chars) /\ Len(<<"/">>) = 1
      BY <1>1, <1>2, <3>1 DEF Rest
    <3>4. IsPrefix(<<"/">>, path)
      BY <1>1, <3>2, <3>3, PrefixIs
    <3> QED
      BY <1>3, <2>2, <3>3, <3>4 DEF Matches
  <2>3. CASE m # <<>> /\ r = <<>>
    <3>1. g = m
      BY <2>1, <2>3
    <3>2. path = prefix
      BY <3>1
    <3> HIDE DEF path, prefix, n
    <3>3. IsPrefix(prefix, path) /\ Len(path) = Len(prefix)
      BY <1>1, <3>2 DEF IsPrefix
    <3> QED
      BY <3>3 DEF Matches
  <2>4. CASE m # <<>> /\ r # <<>>
    <3> DEFINE b == JoinAll(r)
    <3>1. g # <<>> /\ path = prefix \o b /\ b \in Seq(Chars) /\ b[1] = "/" /\ Len(b) > 1
      <4>1. g # <<>>
        BY <2>1, <2>4
      <4>2. JoinAll(m \o r) = JoinAll(m) \o JoinAll(r)
        BY <2>1, JoinConcat
      <4> QED
        BY <1>3, <2>1, <2>4, <4>1, <4>2, JoinHead, JoinedIs
    <3> HIDE DEF path, prefix, b, n
    <3>2. IsPrefix(prefix, path)
      BY <1>1, <3>1, PrefixIs
    <3>3. path[Len(prefix) + 1] = "/"
      BY <1>1, <3>1
    <3> QED
      BY <3>2, <3>3 DEF Matches
  <2> QED
    BY <2>2, <2>3, <2>4
<1> QED
  BY <1>4, <1>5

\* The driver gets the components behind those of the mount.
LEMMA RestIs ==
    ASSUME NEW m \in Seq(Words), NEW g \in Seq(Words), IsPrefix(m, g), NEW rest,
           rest = SubSeq(Joined(g), Len(Joined(m)) + 1, Len(Joined(g)))
    PROVE  g = m \o Tokens(IF rest # <<>> /\ Head(rest) = "/" THEN Tail(rest) ELSE rest)
<1> DEFINE path == Joined(g)
           prefix == Joined(m)
           n == Len(prefix)
<1>1. path \in Seq(Chars) /\ prefix \in Seq(Chars) /\ Tokens(path) = g /\ Tokens(prefix) = m
  BY TokensJoined
<1>2. Matches(path, prefix)
  BY MatchesIs
<1>3. n <= Len(path) /\ rest \in Seq(Chars) /\ path = prefix \o rest
  BY <1>1, <1>2, PrefixIs DEF Matches, Rest
<1>4. n \in Nat /\ Len(path) \in Nat /\ "/" \in Chars /\ <<>> \in Seq(Chars)
  BY <1>1 DEF Chars
<1>5. m # <<>> => n > 1
  BY JoinHead DEF Joined, JoinAll
<1>6. Len(path) = n \/ path[n + 1] = "/" \/ n = 1
  BY <1>2 DEF Matches
<1>9. m = <<>> => prefix = <<"/">>
  BY DEF Joined
<1> HIDE DEF path, prefix, n
<1>7. ASSUME rest # <<>>, Head(rest) = "/"
      PROVE  Tail(rest) \in Seq(Chars) /\ rest = <<"/">> \o Tail(rest)
  BY <1>3, <1>7
<1>8. CASE m # <<>>
  <2>1. CASE rest = <<>>
    <3>1. path = prefix
      <4>1. prefix \o <<>> = prefix
        BY <1>1
      <4> QED
        BY <1>3, <2>1, <4>1
    <3>2. m = m \o <<>>
      OBVIOUS
    <3> QED
      BY <1>1, <2>1, <3>1, <3>2, TokensOfNone
  <2>2. CASE rest # <<>>
    <3>1. Len(path) = n + Len(rest) /\ Len(rest) \in Nat /\ Len(rest) > 0 /\ path[n + 1] = rest[1]
      BY <1>1, <1>3, <2>2 DEF n
    <3>2. Head(rest) = "/"
      <4>1. n > 1 /\ Len(path) # n
        BY <1>4, <1>5, <1>8, <3>1
      <4>2. rest[1] = "/"
        BY <1>4, <1>6, <3>1, <4>1
      <4> QED
        BY <1>3, <2>2, <4>2
    <3> DEFINE t == Tail(rest)
    <3>3. t \in Seq(Chars) /\ path = prefix \o <<"/">> \o t
      <4>1. t \in Seq(Chars) /\ rest = <<"/">> \o t
        BY <1>7, <2>2, <3>2
      <4> HIDE DEF t
      <4> DEFINE slash == <<"/">>
      <4>2. slash \in Seq(Chars)
        BY <1>4
      <4> HIDE DEF slash
      <4>3. Associate(prefix, slash, t)
        BY <1>1, <4>1, <4>2, ConcatAssoc
      <4> QED
        BY <1>3, <4>1, <4>3 DEF slash, Associate
    <3> HIDE DEF t
    <3>4. g = m \o Tokens(t)
      BY <1>1, <3>3, TokensConcat
    <3> QED
      BY <2>2, <3>2, <3>4 DEF t
  <2> QED
    BY <2>1, <2>2
<1>10. CASE m = <<>>
  <2> DEFINE none == <<>>
             t == Tail(rest)
  <2>1. path = none \o <<"/">> \o rest
    <3>1. path = <<"/">> \o rest
      BY <1>3, <1>9, <1>10
    <3>2. <<>> \o <<"/">> \o rest = <<"/">> \o rest
      BY <1>3, <1>4
    <3> QED
      BY <3>1, <3>2
  <2>2. none \o <<"/">> \o t = <<"/">> \o t
    BY <1>4
  <2> HIDE DEF none, t
  <2>3. none \in Seq(Chars) /\ Tokens(none) = <<>>
    BY TokensOfNone, <1>4 DEF none
  <2>4. \A s \in Seq(Chars) : Tokens(none \o <<"/">> \o s) = Tokens(s)
    <3> SUFFICES ASSUME NEW s \in Seq(Chars) PROVE Tokens(none \o <<"/">> \o s) = Tokens(s)
      OBVIOUS
    <3>1. Tokens(none \o <<"/">> \o s) = <<>> \o Tokens(s) /\ Tokens(s) \in Seq(Words)
      BY <2>3, TokensConcat, TokensAre
    <3> QED
      BY <3>1
  <2>5. g = Tokens(rest)
    BY <1>1, <1>3, <2>1, <2>4
  <2>6. ASSUME rest # <<>>, Head(rest) = "/" PROVE g = Tokens(t)
    <3>1. t \in Seq(Chars) /\ rest = <<"/">> \o t
      BY <1>7, <2>6 DEF t
    <3> QED
      BY <2>2, <2>4, <2>5, <3>1
  <2>7. g = <<>> \o g
    OBVIOUS
  <2> QED
    BY <1>10, <2>5, <2>6, <2>7 DEF t
<1> QED
  BY <1>8, <1>10

\* One of the mounts that match has the longest prefix.
LEMMA LongestMount ==
    ASSUME NEW S \in SUBSET DOMAIN Mounts, S # {}, NEW n \in Nat, \A i \in S : Len(Mounts[i]) <= n
    PROVE  \E i \in S : \A j \in S : Len(Mounts[j]) <= Len(Mounts[i])
<1> DEFINE R == OpToRel(<, Nat)
           T == {n - Len(Mounts[i]) : i \in S}
<1>1. \A i \in S : Len(Mounts[i]) \in Nat
  BY MountsAssumption DEF MountsAssumption
<1>2. T \subseteq Nat /\ T # {}
  BY <1>1
<1>3. \A i \in S : n - Len(Mounts[i]) \in T
  OBVIOUS
<1>4. \A t \in T : \E i \in S : t = n - Len(Mounts[i])
  OBVIOUS
<1>5. IsWellFoundedOn(R, Nat)
  BY NatLessThanWellFounded
<1>6. \A y, x \in Nat : y < x => <<y, x>> \in R
  BY DEF OpToRel
<1> HIDE DEF R, T
<1>7. PICK x \in T : \A y \in T : ~(<<y, x>> \in R)
  BY <1>2, <1>5, WFMin
<1>8. PICK i \in S : x = n - Len(Mounts[i])
  BY <1>4
<1>9. ASSUME NEW j \in S PROVE Len(Mounts[j]) <= Len(Mounts[i])
  <2>1. n - Len(Mounts[j]) \in T /\ n - Len(Mounts[j]) \in Nat /\ x \in Nat
    BY <1>2, <1>3
  <2>2. ~(n - Len(Mounts[j]) < x)
    BY <1>6, <1>7, <2>1
  <2> QED
    BY <1>1, <1>8, <2>2
<1> QED
  BY <1>9

\* The invariant and the order by length pick the mount with the most components.
LEMMA PathMounts == PathInv => MountsGoByComponents
<1> SUFFICES ASSUME PathInv PROVE MountsGoByComponents
  OBVIOUS
<1>1. PICK g \in Seq(Proper) : current_path = Joined(g)
  BY NormalPath
<1>2. g \in Seq(Words)
  <2>1. Proper \subseteq Words
    BY DEF Proper
  <2> HIDE DEF Words, Proper
  <2> QED
    BY <2>1
<1> DEFINE path == current_path
           M(i) == Tokens(Mounts[i])
           found == {i \in DOMAIN Mounts : Matches(path, Mounts[i])}
           within == {i \in DOMAIN Mounts : IsPrefix(M(i), Tokens(path))}
           best == CHOOSE i \in found : \A j \in found : Len(Mounts[j]) <= Len(Mounts[i])
           rest == SubSeq(path, Len(Mounts[best]) + 1, Len(path))
           got == fs_get_driver(path)
<1>3. ASSUME NEW i \in DOMAIN Mounts
      PROVE  Mounts[i] \in Seq(Chars) /\ M(i) \in Seq(Words) /\ Mounts[i] = Joined(M(i))
  <2>1. Mounts[i] \in Seq(Chars) /\ Mounts[i] = Joined(M(i))
    BY MountsAssumption DEF MountsAssumption
  <2> QED
    BY <2>1, TokensAre
<1>4. path = Joined(g) /\ path \in Seq(Chars) /\ Tokens(path) = g
  BY <1>1, <1>2, TokensJoined
<1>5. \A i \in DOMAIN Mounts : Matches(path, Mounts[i]) <=> IsPrefix(M(i), g)
  BY <1>2, <1>3, <1>4, MatchesIs
<1>6. found = within
  BY <1>4, <1>5
<1>7. found # {}
  <2>1. PICK i \in DOMAIN Mounts : Mounts[i] = <<"/">>
    BY MountsAssumption DEF MountsAssumption
  <2>2. M(i) = <<>>
    BY <2>1, TokensOfNone
  <2>3. <<>> \in Seq(Words) /\ g = <<>> \o g
    BY <1>2
  <2>4. IsPrefix(<<>>, g)
    BY <1>2, <2>3, PrefixIs
  <2> QED
    BY <1>5, <2>2, <2>4
<1>8. best \in found /\ \A j \in found : Len(Mounts[j]) <= Len(Mounts[best])
  <2>1. Len(path) \in Nat /\ found \in SUBSET DOMAIN Mounts
    BY <1>4
  <2>2. \A i \in found : Len(Mounts[i]) <= Len(path)
    BY DEF Matches, IsPrefix
  <2> HIDE DEF found, path
  <2>3. \E i \in found : \A j \in found : Len(Mounts[j]) <= Len(Mounts[i])
    BY <1>7, <2>1, <2>2, LongestMount
  <2> QED
    BY <2>3
<1>9. got.driver = best /\ got.path = IF rest # <<>> /\ Head(rest) = "/" THEN Tail(rest) ELSE rest
  BY DEF fs_get_driver
<1> HIDE DEF path, best, got
<1>10. best \in DOMAIN Mounts /\ IsPrefix(M(best), g) /\ M(best) \in Seq(Words)
  BY <1>3, <1>5, <1>8
<1>11. g = M(best) \o Tokens(got.path)
  <2> DEFINE m == M(best)
  <2>1. rest = SubSeq(Joined(g), Len(Joined(m)) + 1, Len(Joined(g)))
    BY <1>3, <1>4, <1>10
  <2> HIDE DEF m, rest
  <2>2. m \in Seq(Words) /\ IsPrefix(m, g)
    BY <1>10 DEF m
  <2>3. g = m \o Tokens(IF rest # <<>> /\ Head(rest) = "/" THEN Tail(rest) ELSE rest)
    BY <1>2, <2>1, <2>2, RestIs
  <2> QED
    BY <1>9, <2>3 DEF m
<1>12. ASSUME NEW i \in within PROVE Len(M(i)) <= Len(M(best))
  <2> DEFINE a == M(i)
             b == M(best)
             x == Rest(g, Len(a))
             y == Rest(g, Len(b))
  <2>1. i \in DOMAIN Mounts /\ i \in found /\ IsPrefix(M(i), g)
    BY <1>4, <1>6
  <2>2. a \in Seq(Words) /\ b \in Seq(Words) /\ Mounts[i] = Joined(a) /\ Mounts[best] = Joined(b)
    BY <1>3, <1>10, <2>1
  <2>3. Len(Joined(a)) <= Len(Joined(b))
    BY <1>8, <2>1, <2>2
  <2> HIDE DEF a, b
  <2>4. IsPrefix(a, g) /\ IsPrefix(b, g)
    BY <1>10, <2>1 DEF a, b
  <2>5. /\ x \in Seq(Words) /\ g = a \o x /\ y \in Seq(Words) /\ g = b \o y
        /\ Len(a) <= Len(g) /\ Len(b) <= Len(g)
    BY <1>2, <2>2, <2>4, PrefixIs
  <2> HIDE DEF x, y
  <2>6. ASSUME Len(a) > Len(b) PROVE FALSE
    <3> DEFINE r == Rest(a, Len(b))
    <3>1. IsPrefix(b, a)
      <4>1. \A k \in 1 .. Len(b) : a[k] = b[k]
        <5> SUFFICES ASSUME NEW k \in 1 .. Len(b) PROVE a[k] = b[k]
          OBVIOUS
        <5>1. k \in 1 .. Len(a)
          BY <2>2, <2>6
        <5>2. (a \o x)[k] = a[k]
          <6>1. Catenates(a \o x, a, x)
            BY <2>2, <2>5, ConcatIs
          <6> QED
            BY <5>1, <6>1 DEF Catenates
        <5>3. (b \o y)[k] = b[k]
          <6>1. Catenates(b \o y, b, y)
            BY <2>2, <2>5, ConcatIs
          <6> QED
            BY <6>1 DEF Catenates
        <5> QED
          BY <2>5, <5>2, <5>3
      <4>2. Len(b) <= Len(a) /\ Len(b) \in Nat /\ Len(a) \in Nat
        BY <2>2, <2>6
      <4> DEFINE n == Len(b)
                 u == SubSeq(b, 1, n)
                 v == SubSeq(a, 1, n)
      <4>3. u \in Seq(Words) /\ v \in Seq(Words) /\ Len(u) = n /\ Len(v) = n
            /\ \A k \in 1 .. n : u[k] = b[k] /\ v[k] = a[k]
        BY <2>2, <4>2
      <4> HIDE DEF u, v
      <4>4. \A k \in 1 .. Len(u) : u[k] = v[k]
        BY <4>1, <4>3
      <4>5. u = v
        BY <4>3, <4>4, SeqEqual
      <4> QED
        BY <4>2, <4>5 DEF IsPrefix, u, v
    <3>2. r \in Seq(Words) /\ a = b \o r
      BY <2>2, <3>1, PrefixIs
    <3> HIDE DEF r
    <3>3. r # <<>>
      BY <2>2, <2>6, <3>2
    <3>4. Len(Joined(b)) < Len(Joined(a))
      BY <2>2, <3>2, <3>3, ShorterJoined
    <3>5. Joined(a) \in Seq(Chars) /\ Joined(b) \in Seq(Chars)
      BY <2>2, TokensJoined
    <3> QED
      BY <2>3, <3>4, <3>5
  <2>7. Len(a) \in Nat /\ Len(b) \in Nat
    BY <2>2
  <2> QED
    BY <2>6, <2>7 DEF a, b
<1>13. got.driver \in within
  BY <1>6, <1>8, <1>9
<1>14. \A i \in within : Len(Tokens(Mounts[i])) <= Len(Tokens(Mounts[got.driver]))
  BY <1>9, <1>12
<1>15. Tokens(path) = Tokens(Mounts[got.driver]) \o Tokens(got.path)
  BY <1>4, <1>9, <1>11
<1> QED
  BY <1>13, <1>14, <1>15 DEF MountsGoByComponents, path, got

\* Naming something from the directory that fs_change_dir went to is naming it
\* from the old one after its argument: fs_resolve_path neither loses a
\* component nor keeps a dot, whatever dots and slashes a string has.
THEOREM FilesNames == FilesSpec => []NamesFollowDirectory
<1>1. FilesInit => PathInv
  BY PathInitInv DEF FilesInit
<1>2. PathInv /\ [FilesNext]_<<vars, update, pathVars>> => PathInv'
  BY PathStep DEF FilesNext
<1> QED
  BY <1>1, <1>2, NamesFollow, PTL DEF FilesSpec

\* fs_get_driver finds the mount by whole components, the longest that the path
\* begins with, and the driver gets exactly those that are left.
THEOREM FilesMounts == FilesSpec => []MountsGoByComponents
<1>1. FilesInit => PathInv
  BY PathInitInv DEF FilesInit
<1>2. PathInv /\ [FilesNext]_<<vars, update, pathVars>> => PathInv'
  BY PathStep DEF FilesNext
<1> QED
  BY <1>1, <1>2, PathMounts, PTL DEF FilesSpec
=============================================================================
