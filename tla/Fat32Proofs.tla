------------------------------ MODULE Fat32Proofs ------------------------------
(***************************************************************************)
(* Proofs about Fat32: the disk keeps its type, and the copies of the      *)
(* table agree but for what a stop left, whatever a call does with any     *)
(* directory.  In the middle of a call a volume is Good: the tables of the *)
(* disk differ where they did before the call and nowhere else, and those  *)
(* of each disk on the way in at most one cluster more.                    *)
(***************************************************************************)
EXTENDS Fat32, FiniteSetTheorems, SequenceTheorems, WellFoundedInduction, TLAPS

\* What is in a table, in an entry, in a cluster and on a disk.
Cells == Clusters \cup {0, EOC}
Mains == [kind : {"main"}, short : Names \cup {".", ".."}, dir : BOOLEAN,
          cluster : Clusters \cup {0}, size : Nat]
SlotSet == {Unused, Gone, Lfn} \cup Mains
DirSectors == [0 .. Slots - 1 -> SlotSet]
Contents == Values \cup {Junk} \cup DirSectors
Disks == [fat : [1 .. Copies -> [Clusters -> Cells]], data : [Clusters -> Contents]]
Volumes == [d : Disks, via : SUBSET Disks]

\* The copies of a table differ from the first in given clusters only.
Within(d, D) ==
    \A i \in 1 .. Copies : \A a \in Clusters : d.fat[i][a] # d.fat[1][a] => a \in D[i]

\* The same, but for one cluster whose entry is being written.
Half(d, D) ==
    \E h \in Clusters : \A i \in 1 .. Copies : \A a \in Clusters :
        d.fat[i][a] # d.fat[1][a] => a \in D[i] \cup {h}

\* A volume in the middle of a call.
Good(s, D) == s \in Volumes /\ Within(s.d, D) /\ \A x \in s.via : Half(x, D)

-----------------------------------------------------------------------------
(* Writing *)

\* What differs nowhere else differs in at most one cluster more.
LEMMA WithinHalf == ASSUME NEW d, NEW D, Within(d, D) PROVE Half(d, D)
  BY ClustersAssumption DEF ClustersAssumption, Within, Half

\* A disk is put in the place of another.
LEMMA PutIs ==
    ASSUME NEW s \in Volumes, NEW d \in Disks
    PROVE  Put(s, d) \in Volumes /\ Put(s, d).d = d /\ Put(s, d).via = s.via \cup {s.d}
  BY DEF Put, Volumes

\* A disk whose tables are no worse follows.
LEMMA PutGood ==
    ASSUME NEW D, NEW s, Good(s, D), NEW d \in Disks, Within(d, D)
    PROVE  Good(Put(s, d), D)
<1>1. s \in Volumes /\ Within(s.d, D) /\ \A x \in s.via : Half(x, D)
  BY DEF Good
<1>2. Half(s.d, D)
  BY <1>1, WithinHalf
<1>3. Put(s, d) \in Volumes /\ Put(s, d).d = d /\ Put(s, d).via = s.via \cup {s.d}
  BY <1>1, PutIs
<1>4. \A x \in Put(s, d).via : Half(x, D)
  BY <1>1, <1>2, <1>3
<1> QED
  BY <1>3, <1>4 DEF Good

\* A disk with another content of a cluster; one that it does not have changes
\* nothing.
LEMMA DataPut ==
    ASSUME NEW d \in Disks, NEW c, NEW content, c \in Clusters => content \in Contents,
           NEW e, e = [d EXCEPT !.data[c] = content]
    PROVE  e \in Disks /\ e.fat = d.fat
<1> DEFINE data == [d.data EXCEPT ![c] = content]
<1>1. data \in [Clusters -> Contents]
  BY DEF Disks
<1>2. e = [d EXCEPT !.data = data]
  BY Zenon
<1> HIDE DEF data
<1> QED
  BY <1>1, <1>2 DEF Disks

\* A sector is written.
LEMMA SectorGood ==
    ASSUME NEW D, NEW s, Good(s, D), NEW c, NEW content, c \in Clusters => content \in Contents
    PROVE  Good(ata_write_sector(s, c, content), D)
<1> DEFINE d == [s.d EXCEPT !.data[c] = content]
<1>1. s.d \in Disks /\ Within(s.d, D)
  BY DEF Good, Volumes
<1>2. d \in Disks /\ d.fat = s.d.fat
  BY <1>1, DataPut, SMTT(30)
<1>3. Within(d, D)
  BY <1>1, <1>2 DEF Within
<1>4. ata_write_sector(s, c, content) = Put(s, d)
  BY DEF ata_write_sector
<1> HIDE DEF d
<1> QED
  BY <1>2, <1>3, <1>4, PutGood

\* A disk with another value in one copy of the table.
EntryPut(d, i, cluster, value, e) ==
    /\ e \in Disks /\ e.data = d.data
    /\ \A j \in 1 .. Copies : \A a \in Clusters :
          e.fat[j][a] = IF j = i /\ a = cluster THEN value ELSE d.fat[j][a]
PutOf(d, i, cluster, value) == [d EXCEPT !.fat[i][cluster] = value]

\* That is what one of the writes does.
LEMMA FatPut ==
    ASSUME NEW d \in Disks, NEW i \in 1 .. Copies, NEW cluster, NEW value \in Cells
    PROVE  EntryPut(d, i, cluster, value, PutOf(d, i, cluster, value))
<1> DEFINE row == [d.fat[i] EXCEPT ![cluster] = value]
           fat == [d.fat EXCEPT ![i] = row]
           e == PutOf(d, i, cluster, value)
<1>1. d.fat \in [1 .. Copies -> [Clusters -> Cells]] /\ d.fat[i] \in [Clusters -> Cells]
  BY DEF Disks
<1>2. /\ row \in [Clusters -> Cells]
      /\ \A a \in Clusters : row[a] = IF a = cluster THEN value ELSE d.fat[i][a]
  BY <1>1
<1>3. e = [d EXCEPT !.fat = fat]
  BY Zenon DEF PutOf
<1> HIDE DEF row, e
<1>4. /\ fat \in [1 .. Copies -> [Clusters -> Cells]]
      /\ \A j \in 1 .. Copies : fat[j] = IF j = i THEN row ELSE d.fat[j]
  BY <1>1, <1>2
<1> HIDE DEF fat
<1>5. e \in Disks /\ e.data = d.data /\ e.fat = fat
  BY <1>3, <1>4 DEF Disks
<1>6. ASSUME NEW j \in 1 .. Copies, NEW a \in Clusters
      PROVE  e.fat[j][a] = IF j = i /\ a = cluster THEN value ELSE d.fat[j][a]
  <2>1. CASE j = i
    BY <1>2, <1>4, <1>5, <2>1
  <2>2. CASE j # i
    BY <1>4, <1>5, <2>2
  <2> QED
    BY <2>1, <2>2
<1>7. EntryPut(d, i, cluster, value, e)
  BY <1>5, <1>6 DEF EntryPut
<1> QED
  BY <1>7 DEF e

\* The first k copies have the value; elsewhere the copies differ as before.
Linked(c, seq, k, t) ==
    /\ t \in Volumes
    /\ \A x \in t.via : Half(x, c.D)
    /\ \A i \in 1 .. Copies : \A a \in Clusters :
          t.d.fat[i][a] # t.d.fat[1][a] => a \in c.D[i] \/ (k > 0 /\ a = c.cluster)
    /\ \A i \in 1 .. Copies : i <= k /\ c.cluster \in Clusters => t.d.fat[i][c.cluster] = c.value

LinkTo(c, t, i) == Put(t, [t.d EXCEPT !.fat[i][c.cluster] = c.value])
Links == INSTANCE SequenceLemmas WITH Body <- LinkTo, Kept <- Linked

\* One more copy is written.
LEMMA LinkStep ==
    ASSUME NEW c, c.value \in Cells, NEW seq, NEW k \in 0 .. Copies - 1, NEW t, Linked(c, seq, k, t)
    PROVE  Linked(c, seq, k + 1, LinkTo(c, t, k + 1))
<1> DEFINE d == [t.d EXCEPT !.fat[k + 1][c.cluster] = c.value]
           u == LinkTo(c, t, k + 1)
<1>1. t \in Volumes /\ t.d \in Disks /\ k \in Nat /\ k + 1 \in 1 .. Copies /\ Copies \in Nat \ {0}
  BY LayoutAssumption DEF LayoutAssumption, Linked, Volumes
<1>2. /\ d \in Disks
      /\ \A j \in 1 .. Copies : \A a \in Clusters :
            d.fat[j][a] = IF j = k + 1 /\ a = c.cluster THEN c.value ELSE t.d.fat[j][a]
  <2>1. EntryPut(t.d, k + 1, c.cluster, c.value, PutOf(t.d, k + 1, c.cluster, c.value))
    BY <1>1, FatPut
  <2>2. d = PutOf(t.d, k + 1, c.cluster, c.value)
    BY DEF PutOf
  <2> HIDE DEF d
  <2> QED
    BY <2>1, <2>2 DEF EntryPut
<1>3. u = Put(t, d)
  BY DEF LinkTo
<1> HIDE DEF d, u
<1>4. u \in Volumes /\ u.d = d /\ u.via = t.via \cup {t.d}
  BY <1>1, <1>2, <1>3, PutIs
<1>5. Half(t.d, c.D)
  <2>1. CASE c.cluster \in Clusters
    BY <2>1 DEF Linked, Half
  <2>2. CASE c.cluster \notin Clusters
    <3>1. Within(t.d, c.D)
      BY <2>2 DEF Linked, Within
    <3> QED
      BY <3>1, WithinHalf
  <2> QED
    BY <2>1, <2>2
<1>6. \A x \in u.via : Half(x, c.D)
  BY <1>4, <1>5 DEF Linked
<1>7. ASSUME NEW i \in 1 .. Copies, NEW a \in Clusters, u.d.fat[i][a] # u.d.fat[1][a], a # c.cluster
      PROVE  a \in c.D[i]
  <2>1. 1 \in 1 .. Copies
    BY <1>1
  <2>2. u.d.fat[i][a] = t.d.fat[i][a] /\ u.d.fat[1][a] = t.d.fat[1][a]
    BY <1>2, <1>4, <1>7, <2>1
  <2> QED
    BY <1>7, <2>2 DEF Linked
<1>8. ASSUME NEW i \in 1 .. Copies, i <= k + 1, c.cluster \in Clusters
      PROVE  u.d.fat[i][c.cluster] = c.value
  <2>1. i = k + 1 \/ i <= k
    BY <1>1, <1>8
  <2> QED
    BY <1>2, <1>4, <1>8, <2>1 DEF Linked
<1>9. k + 1 > 0
  BY <1>1
<1>10. \A i \in 1 .. Copies : \A a \in Clusters :
          u.d.fat[i][a] # u.d.fat[1][a] => a \in c.D[i] \/ (k + 1 > 0 /\ a = c.cluster)
  BY <1>7, <1>9
<1>11. \A i \in 1 .. Copies : i <= k + 1 /\ c.cluster \in Clusters => u.d.fat[i][c.cluster] = c.value
  BY <1>8
<1>12. Linked(c, seq, k + 1, u)
  BY <1>4, <1>6, <1>10, <1>11 DEF Linked
<1> QED
  BY <1>12 DEF u

\* All copies of an entry are written, one after the other.
LEMMA EntryGood ==
    ASSUME NEW D, NEW s, Good(s, D), NEW cluster, NEW value \in Cells
    PROVE  Good(fat32_write_fat_entry(s, cluster, value), D)
<1> DEFINE c == [D |-> D, cluster |-> cluster, value |-> value]
           seq == [i \in 1 .. Copies |-> i]
           r == fat32_write_fat_entry(s, cluster, value)
<1>0. c.D = D /\ c.cluster = cluster /\ c.value = value
  OBVIOUS
<1>1. Copies \in Nat \ {0} /\ DOMAIN seq = 1 .. Copies /\ \A i \in 1 .. Copies : seq[i] = i
  BY LayoutAssumption DEF LayoutAssumption
<1> HIDE DEF c
<1>8. r = fat32_write_fat_entry(s, c.cluster, c.value)
  BY <1>0
<1>2. r = Links!Fold(c, s, seq)
  BY <1>8, Zenon DEF fat32_write_fat_entry, LinkTo, Links!Fold, Links!MapThenFoldSet, Links!Largest,
     FoldLeft, MapThenFoldSet, Max
<1> HIDE DEF seq, r
<1>3. Linked(c, seq, 0, s)
  BY <1>0, <1>1 DEF Linked, Good, Within
<1>4. ASSUME NEW i \in 0 .. Copies - 1, NEW b, Linked(c, seq, i, b)
      PROVE  Linked(c, seq, i + 1, LinkTo(c, b, seq[i + 1]))
  <2>1. seq[i + 1] = i + 1
    BY <1>1
  <2>2. Linked(c, seq, i + 1, LinkTo(c, b, i + 1))
    BY <1>0, <1>4, LinkStep
  <2> QED
    BY <2>1, <2>2
<1>5. Linked(c, seq, Copies, r)
  BY <1>1, <1>2, <1>3, <1>4, Links!LoopRule
<1>6. Within(r.d, D)
  <2> SUFFICES ASSUME NEW i \in 1 .. Copies, NEW a \in Clusters, r.d.fat[i][a] # r.d.fat[1][a]
               PROVE  a \in D[i]
    BY DEF Within
  <2>1. 1 \in 1 .. Copies /\ i <= Copies /\ 1 <= Copies
    BY <1>1
  <2>2. CASE a = cluster
    <3>1. r.d.fat[i][a] = value /\ r.d.fat[1][a] = value
      BY <1>0, <1>5, <2>1, <2>2 DEF Linked
    <3> QED
      BY <3>1
  <2>3. CASE a # cluster
    BY <1>0, <1>5, <2>3 DEF Linked
  <2> QED
    BY <2>2, <2>3
<1>7. Good(r, D)
  BY <1>0, <1>5, <1>6 DEF Linked, Good
<1> QED
  BY <1>7 DEF r

-----------------------------------------------------------------------------
(* Reading *)

\* The least of some numbers is one of them.
LEMMA MinIn == ASSUME NEW S \in SUBSET Nat, S # {} PROVE Min(S) \in S /\ \A y \in S : Min(S) <= y
<1> DEFINE R == OpToRel(<, Nat)
<1>1. IsWellFoundedOn(R, Nat)
  BY NatLessThanWellFounded
<1>2. \A y, x \in S : y < x => <<y, x>> \in R
  BY DEF OpToRel
<1> HIDE DEF R
<1>3. PICK x \in S : \A y \in S : ~(<<y, x>> \in R)
  BY <1>1, WFMin
<1>4. \A y \in S : y \in Nat /\ ~(y < x)
  BY <1>2, <1>3
<1>5. \E z \in S : \A y \in S : z <= y
  BY <1>4
<1> QED
  BY <1>5 DEF Min

\* What a directory's content is.
LEMMA SectorIs ==
    ASSUME NEW d \in Disks, NEW c \in Clusters
    PROVE  Sector(d, c) \in DirSectors
<1>1. d.data[c] \in Contents
  BY DEF Disks
<1>2. Zeroed \in DirSectors
  BY DEF Zeroed, DirSectors, SlotSet
<1> QED
  BY <1>1, <1>2 DEF Sector, Contents

\* A chain so far.
Chained(c, seq, k, b) == b \in Seq(Clusters) /\ b # <<>>
ChainTo(c, b, k) == IF c.d.fat[1][Last(b)] \in Clusters THEN Append(b, c.d.fat[1][Last(b)]) ELSE b
Chains == INSTANCE SequenceLemmas WITH Body <- ChainTo, Kept <- Chained

\* The number of clusters is finite.
LEMMA ClusterCount == Cardinality(Clusters) \in Nat
  BY ClustersAssumption, FS_CardinalityType DEF ClustersAssumption

\* A chain is of clusters of the disk.
LEMMA ChainIs ==
    ASSUME NEW d, NEW cluster \in Clusters \cup {0}
    PROVE  Chain(d, cluster) \in Seq(Clusters)
<1> DEFINE c == [d |-> d]
           n == Cardinality(Clusters)
           seq == [k \in 1 .. n |-> k]
           r == Chain(d, cluster)
<1>1. CASE cluster = 0
  <2>1. r = <<>>
    BY <1>1 DEF Chain
  <2> QED
    BY <2>1
<1>2. CASE cluster # 0
  <2>1. c.d = d
    OBVIOUS
  <2> HIDE DEF c
  <2>2. r = Chain(c.d, cluster)
    BY <2>1
  <2>3. r = Chains!Recursive(c, <<cluster>>, n)[n]
    BY <2>2, <1>2, Zenon DEF Chain, ChainTo, Chains!Recursive
  <2>4. n \in Nat
    BY ClusterCount
  <2> HIDE DEF r, n
  <2>5. Chained(c, seq, 0, <<cluster>>)
    BY <1>2 DEF Chained
  <2>6. ASSUME NEW i \in 0 .. n - 1, NEW b, Chained(c, seq, i, b)
        PROVE  Chained(c, seq, i + 1, ChainTo(c, b, i + 1))
    <3> DEFINE next == c.d.fat[1][Last(b)]
    <3>1. b \in Seq(Clusters) /\ b # <<>>
      BY <2>6 DEF Chained
    <3>2. ASSUME next \in Clusters PROVE Append(b, next) \in Seq(Clusters) /\ Append(b, next) # <<>>
      <4> HIDE DEF next
      <4> QED
        BY <3>1, <3>2, AppendProperties, EmptySeq
    <3> QED
      BY <3>1, <3>2 DEF Chained, ChainTo
  <2> HIDE DEF seq
  <2>7. \A i \in 0 .. n : Chained(c, seq, i, Chains!Recursive(c, <<cluster>>, n)[i])
    BY <2>4, <2>5, <2>6, Chains!RecursionRule DEF seq
  <2>8. n \in 0 .. n
    BY <2>4
  <2> QED
    BY <2>3, <2>7, <2>8 DEF Chained, r
<1> QED
  BY <1>1, <1>2

\* The places of a directory and what they hold.
LEMMA EntriesAre ==
    ASSUME NEW d \in Disks, NEW dir \in Clusters \cup {0}
    PROVE  /\ DOMAIN Entries(d, dir) \subseteq Nat
           /\ \A p \in DOMAIN Entries(d, dir) : Entries(d, dir)[p] \in SlotSet
<1> DEFINE chain == Chain(d, dir)
           n == Len(chain)
           e == Entries(d, dir)
<1>1. chain \in Seq(Clusters)
  BY ChainIs
<1>2. n \in Nat /\ DOMAIN chain = 1 .. n
  BY <1>1, LenProperties
<1>3. e = [p \in 0 .. (n * Slots) - 1 |-> Sector(d, chain[(p \div Slots) + 1])[p % Slots]]
  BY DEF Entries
<1> HIDE DEF chain, e, n
<1>4. Slots \in Nat \ {0}
  BY LayoutAssumption DEF LayoutAssumption
<1>5. ASSUME NEW p \in 0 .. (n * Slots) - 1 PROVE e[p] \in SlotSet
  <2>1. p \in Nat /\ p < n * Slots
    BY <1>2, <1>4
  <2>2. p % Slots \in 0 .. Slots - 1 /\ p \div Slots \in Nat
        /\ p = (Slots * (p \div Slots)) + (p % Slots)
    BY <1>4, <2>1
  <2>3. p \div Slots < n
    BY <1>2, <1>4, <2>1, <2>2, Z3
  <2>4. chain[(p \div Slots) + 1] \in Clusters
    BY <1>1, <1>2, <2>2, <2>3, ElementOfSeq
  <2>5. Sector(d, chain[(p \div Slots) + 1]) \in DirSectors
    BY <2>4, SectorIs
  <2>6. Sector(d, chain[(p \div Slots) + 1])[p % Slots] \in SlotSet
    BY <2>2, <2>5 DEF DirSectors
  <2> QED
    BY <1>3, <2>6
<1>6. DOMAIN e \subseteq Nat /\ \A p \in DOMAIN e : e[p] \in SlotSet
  BY <1>3, <1>5
<1> QED
  BY <1>6 DEF e

\* An entry that is found is one.
LEMMA FoundIs ==
    ASSUME NEW d \in Disks, NEW dir \in Clusters \cup {0}, NEW name,
           Find(Entries(d, dir), name) # -1
    PROVE  Entries(d, dir)[Find(Entries(d, dir), name)] \in Mains
<1> DEFINE e == Entries(d, dir)
           found == {p \in Seen(e) : e[p].short = name}
<1>1. DOMAIN e \subseteq Nat /\ \A p \in DOMAIN e : e[p] \in SlotSet
  BY EntriesAre
<1>2. Find(e, name) = IF found = {} THEN -1 ELSE Min(found)
  BY DEF Find
<1>3. found \subseteq DOMAIN e /\ \A p \in found : e[p].kind = "main"
  BY DEF Seen
<1>4. found # {} /\ Find(e, name) = Min(found)
  BY <1>2
<1> HIDE DEF found, e
<1>5. Min(found) \in found
  BY <1>1, <1>3, <1>4, MinIn
<1>6. \A x \in SlotSet : x.kind = "main" => x \in Mains
  BY DEF SlotSet, Unused, Gone, Lfn
<1>7. e[Find(e, name)] \in Mains
  BY <1>1, <1>3, <1>4, <1>5, <1>6
<1> QED
  BY <1>7 DEF e

\* So is what has a name, if it is anything.
LEMMA NamedIs ==
    ASSUME NEW d \in Disks, NEW dir \in Clusters \cup {0}, NEW name
    PROVE  EntryOf(d, dir, name) \in {Unused} \cup Mains
  BY FoundIs DEF EntryOf, Named

\* The cluster below an entry.
LEMMA BelowIs ==
    ASSUME NEW e \in {Unused} \cup Mains
    PROVE  ClusterBelow(e) \in Clusters \cup {0}
  BY DEF ClusterBelow, IsDir, Unused, Mains

\* The directory of a prefix of a path.
Dived(c, seq, k, b) == b \in Clusters \cup {0}
DiveTo(c, b, l) == ClusterBelow(EntryOf(c.d, b, c.path[l]))
Dives == INSTANCE SequenceLemmas WITH Body <- DiveTo, Kept <- Dived

\* The directory of a path is a cluster, or none.
LEMMA DirIs ==
    ASSUME NEW d \in Disks, NEW path \in Paths
    PROVE  fat32_find_dir_cluster(d, path) \in Clusters \cup {0}
<1> DEFINE c == [d |-> d, path |-> path]
           n == Len(c.path)
           seq == [k \in 1 .. n |-> k]
           r == fat32_find_dir_cluster(c.d, c.path)
<1>1. c.d = d /\ c.path = path
  OBVIOUS
<1> HIDE DEF c
<1>2. n \in Nat /\ n > 0 /\ path # <<>>
  <2>1. PICK l \in 1 .. MaxDepth : path \in [1 .. l -> Names]
    BY DEF Paths
  <2>2. l \in Nat /\ l > 0
    BY BoundsAssumption DEF BoundsAssumption
  <2>3. path \in Seq(Names) /\ Len(path) = l
    BY <2>1, <2>2, SeqDef
  <2> QED
    BY <1>1, <2>2, <2>3, EmptySeq
<1>3. r = Dives!Recursive(c, ROOT, n)[n - 1]
  BY <1>1, <1>2, Zenon DEF fat32_find_dir_cluster, DiveTo, Dives!Recursive
<1> HIDE DEF r, n
<1>4. Dived(c, seq, 0, ROOT)
  BY ClustersAssumption DEF ClustersAssumption, Dived
<1>5. ASSUME NEW i \in 0 .. n - 1, NEW b, Dived(c, seq, i, b)
      PROVE  Dived(c, seq, i + 1, DiveTo(c, b, i + 1))
  <2>1. EntryOf(c.d, b, c.path[i + 1]) \in {Unused} \cup Mains
    BY <1>1, <1>5, NamedIs DEF Dived
  <2> QED
    BY <2>1, BelowIs DEF Dived, DiveTo
<1> HIDE DEF seq
<1>6. \A i \in 0 .. n : Dived(c, seq, i, Dives!Recursive(c, ROOT, n)[i])
  BY <1>2, <1>4, <1>5, Dives!RecursionRule DEF seq
<1>7. n - 1 \in 0 .. n
  BY <1>2
<1> QED
  BY <1>1, <1>3, <1>6, <1>7 DEF Dived, r

-----------------------------------------------------------------------------
(* Taking and giving back clusters *)

\* A free cluster of the disk, or none.
LEMMA FreeIs ==
    ASSUME NEW d
    PROVE  fat32_find_free_cluster(d) \in Clusters \cup {0}
<1> DEFINE free == {c \in Clusters : d.fat[1][c] = 0}
<1>1. free \subseteq Clusters /\ Clusters \subseteq Nat
  BY ClustersAssumption DEF ClustersAssumption
<1>2. fat32_find_free_cluster(d) = IF free = {} THEN 0 ELSE Min(free)
  BY DEF fat32_find_free_cluster
<1> HIDE DEF free
<1>3. free # {} => Min(free) \in free
  BY <1>1, MinIn
<1> QED
  BY <1>1, <1>2, <1>3

\* A cluster that was taken, with the volume.
Took(a, D) == Good(a.s, D) /\ a.cluster \in Clusters \cup {0}

\* A cluster is taken, zeroed and linked.
LEMMA AllocateGood ==
    ASSUME NEW D, NEW s, Good(s, D), NEW previous
    PROVE  Took(fat32_allocate_cluster(s, previous), D)
<1> DEFINE c == fat32_find_free_cluster(s.d)
           marked == fat32_write_fat_entry(s, c, EOC)
           zeroed == ata_write_sector(marked, c, Zeroed)
           linked == fat32_write_fat_entry(zeroed, previous, c)
           a == fat32_allocate_cluster(s, previous)
<1>1. a.s = (IF c = 0 THEN s ELSE IF previous = 0 THEN zeroed ELSE linked) /\ a.cluster = c
  BY DEF fat32_allocate_cluster
<1>2. c \in Clusters \cup {0}
  BY FreeIs
<1>3. c \in Cells /\ EOC \in Cells /\ Zeroed \in Contents
  BY <1>2 DEF Cells, Zeroed, Contents, DirSectors, SlotSet
<1> HIDE DEF c
<1>4. Good(marked, D)
  BY <1>3, EntryGood
<1> HIDE DEF marked
<1>5. Good(zeroed, D)
  BY <1>3, <1>4, SectorGood
<1> HIDE DEF zeroed
<1>6. Good(linked, D)
  BY <1>3, <1>5, EntryGood
<1> HIDE DEF linked, a
<1>7. Took(a, D)
  BY <1>1, <1>2, <1>5, <1>6 DEF Took
<1> QED
  BY <1>7 DEF a

\* A volume that stays good through a loop.
Stays(c, seq, k, t) == Good(t, c.D)
FreeTo(c, t, cluster) == fat32_write_fat_entry(t, cluster, 0)
Frees == INSTANCE SequenceLemmas WITH Body <- FreeTo, Kept <- Stays

\* A chain is given back.
LEMMA FreeChainGood ==
    ASSUME NEW D, NEW s, Good(s, D), NEW cluster \in Clusters \cup {0}
    PROVE  Good(fat32_free_chain(s, cluster), D)
<1> DEFINE c == [D |-> D]
           chain == Chain(s.d, cluster)
           r == fat32_free_chain(s, cluster)
<1>0. c.D = D
  OBVIOUS
<1> HIDE DEF c
<1>1. chain \in Seq(Clusters)
  BY ChainIs
<1>2. r = Frees!Fold(c, s, chain)
  BY Zenon DEF fat32_free_chain, FreeTo, Frees!Fold, Frees!MapThenFoldSet, Frees!Largest,
     FoldLeft, MapThenFoldSet, Max
<1> HIDE DEF r, chain
<1>3. Len(chain) \in Nat /\ DOMAIN chain = 1 .. Len(chain)
  BY <1>1, LenProperties
<1>4. 0 \in Cells
  BY DEF Cells
<1>5. Stays(c, chain, 0, s)
  BY <1>0 DEF Stays
<1>6. ASSUME NEW i \in 0 .. Len(chain) - 1, NEW b, Stays(c, chain, i, b)
      PROVE  Stays(c, chain, i + 1, FreeTo(c, b, chain[i + 1]))
  BY <1>4, <1>6, EntryGood DEF Stays, FreeTo
<1>7. Stays(c, chain, Len(chain), r)
  BY <1>2, <1>3, <1>5, <1>6, Frees!LoopRule
<1> QED
  BY <1>0, <1>7 DEF Stays, r

-----------------------------------------------------------------------------
(* Entries *)

\* A sector with another entry.
LEMMA SlotPut ==
    ASSUME NEW f \in DirSectors, NEW j, NEW x \in SlotSet
    PROVE  [f EXCEPT ![j] = x] \in Contents
  BY DEF DirSectors, Contents

\* A row of new entries.
RowTo(c, t, k) ==
    LET at == PlaceOf(c.chain, c.p, k - 1)
    IN  IF at.cluster \notin Clusters THEN t
        ELSE ata_write_sector(t, at.cluster, [Sector(t.d, at.cluster) EXCEPT ![at.slot] = c.new[k]])
Rows == INSTANCE SequenceLemmas WITH Body <- RowTo, Kept <- Stays

\* The entries of a name, written one by one from a place on.
LEMMA RowGood ==
    ASSUME NEW D, NEW s, Good(s, D), NEW chain, NEW p, NEW new \in Seq(SlotSet)
    PROVE  Good(WriteRow(s, chain, p, new), D)
<1> DEFINE c == [D |-> D, chain |-> chain, p |-> p, new |-> new]
           n == Len(new)
           seq == [k \in DOMAIN c.new |-> k]
           r == WriteRow(s, c.chain, c.p, c.new)
<1>0. c.D = D /\ c.chain = chain /\ c.p = p /\ c.new = new
  OBVIOUS
<1> HIDE DEF c
<1>1. r = Rows!Fold(c, s, seq)
  BY Zenon DEF WriteRow, RowTo, Rows!Fold, Rows!MapThenFoldSet, Rows!Largest,
     FoldLeft, MapThenFoldSet, Max
<1>2. n \in Nat /\ DOMAIN seq = 1 .. n /\ \A k \in 1 .. n : seq[k] = k
  BY <1>0, LenProperties
<1> HIDE DEF seq, r
<1>3. Stays(c, seq, 0, s)
  BY <1>0 DEF Stays
<1>4. ASSUME NEW i \in 0 .. n - 1, NEW b, Stays(c, seq, i, b)
      PROVE  Stays(c, seq, i + 1, RowTo(c, b, seq[i + 1]))
  <2> DEFINE k == i + 1
             at == PlaceOf(c.chain, c.p, k - 1)
             to == [Sector(b.d, at.cluster) EXCEPT ![at.slot] = c.new[k]]
  <2>1. k \in 1 .. n /\ seq[k] = k
    BY <1>2
  <2>2. c.new[k] \in SlotSet
    BY <1>0, <1>2, <2>1, ElementOfSeq
  <2>3. RowTo(c, b, k) = IF at.cluster \notin Clusters THEN b ELSE ata_write_sector(b, at.cluster, to)
    BY DEF RowTo
  <2>4. b.d \in Disks /\ Good(b, D)
    BY <1>0, <1>4 DEF Stays, Good, Volumes
  <2> HIDE DEF k, at
  <2>5. ASSUME at.cluster \in Clusters PROVE Good(ata_write_sector(b, at.cluster, to), D)
    <3>1. Sector(b.d, at.cluster) \in DirSectors
      BY <2>4, <2>5, SectorIs
    <3>2. to \in Contents
      BY <2>2, <3>1, SlotPut
    <3> HIDE DEF to
    <3> QED
      BY <2>4, <3>2, SectorGood
  <2>6. Good(RowTo(c, b, k), D)
    BY <2>3, <2>4, <2>5
  <2> QED
    BY <1>0, <2>1, <2>6 DEF Stays, k
<1>5. Stays(c, seq, n, r)
  BY <1>1, <1>2, <1>3, <1>4, Rows!LoopRule
<1> QED
  BY <1>0, <1>5 DEF Stays, r

\* Or at the beginning of a new cluster.
LEMMA NewClusterGood ==
    ASSUME NEW D, NEW a, Took(a, D), NEW new \in Seq(SlotSet)
    PROVE  Good(InNewCluster(a, new).s, D)
<1> DEFINE to == [j \in 0 .. Slots - 1 |-> IF j < Len(new) THEN new[j + 1] ELSE Unused]
<1>1. to \in Contents
  <2>1. ASSUME NEW j \in 0 .. Slots - 1, j < Len(new) PROVE new[j + 1] \in SlotSet
    <3>1. j + 1 \in 1 .. Len(new)
      BY <2>1, LenProperties, LayoutAssumption DEF LayoutAssumption
    <3> QED
      BY <3>1, ElementOfSeq
  <2>2. Unused \in SlotSet
    BY DEF SlotSet
  <2>3. to \in DirSectors
    BY <2>1, <2>2 DEF DirSectors
  <2> QED
    BY <2>3 DEF Contents
<1>2. InNewCluster(a, new).s = IF a.cluster = 0 THEN a.s ELSE ata_write_sector(a.s, a.cluster, to)
  BY DEF InNewCluster
<1>3. Good(a.s, D)
  BY DEF Took
<1> HIDE DEF to
<1>4. Good(ata_write_sector(a.s, a.cluster, to), D)
  BY <1>1, <1>3, SectorGood
<1> QED
  BY <1>2, <1>3, <1>4

\* Entries are made somewhere in a directory.
LEMMA EntriesGood ==
    ASSUME NEW D, NEW s, Good(s, D), NEW dir, NEW new \in Seq(SlotSet)
    PROVE  Good(fat32_allocate_dir_entries(s, dir, new).s, D)
<1> DEFINE chain == Chain(s.d, dir)
           runs == Runs(Entries(s.d, dir), Len(new))
           r == fat32_allocate_dir_entries(s, dir, new)
<1>1. r = WriteEntries(s, chain, runs, new)
  BY DEF fat32_allocate_dir_entries
<1> HIDE DEF chain, runs
<1>2. Good(WriteRow(s, chain, Min(runs), new), D)
  BY RowGood
<1>3. Took(fat32_allocate_cluster(s, Last(chain)), D)
  BY AllocateGood
<1>4. Good(InNewCluster(fat32_allocate_cluster(s, Last(chain)), new).s, D)
  BY <1>3, NewClusterGood
<1>5. r.s = WriteRow(s, chain, Min(runs), new) \/ r.s = InNewCluster(fat32_allocate_cluster(s, Last(chain)), new).s
  BY <1>1 DEF WriteEntries
<1> QED
  BY <1>2, <1>4, <1>5

-----------------------------------------------------------------------------
(* The calls *)

\* The entries of a new name.
LEMMA NewAre ==
    ASSUME NEW name \in Names, NEW lfns \in Lfns, NEW isDir \in BOOLEAN, NEW cluster \in Clusters \cup {0}
    PROVE  NewEntries(name, lfns, isDir, cluster) \in Seq(SlotSet)
<1>1. lfns \in Nat
  BY NamesAssumption, LayoutAssumption DEF NamesAssumption, LayoutAssumption
<1>2. Lfn \in SlotSet /\ Main(name, isDir, cluster) \in SlotSet
  BY DEF SlotSet, Main, Mains
<1>3. [k \in 1 .. lfns |-> Lfn] \in Seq(SlotSet)
  BY <1>1, <1>2
<1>4. <<Main(name, isDir, cluster)>> \in Seq(SlotSet)
  BY <1>2
<1> QED
  BY <1>3, <1>4, ConcatProperties DEF NewEntries

\* The two entries of a new directory, when its name was made.
LEMMA EnteredGood ==
    ASSUME NEW D, NEW r, Good(r.s, D), NEW dir \in Clusters \cup {0}, NEW isDir \in BOOLEAN,
           NEW cluster \in Clusters \cup {0}
    PROVE  Good(Entered(r, dir, isDir, cluster).s, D)
<1> DEFINE to == [Zeroed EXCEPT ![0] = Main(".", TRUE, cluster), ![1] = Main("..", TRUE, dir)]
           freed == fat32_free_chain(r.s, cluster)
           written == ata_write_sector(r.s, cluster, to)
<1>1. Main(".", TRUE, cluster) \in SlotSet /\ Main("..", TRUE, dir) \in SlotSet /\ Unused \in SlotSet
  BY DEF Main, SlotSet, Mains
<1>2. to \in Contents
  BY <1>1 DEF Zeroed, DirSectors, Contents
<1>3. Good(freed, D)
  BY FreeChainGood
<1> HIDE DEF freed, to
<1>4. Good(written, D)
  BY <1>2, SectorGood
<1>5. Entered(r, dir, isDir, cluster).s = freed \/ Entered(r, dir, isDir, cluster).s = written
      \/ Entered(r, dir, isDir, cluster).s = r.s
  BY DEF Entered, Failed, Done, freed, to
<1> HIDE DEF written
<1> QED
  BY <1>3, <1>4, <1>5

\* A name is entered in a directory.
LEMMA EnterGood ==
    ASSUME NEW D, NEW a, Took(a, D), NEW dir \in Clusters \cup {0}, NEW name \in Names,
           NEW lfns \in Lfns, NEW isDir \in BOOLEAN
    PROVE  Good(Enter(a, dir, name, lfns, isDir).s, D)
<1> DEFINE new == NewEntries(name, lfns, isDir, a.cluster)
           made == fat32_allocate_dir_entries(a.s, dir, new)
           entered == Entered(made, dir, isDir, a.cluster)
<1>1. Good(a.s, D) /\ a.cluster \in Clusters \cup {0}
  BY DEF Took
<1>2. new \in Seq(SlotSet)
  BY <1>1, NewAre
<1> HIDE DEF new
<1>3. Good(made.s, D)
  BY <1>1, <1>2, EntriesGood
<1> HIDE DEF made
<1>4. Good(entered.s, D)
  BY <1>1, <1>3, EnteredGood
<1>5. Enter(a, dir, name, lfns, isDir).s = a.s \/ Enter(a, dir, name, lfns, isDir).s = entered.s
  BY DEF Enter, Failed, made, new
<1> QED
  BY <1>1, <1>4, <1>5

\* A path ends in a name.
LEMMA LastIs == ASSUME NEW path \in Paths PROVE Last(path) \in Names
<1>1. PICK l \in 1 .. MaxDepth : path \in [1 .. l -> Names]
  BY DEF Paths
<1>2. l \in Nat /\ l > 0
  BY BoundsAssumption DEF BoundsAssumption
<1>3. Len(path) = l
  BY <1>1, <1>2, SeqDef
<1> QED
  BY <1>1, <1>2, <1>3 DEF Last

\* fat32_create_file.
LEMMA CreateGood ==
    ASSUME NEW D, NEW s, Good(s, D), NEW path \in Paths, NEW lfns \in Lfns, NEW isDir \in BOOLEAN
    PROVE  Good(fat32_create_file(s, path, lfns, isDir).s, D)
<1> DEFINE dir == fat32_find_dir_cluster(s.d, path)
           a == IF isDir THEN fat32_allocate_cluster(s, 0) ELSE [s |-> s, cluster |-> 0]
           entered == Enter(a, dir, Last(path), lfns, isDir)
           r == fat32_create_file(s, path, lfns, isDir)
<1>1. s.d \in Disks
  BY DEF Good, Volumes
<1>2. dir \in Clusters \cup {0} /\ Last(path) \in Names
  BY <1>1, DirIs, LastIs
<1>3. Took(a, D)
  <2>1. Took(fat32_allocate_cluster(s, 0), D)
    BY AllocateGood
  <2>2. Took([s |-> s, cluster |-> 0], D)
    BY DEF Took
  <2> QED
    BY <2>1, <2>2
<1>4. r.s = s \/ r.s = entered.s
  BY DEF fat32_create_file, CreateIn, Failed
<1> HIDE DEF dir, a
<1>5. Good(entered.s, D)
  BY <1>2, <1>3, EnterGood
<1> HIDE DEF entered, r
<1>6. Good(r.s, D)
  BY <1>4, <1>5
<1> QED
  BY <1>6 DEF r

\* fat32_delete_file: the chain, then the entry.
LEMMA DeleteGood ==
    ASSUME NEW D, NEW s, Good(s, D), NEW path \in Paths
    PROVE  Good(fat32_delete_file(s, path).s, D)
<1> DEFINE dir == fat32_find_dir_cluster(s.d, path)
           p == fat32_find_entry_in_dir(s.d, dir, Last(path))
           e == Entries(s.d, dir)[p]
           at == PlaceOf(Chain(s.d, dir), p, 0)
           freed == fat32_free_chain(s, e.cluster)
           r == fat32_delete_file(s, path)
<1>1. s.d \in Disks
  BY DEF Good, Volumes
<1>2. dir \in Clusters \cup {0}
  BY <1>1, DirIs
<1>3. r.s = s \/ (p # -1 /\ r.s = Erase(freed, at).s)
  BY DEF fat32_delete_file, DeleteIn, DeleteAt, Failed
<1> HIDE DEF dir
<1>4. ASSUME p # -1 PROVE Good(Erase(freed, at).s, D)
  <2>1. e \in Mains
    BY <1>1, <1>2, <1>4, FoundIs DEF fat32_find_entry_in_dir
  <2>2. e.cluster \in Clusters \cup {0}
    BY <2>1 DEF Mains
  <2> HIDE DEF e, at
  <2>3. Good(freed, D)
    BY <2>2, FreeChainGood
  <2> HIDE DEF freed
  <2>4. freed.d \in Disks
    BY <2>3 DEF Good, Volumes
  <2>5. Gone \in SlotSet
    BY DEF SlotSet
  <2>6. at.cluster \in Clusters => [Sector(freed.d, at.cluster) EXCEPT ![at.slot] = Gone] \in Contents
    BY <2>4, <2>5, SectorIs, SlotPut
  <2>7. Erase(freed, at).s
          = ata_write_sector(freed, at.cluster, [Sector(freed.d, at.cluster) EXCEPT ![at.slot] = Gone])
    BY DEF Erase, Done
  <2> QED
    BY <2>3, <2>6, <2>7, SectorGood
<1> HIDE DEF r, p, freed, at
<1>5. Good(r.s, D)
  BY <1>3, <1>4
<1> QED
  BY <1>5 DEF r

-----------------------------------------------------------------------------
(* Writing a file *)

\* A file as it is written.
Filled(t, D) == Good(t.s, D) /\ t.first \in Clusters \cup {0} /\ t.written \in Nat

\* A value goes to a cluster.
LEMMA FillGood ==
    ASSUME NEW D, NEW t, Filled(t, D), NEW s, Good(s, D), NEW c \in Clusters
    PROVE  \A value \in Contents : Filled(Fill(t, ata_write_sector(s, c, value), c, value), D)
<1> SUFFICES ASSUME NEW value \in Contents
             PROVE  Filled(Fill(t, ata_write_sector(s, c, value), c, value), D)
  OBVIOUS
<1> DEFINE w == ata_write_sector(s, c, value)
           u == Fill(t, w, c, value)
<1>1. Good(w, D)
  BY SectorGood
<1> HIDE DEF w
<1>2. u.s = w /\ u.first = (IF t.first = 0 THEN c ELSE t.first) /\ u.written = t.written + 1
  BY DEF Fill
<1> HIDE DEF u
<1>3. Filled(u, D)
  BY <1>1, <1>2 DEF Filled
<1> QED
  BY <1>3 DEF u, w

\* The next cluster of the file, or a new one.
LEMMA WriteClusterGood ==
    ASSUME NEW D, NEW t, Filled(t, D), NEW value \in Contents
    PROVE  Filled(WriteCluster(t, value), D)
<1> DEFINE a == fat32_allocate_cluster(t.s, t.previous)
<1>1. Good(t.s, D)
  BY DEF Filled
<1>2. Took(a, D)
  BY <1>1, AllocateGood
<1>3. CASE t.next \in Clusters
  <2>1. Filled(Fill(t, ata_write_sector(t.s, t.next, value), t.next, value), D)
    BY <1>1, <1>3, FillGood
  <2> QED
    BY <1>3, <2>1 DEF WriteCluster
<1>4. CASE t.next \notin Clusters
  <2>1. WriteCluster(t, value) = FillNew(t, a, value)
    BY <1>4 DEF WriteCluster
  <2> HIDE DEF a
  <2>2. CASE a.cluster = 0
    BY <2>1, <2>2 DEF FillNew
  <2>3. CASE a.cluster # 0
    <3>1. Good(a.s, D) /\ a.cluster \in Clusters
      BY <1>2, <2>3 DEF Took
    <3>2. Filled(Fill(t, ata_write_sector(a.s, a.cluster, value), a.cluster, value), D)
      BY <3>1, FillGood
    <3> QED
      BY <2>1, <2>3, <3>2 DEF FillNew
  <2> QED
    BY <2>2, <2>3
<1> QED
  BY <1>3, <1>4

\* What the entry of a written file becomes; what is none is left alone.
LEMMA SizedIs ==
    ASSUME NEW e \in SlotSet, NEW first \in Clusters \cup {0}, NEW n \in Nat
    PROVE  [[e EXCEPT !.cluster = first] EXCEPT !.size = n] \in SlotSet
<1>1. CASE e \in Mains
  <2>1. [[e EXCEPT !.cluster = first] EXCEPT !.size = n] \in Mains
    BY <1>1 DEF Mains
  <2> QED
    BY <2>1 DEF SlotSet
<1>2. ASSUME NEW kind, e = [kind |-> kind]
      PROVE  [[e EXCEPT !.cluster = first] EXCEPT !.size = n] = e
  BY <1>2
<1>3. CASE e \in {Unused, Gone, Lfn}
  <2>1. \E kind : e = [kind |-> kind]
    BY <1>3, Zenon DEF Unused, Gone, Lfn
  <2> QED
    BY <1>2, <2>1
<1> QED
  BY <1>1, <1>3 DEF SlotSet

\* The first cluster and the size go to the entry.
LEMMA FinishGood ==
    ASSUME NEW D, NEW t, Filled(t, D), NEW at
    PROVE  Good(Finish(t, at).s, D)
<1> DEFINE f == Sector(t.s.d, at.cluster)
           to == [f EXCEPT ![at.slot].cluster = t.first, ![at.slot].size = t.written]
<1>1. Good(t.s, D) /\ t.s.d \in Disks /\ t.first \in Clusters \cup {0} /\ t.written \in Nat
  BY DEF Filled, Good, Volumes
<1>2. at.cluster \in Clusters => f \in DirSectors
  BY <1>1, SectorIs
<1>3. Finish(t, at).s = ata_write_sector(t.s, at.cluster, to)
  BY DEF Finish, Done
<1> HIDE DEF f
<1>4. ASSUME f \in DirSectors PROVE to \in Contents
  <2> DEFINE e == [[f[at.slot] EXCEPT !.cluster = t.first] EXCEPT !.size = t.written]
  <2>1. to = [f EXCEPT ![at.slot] = e]
    BY <1>4 DEF DirSectors
  <2>2. at.slot \in 0 .. Slots - 1 => e \in SlotSet
    <3>1. at.slot \in 0 .. Slots - 1 => f[at.slot] \in SlotSet
      BY <1>4 DEF DirSectors
    <3> QED
      BY <1>1, <3>1, SizedIs
  <2> HIDE DEF e, to
  <2>3. to \in DirSectors
    BY <1>4, <2>1, <2>2 DEF DirSectors
  <2> QED
    BY <2>3 DEF Contents
<1> HIDE DEF to
<1>5. Good(ata_write_sector(t.s, at.cluster, to), D)
  BY <1>1, <1>2, <1>4, SectorGood
<1> QED
  BY <1>3, <1>5

\* The file so far.
FilledTo(c, seq, k, t) == Filled(t, c.D)
WriteTo(c, t, value) == WriteCluster(t, value)
Writes == INSTANCE SequenceLemmas WITH Body <- WriteTo, Kept <- FilledTo

\* A content is written from a first cluster on.
LEMMA WriteFromGood ==
    ASSUME NEW D, NEW s, Good(s, D), NEW first \in Clusters \cup {0}, NEW at,
           NEW content \in Seq(Contents)
    PROVE  Good(WriteFrom(s, first, at, content).s, D)
<1> DEFINE c == [D |-> D]
           n == Len(content)
           base == [s |-> s, first |-> first, previous |-> 0, next |-> first, written |-> 0]
           t == FoldLeft(WriteCluster, base, content)
<1>0. c.D = D
  OBVIOUS
<1> HIDE DEF c
<1>1. Filled(base, D)
  BY DEF Filled
<1>2. WriteFrom(s, first, at, content) = Finish(t, at)
  BY DEF WriteFrom
<1> HIDE DEF base
<1>3. t = Writes!Fold(c, base, content)
  BY Zenon DEF WriteTo, Writes!Fold, Writes!MapThenFoldSet, Writes!Largest,
     FoldLeft, MapThenFoldSet, Max
<1> HIDE DEF t
<1>4. n \in Nat /\ DOMAIN content = 1 .. n /\ \A i \in 1 .. n : content[i] \in Contents
  BY LenProperties, ElementOfSeq
<1> HIDE DEF n
<1>5. FilledTo(c, content, 0, base)
  BY <1>0, <1>1 DEF FilledTo
<1>6. ASSUME NEW i \in 0 .. n - 1, NEW b, FilledTo(c, content, i, b)
      PROVE  FilledTo(c, content, i + 1, WriteTo(c, b, content[i + 1]))
  <2>1. content[i + 1] \in Contents
    BY <1>4
  <2> QED
    BY <1>6, <2>1, WriteClusterGood DEF FilledTo, WriteTo
<1>7. FilledTo(c, content, n, t)
  BY <1>3, <1>4, <1>5, <1>6, Writes!LoopRule
<1>8. Filled(t, D)
  BY <1>0, <1>7 DEF FilledTo
<1> QED
  BY <1>2, <1>8, FinishGood

\* A content is written to the entry that was found.
LEMMA WriteFoundGood ==
    ASSUME NEW D, NEW s, Good(s, D), NEW dir \in Clusters \cup {0}, NEW name,
           NEW content \in Seq(Contents)
    PROVE  Good(WriteFound(s, dir, fat32_find_entry_in_dir(s.d, dir, name), content).s, D)
<1> DEFINE p == fat32_find_entry_in_dir(s.d, dir, name)
           e == Entries(s.d, dir)[p]
           at == PlaceOf(Chain(s.d, dir), p, 0)
<1>1. s.d \in Disks
  BY DEF Good, Volumes
<1>2. CASE p = -1
  BY <1>2 DEF WriteFound, Failed
<1>3. CASE p # -1
  <2>1. e \in Mains
    BY <1>1, <1>3, FoundIs DEF fat32_find_entry_in_dir
  <2>2. e.cluster \in Clusters \cup {0}
    BY <2>1 DEF Mains
  <2>3. WriteFound(s, dir, p, content) = WriteFrom(s, e.cluster, at, content)
    BY <1>3 DEF WriteFound
  <2> HIDE DEF p, e, at
  <2>4. Good(WriteFrom(s, e.cluster, at, content).s, D)
    BY <2>2, WriteFromGood
  <2>5. Good(WriteFound(s, dir, p, content).s, D)
    BY <2>3, <2>4
  <2> QED
    BY <2>5 DEF p
<1> QED
  BY <1>2, <1>3

\* fat32_write_file.
LEMMA WriteFileGood ==
    ASSUME NEW D, NEW s, Good(s, D), NEW path \in Paths, NEW lfns \in Lfns,
           NEW content \in Seq(Contents)
    PROVE  Good(fat32_write_file(s, path, lfns, content).s, D)
<1> DEFINE dir == fat32_find_dir_cluster(s.d, path)
           name == Last(path)
           made == IF fat32_find_entry_in_dir(s.d, dir, name) # -1 THEN Done(s)
                   ELSE fat32_create_file(s, path, lfns, FALSE)
           found == WriteFound(made.s, dir, fat32_find_entry_in_dir(made.s.d, dir, name), content)
           r == fat32_write_file(s, path, lfns, content)
<1>1. dir \in Clusters \cup {0}
  BY DirIs DEF Good, Volumes
<1>2. r.s = s \/ r.s = made.s \/ r.s = found.s
  BY DEF fat32_write_file, WriteIn, WriteMade, Failed
<1>3. Good(made.s, D)
  <2>1. Good(fat32_create_file(s, path, lfns, FALSE).s, D)
    BY CreateGood
  <2>2. Done(s).s = s
    BY DEF Done
  <2> QED
    BY <2>1, <2>2
<1> HIDE DEF dir, made, name
<1>4. Good(found.s, D)
  BY <1>1, <1>3, WriteFoundGood
<1> HIDE DEF found, r
<1>5. Good(r.s, D)
  BY <1>2, <1>3, <1>4
<1> QED
  BY <1>5 DEF r

\* The larger of two numbers is one of them.
LEMMA MaxOfTwo == ASSUME NEW a \in Nat, NEW b \in Nat PROVE Max({a, b}) \in {a, b}
<1>1. \E x \in {a, b} : \A y \in {a, b} : x >= y
  <2>1. a >= b \/ b >= a
    OBVIOUS
  <2>2. a >= a /\ b >= b
    OBVIOUS
  <2> QED
    BY <2>1, <2>2
<1> QED
  BY <1>1 DEF Max

\* What a file held is a content, ...
LEMMA ContentIs ==
    ASSUME NEW d \in Disks, NEW e \in Mains, NEW size \in Nat
    PROVE  Content(d, e, size, 0) \in Seq(Contents)
<1> DEFINE chain == Chain(d, e.cluster)
           n == Min({size, e.size - 0, Len(chain) - 0})
<1>1. e.cluster \in Clusters \cup {0} /\ e.size \in Nat
  BY DEF Mains
<1>2. chain \in Seq(Clusters)
  BY <1>1, ChainIs
<1>3. Content(d, e, size, 0) = [i \in 1 .. n |-> d.data[chain[0 + i]]]
  BY DEF Content
<1> HIDE DEF chain
<1>4. Len(chain) \in Nat
  BY <1>2, LenProperties
<1>5. n \in Nat /\ n <= Len(chain)
  <2> DEFINE S == {size, e.size - 0, Len(chain) - 0}
  <2>1. S \in SUBSET Nat /\ S # {} /\ Len(chain) \in S
    BY <1>1, <1>4
  <2> HIDE DEF S
  <2>2. Min(S) \in S /\ Min(S) <= Len(chain)
    BY <2>1, MinIn
  <2> QED
    BY <2>1, <2>2 DEF S
<1> HIDE DEF n
<1>6. ASSUME NEW i \in 1 .. n PROVE d.data[chain[0 + i]] \in Contents
  <2>1. i \in 1 .. Len(chain) /\ 0 + i = i
    BY <1>4, <1>5
  <2>2. chain[i] \in Clusters
    BY <1>2, <2>1, ElementOfSeq
  <2> QED
    BY <2>1, <2>2 DEF Disks
<1> QED
  BY <1>3, <1>5, <1>6

\* ... and so is what it will hold.
LEMMA EditIs ==
    ASSUME NEW was \in Seq(Contents), NEW offset \in Nat, NEW size \in Nat, NEW v \in Values
    PROVE  Edit(was, offset, size, v) \in Seq(Contents)
<1> DEFINE n == Max({Len(was), offset + size})
<1>1. Len(was) \in Nat /\ DOMAIN was = 1 .. Len(was) /\ \A i \in 1 .. Len(was) : was[i] \in Contents
  BY LenProperties, ElementOfSeq
<1>2. n \in Nat
  BY <1>1, MaxOfTwo
<1> HIDE DEF n
<1>3. v \in Contents /\ Junk \in Contents
  BY DEF Contents
<1>4. Edit(was, offset, size, v) = [i \in 1 .. n |-> IF i > offset /\ i <= offset + size THEN v
                                                 ELSE IF i <= Len(was) THEN was[i] ELSE Junk]
  BY DEF Edit, n
<1>5. ASSUME NEW i \in 1 .. n, i <= Len(was) PROVE was[i] \in Contents
  BY <1>1, <1>2, <1>5
<1> QED
  BY <1>2, <1>3, <1>4, <1>5

\* fat_write: what was there is read, changed and written back.
LEMMA FatWriteGood ==
    ASSUME NEW D, NEW s, Good(s, D), NEW path \in Paths, NEW lfns \in Lfns,
           NEW offset \in Offsets, NEW size \in Sizes, NEW v \in Values
    PROVE  Good(fat_write(s, path, lfns, offset, size, v).s, D)
<1> DEFINE was == IF fat32_get_file_size(s.d, path) > 0 THEN fat32_read_file(s.d, path) ELSE <<>>
           content == Edit(was, offset, size, v)
           e == Lookup(s.d, path)
<1>1. s.d \in Disks /\ offset \in Nat /\ size \in Nat
  BY BoundsAssumption DEF BoundsAssumption, Good, Volumes
<1>2. was \in Seq(Contents)
  <2>1. e \in {Unused} \cup Mains
    BY <1>1, DirIs, NamedIs DEF Lookup
  <2>2. fat32_get_file_size(s.d, path) = SizeOf(e) /\ fat32_read_file(s.d, path) = Content(s.d, e, SizeOf(e), 0)
    BY DEF fat32_get_file_size, fat32_read_file, fat32_read_file_ex
  <2> HIDE DEF e
  <2>3. ASSUME SizeOf(e) > 0 PROVE e \in Mains /\ SizeOf(e) \in Nat
    <3>1. IsFile(e) /\ SizeOf(e) = e.size
      BY <2>3 DEF SizeOf
    <3>2. e \in Mains
      BY <2>1, <3>1 DEF IsFile, Unused
    <3> QED
      BY <3>1, <3>2 DEF Mains
  <2>4. SizeOf(e) > 0 => Content(s.d, e, SizeOf(e), 0) \in Seq(Contents)
    BY <1>1, <2>3, ContentIs
  <2> QED
    BY <2>2, <2>4
<1>3. fat_write(s, path, lfns, offset, size, v) = fat32_write_file(s, path, lfns, content)
  BY DEF fat_write
<1> HIDE DEF was
<1>4. content \in Seq(Contents)
  BY <1>1, <1>2, EditIs
<1> HIDE DEF content
<1> QED
  BY <1>3, <1>4, WriteFileGood

-----------------------------------------------------------------------------
(* Every step keeps the invariant *)

Flags == {"stop", "hidden", "lost", "overwritten", "dangling", "astray"}

\* The inductive invariant: a whole disk, and tables that differ where stops
\* left them half written.
IInv ==
    /\ disk \in Disks
    /\ stops \in 0 .. MaxStops /\ damage \subseteq Flags
    /\ CopiesFollow

\* Where the copies of the table on the disk differ from the first.
Differ == [i \in 1 .. Copies |-> {c \in Clusters : disk.fat[i][c] # disk.fat[1][c]}]

\* A call begins with a good volume.
LEMMA VolumeGood == ASSUME disk \in Disks PROVE Good(Volume, Differ)
<1>1. Volume \in Volumes /\ Volume.d = disk /\ Volume.via = {}
  BY DEF Volume, Volumes
<1>2. Within(disk, Differ)
  BY DEF Within, Differ
<1> QED
  BY <1>1, <1>2 DEF Good

\* What is forgotten is in no table.
LEMMA ForgetIs == ASSUME NEW d \in Disks PROVE Forget(d) \in Disks /\ Forget(d).fat = d.fat
<1> DEFINE data == [c \in Clusters |-> IF c \in InUse(d) THEN d.data[c] ELSE Zeroed]
<1>1. Zeroed \in Contents
  BY DEF Zeroed, Contents, DirSectors, SlotSet
<1>2. data \in [Clusters -> Contents]
  BY <1>1 DEF Disks
<1>3. Forget(d) = [d EXCEPT !.data = data]
  BY Zenon DEF Forget
<1> HIDE DEF data
<1> QED
  BY <1>2, <1>3 DEF Disks

\* The sets of clusters in which copies differ are finite.
LEMMA FewDiffer ==
    ASSUME NEW S \in SUBSET Clusters, NEW T \in SUBSET Clusters, NEW h, S \subseteq T \cup {h}
    PROVE  /\ Cardinality(S) \in Nat /\ Cardinality(T) \in Nat
           /\ Cardinality(S) <= Cardinality(T) + 1
           /\ S \subseteq T => Cardinality(S) <= Cardinality(T)
<1>1. IsFiniteSet(Clusters)
  BY ClustersAssumption DEF ClustersAssumption
<1>2. IsFiniteSet(S) /\ IsFiniteSet(T)
  BY <1>1, FS_Subset
<1>3. Cardinality(S) \in Nat /\ Cardinality(T) \in Nat
  BY <1>2, FS_CardinalityType
<1>4. IsFiniteSet(T \cup {h}) /\ Cardinality(T \cup {h}) <= Cardinality(T) + 1
  BY <1>2, <1>3, FS_AddElement
<1>5. Cardinality(S) <= Cardinality(T \cup {h})
  BY <1>4, FS_Subset
<1>6. Cardinality(T \cup {h}) \in Nat
  BY <1>4, FS_CardinalityType
<1>7. S \subseteq T => Cardinality(S) <= Cardinality(T)
  BY <1>2, FS_Subset
<1> QED
  BY <1>3, <1>4, <1>5, <1>6, <1>7

\* A call that wrote only good volumes keeps the invariant, stopped or not.
LEMMA CallKeeps ==
    ASSUME IInv, NEW r, Good(r.s, Differ), NEW harm \in SUBSET Flags, Calls(r, harm)
    PROVE  IInv'
<1> DEFINE T(i) == {c \in Clusters : disk.fat[i][c] # disk.fat[1][c]}
<1>1. /\ disk \in Disks /\ stops \in Nat /\ stops <= MaxStops /\ damage \subseteq Flags
      /\ \A i \in 1 .. Copies : Cardinality(T(i)) <= stops
      /\ MaxStops \in Nat
  BY BoundsAssumption DEF BoundsAssumption, IInv, CopiesFollow
<1>2. r.s.d \in Disks /\ r.s.via \subseteq Disks /\ Within(r.s.d, Differ)
      /\ \A x \in r.s.via : Half(x, Differ)
  BY DEF Good, Volumes
<1>3. ASSUME disk' = Forget(r.s.d), damage' = damage \cup harm, stops' = stops
      PROVE  IInv'
  <2>1. disk' \in Disks /\ disk'.fat = r.s.d.fat
    BY <1>2, <1>3, ForgetIs
  <2>2. ASSUME NEW i \in 1 .. Copies
        PROVE  Cardinality({c \in Clusters : disk'.fat[i][c] # disk'.fat[1][c]}) <= stops
    <3> DEFINE S == {c \in Clusters : disk'.fat[i][c] # disk'.fat[1][c]}
    <3>1. S \in SUBSET Clusters /\ T(i) \in SUBSET Clusters
      OBVIOUS
    <3>2. S \subseteq T(i)
      BY <1>2, <2>1 DEF Within, Differ
    <3>3. S \subseteq T(i) \cup {0}
      BY <3>2
    <3>4. Cardinality(T(i)) <= stops
      BY <1>1
    <3> HIDE DEF S, T
    <3>5. Cardinality(S) \in Nat /\ Cardinality(T(i)) \in Nat /\ Cardinality(S) <= Cardinality(T(i))
      BY <3>1, <3>2, <3>3, FewDiffer
    <3>6. Cardinality(S) <= stops
      BY <1>1, <3>4, <3>5
    <3> QED
      BY <3>6 DEF S
  <2>3. CopiesFollow'
    BY <1>3, <2>2 DEF CopiesFollow
  <2> QED
    BY <1>1, <1>3, <2>1, <2>3 DEF IInv
<1>4. ASSUME NEW d \in r.s.via, stops < MaxStops, stops' = stops + 1, disk' = Forget(d),
             damage' = damage \cup harm \cup {"stop"} \cup Harm("dangling", Dangling(d))
      PROVE  IInv'
  <2>1. disk' \in Disks /\ disk'.fat = d.fat /\ Half(d, Differ)
    BY <1>2, <1>4, ForgetIs
  <2>2. PICK h \in Clusters : \A i \in 1 .. Copies : \A a \in Clusters :
            d.fat[i][a] # d.fat[1][a] => a \in Differ[i] \cup {h}
    BY <2>1 DEF Half
  <2>3. ASSUME NEW i \in 1 .. Copies
        PROVE  Cardinality({c \in Clusters : disk'.fat[i][c] # disk'.fat[1][c]}) <= stops + 1
    <3> DEFINE S == {c \in Clusters : disk'.fat[i][c] # disk'.fat[1][c]}
    <3>1. S \in SUBSET Clusters /\ T(i) \in SUBSET Clusters
      OBVIOUS
    <3>2. S \subseteq T(i) \cup {h}
      BY <2>1, <2>2 DEF Differ
    <3>4. Cardinality(T(i)) <= stops
      BY <1>1
    <3> HIDE DEF S, T
    <3>5. Cardinality(S) \in Nat /\ Cardinality(T(i)) \in Nat /\ Cardinality(S) <= Cardinality(T(i)) + 1
      BY <3>1, <3>2, FewDiffer
    <3>6. Cardinality(S) <= stops + 1
      BY <1>1, <3>4, <3>5
    <3> QED
      BY <3>6 DEF S
  <2>4. CopiesFollow'
    BY <1>4, <2>3 DEF CopiesFollow
  <2>5. stops' \in 0 .. MaxStops
    BY <1>1, <1>4
  <2>6. damage' \subseteq Flags
    BY <1>1, <1>4 DEF Harm, Flags
  <2> QED
    BY <2>1, <2>4, <2>5, <2>6 DEF IInv
<1> QED
  BY <1>3, <1>4 DEF Calls

\* What Made says is damage.
LEMMA MadeIs == ASSUME NEW r, NEW p, NEW lfns PROVE Made(r, p, lfns) \subseteq Flags
  BY DEF Made, Harm, Flags

\* The disk as it is formatted.
LEMMA InitInv == Init => IInv
<1> SUFFICES ASSUME Init PROVE IInv
  OBVIOUS
<1>1. disk = Mkfs /\ stops = 0 /\ damage = {}
  BY DEF Init
<1>2. Mkfs \in Disks
  <2>1. Zeroed \in Contents
    BY DEF Zeroed, Contents, DirSectors, SlotSet
  <2>2. EOC \in Cells /\ 0 \in Cells
    BY DEF Cells
  <2> HIDE DEF Contents, Cells, Zeroed, EOC
  <2> QED
    BY <2>1, <2>2 DEF Mkfs, Disks
<1>3. \A i \in 1 .. Copies : {c \in Clusters : Mkfs.fat[i][c] # Mkfs.fat[1][c]} = {}
  BY LayoutAssumption DEF Mkfs, LayoutAssumption
<1>4. CopiesFollow
  <2>1. \A i \in 1 .. Copies : Cardinality({c \in Clusters : disk.fat[i][c] # disk.fat[1][c]}) = 0
    BY <1>1, <1>3, FS_EmptySet
  <2> QED
    BY <1>1, <2>1 DEF CopiesFollow
<1>5. stops \in 0 .. MaxStops /\ damage \subseteq Flags
  BY <1>1, BoundsAssumption DEF BoundsAssumption
<1> QED
  BY <1>1, <1>2, <1>4, <1>5 DEF IInv

\* Each call keeps the invariant.
LEMMA NextStep == IInv /\ [Next]_vars => IInv'
<1> SUFFICES ASSUME IInv, [Next]_vars PROVE IInv'
  OBVIOUS
<1>0. disk \in Disks /\ Good(Volume, Differ)
  BY VolumeGood DEF IInv
<1>1. ASSUME NEW p \in Paths, NEW lfns \in Lfns, NEW isDir \in BOOLEAN, Create(p, lfns, isDir)
      PROVE  IInv'
  <2> DEFINE r == fat32_create_file(Volume, p, lfns, isDir)
  <2>1. Good(r.s, Differ)
    BY <1>0, CreateGood
  <2>2. Calls(r, Made(r, p, lfns))
    BY <1>1 DEF Create
  <2> HIDE DEF r
  <2> QED
    BY <2>1, <2>2, CallKeeps, MadeIs
<1>2. ASSUME NEW p \in Paths, NEW lfns \in Lfns, NEW offset \in Offsets, NEW size \in Sizes,
             NEW v \in Values, Write(p, lfns, offset, size, v)
      PROVE  IInv'
  <2> DEFINE r == fat_write(Volume, p, lfns, offset, size, v)
             harm == Made(r, p, lfns) \cup Harm("overwritten", fat32_is_dir(disk, p))
  <2>1. Good(r.s, Differ)
    BY <1>0, FatWriteGood
  <2>2. Calls(r, harm)
    BY <1>2 DEF Write
  <2> HIDE DEF r
  <2>3. harm \in SUBSET Flags
    BY MadeIs DEF Harm, Flags
  <2> HIDE DEF harm
  <2> QED
    BY <2>1, <2>2, <2>3, CallKeeps
<1>3. ASSUME NEW p \in Paths, Delete(p) PROVE IInv'
  <2> DEFINE r == fat32_delete_file(Volume, p)
             harm == Harm("lost", r.ok /\ fat32_is_dir(disk, p) /\ fat32_list_dir(disk, p) # {".", ".."})
  <2>1. Good(r.s, Differ)
    BY <1>0, DeleteGood
  <2>2. Calls(r, harm)
    BY <1>3 DEF Delete
  <2>3. harm \in SUBSET Flags
    BY DEF Harm, Flags
  <2> HIDE DEF r, harm
  <2> QED
    BY <2>1, <2>2, <2>3, CallKeeps
<1>4. ASSUME UNCHANGED vars PROVE IInv'
  BY <1>4 DEF vars, IInv, CopiesFollow
<1> QED
  BY <1>1, <1>2, <1>3, <1>4 DEF Next

\* A disk is whole after any calls and stops, and the copies of the table agree
\* but for one entry for each stop: fat32_write_fat_entry (fat32.c) is the only
\* place that writes to a table, and it writes one cluster to all copies.
THEOREM DiskIInv == Spec => []IInv
<1>1. IInv /\ [Next]_vars => IInv'
  BY NextStep
<1> QED
  BY <1>1, InitInv, PTL DEF Spec

\* The type invariant: tables of clusters, clusters of values or entries.
THEOREM DiskTypeOK == Spec => []TypeOK
<1>1. IInv => TypeOK
  BY DEF IInv, TypeOK, Disks, Cells, Contents, DirSectors, Flags
<1> QED
  BY <1>1, DiskIInv, PTL

\* The copies of the table agree, but for one entry for each stop.
THEOREM TablesFollow == Spec => []CopiesFollow
<1>1. IInv => CopiesFollow
  BY DEF IInv
<1> QED
  BY <1>1, DiskIInv, PTL
=============================================================================
