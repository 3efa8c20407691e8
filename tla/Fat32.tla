-------------------------------- MODULE Fat32 --------------------------------
(***************************************************************************)
(* The FAT32 driver, src/src/fs/fat32/fat32.c, and its wrappers in fs.c,   *)
(* on a disk formatted as FAT32 with an empty root directory.              *)
(*                                                                         *)
(* As in Ext2, a call is an operator from a volume to a volume that        *)
(* collects the disks it wrote on its way: its action moves to the last    *)
(* one, or, when the machine stops in the middle, to any other.  The       *)
(* driver keeps nothing in memory that a stop could lose.                  *)
(*                                                                         *)
(* A cluster is one sector; it holds Slots directory entries or one value. *)
(* Sizes and offsets are in clusters.  Values begin with a zero byte: read *)
(* as a directory they hold nothing.  Times, and "." and ".." as arguments *)
(* (fs.c has resolved them), are left out.                                 *)
(***************************************************************************)
EXTENDS Integers, FiniteSets, SequencesExt

CONSTANTS Clusters, ROOT, \* cluster numbers, and root_cluster
          Slots,          \* entries of a cluster, 16 in the code
          Copies,         \* bpb.fat_count
          Names,          \* the short names that format_83_name makes of names
          Lfns,           \* numbers of long entries, one for 13 characters of a name
          Values, Junk,   \* contents of a cluster; Junk is what the heap held
          Offsets, Sizes, MaxDepth, MaxStops \* bounds, as in Ext2

ASSUME ClustersAssumption ==
    /\ Clusters \subseteq Nat \ {0, 1} /\ IsFiniteSet(Clusters) /\ ROOT \in Clusters
ASSUME NamesAssumption == Lfns \subseteq 1 .. Slots - 1
ASSUME LayoutAssumption == Slots \in Nat \ {0} /\ Copies \in Nat \ {0}
ASSUME BoundsAssumption ==
    Offsets \subseteq Nat /\ Sizes \subseteq Nat /\ MaxDepth \in Nat /\ MaxStops \in Nat

VARIABLES disk,    \* what is written
          stops,   \* how many stops there were
          damage,  \* what the calls did that a later check of the disk would find
          tree     \* what is found at each path

vars == <<disk, stops, damage, tree>>

EOC == 268435455   \* 0x0FFFFFFF
Unused == [kind |-> "00"]
Gone == [kind |-> "E5"]
Lfn == [kind |-> "lfn"]
Main(short, dir, cluster) ==
    [kind |-> "main", short |-> short, dir |-> dir, cluster |-> cluster, size |-> 0]
Free(slot) == slot \in {Unused, Gone}
Zeroed == [j \in 0 .. Slots - 1 |-> Unused]

-----------------------------------------------------------------------------
(* Reading. *)

\* fat32_get_next_cluster, from a cluster to the end of its chain.
Chain(d, cluster) ==
    LET upto[k \in 0 .. Cardinality(Clusters)] ==
            IF k = 0 THEN <<cluster>>
            ELSE LET before == upto[k - 1]
                     next == d.fat[1][Last(before)]
                 IN  IF next \in Clusters THEN Append(before, next) ELSE before
    IN  IF cluster = 0 THEN <<>> ELSE upto[Cardinality(Clusters)]

Sector(d, c) == IF d.data[c] \in Values \cup {Junk} THEN Zeroed ELSE d.data[c]

\* The entries of a directory, through its chain.
Entries(d, dir) ==
    LET chain == Chain(d, dir)
    IN  [p \in 0 .. (Len(chain) * Slots) - 1 |-> Sector(d, chain[(p \div Slots) + 1])[p % Slots]]

\* A search ends at the first entry that was never used, whatever follows.
Seen(entries) ==
    LET unused == {p \in DOMAIN entries : entries[p] = Unused}
    IN  {p \in DOMAIN entries : entries[p].kind = "main" /\ \A q \in unused : p < q}

\* The place of a name, -1 for none.  What has the same long name, but for
\* case, has the same short name too; so two long names with one short name
\* are one to every call.
Find(entries, name) ==
    LET found == {p \in Seen(entries) : entries[p].short = name}
    IN  IF found = {} THEN -1 ELSE Min(found)
Named(entries, name) ==
    LET p == Find(entries, name) IN IF p = -1 THEN Unused ELSE entries[p]
fat32_find_entry_in_dir(d, dir, name) == Find(Entries(d, dir), name)
EntryOf(d, dir, name) == Named(Entries(d, dir), name)

IsDir(e) == e.kind = "main" /\ e.dir
IsFile(e) == e.kind = "main" /\ ~e.dir

\* The directory that holds the last name of a path, 0 for none.
ClusterBelow(e) == IF IsDir(e) THEN e.cluster ELSE 0
fat32_find_dir_cluster(d, path) ==
    LET at[l \in 0 .. Len(path)] ==
            IF l = 0 THEN ROOT ELSE ClusterBelow(EntryOf(d, at[l - 1], path[l]))
    IN  IF path = <<>> THEN ROOT ELSE at[Len(path) - 1]

\* The entry of a path.
Lookup(d, path) ==
    IF path = <<>> THEN Unused ELSE EntryOf(d, fat32_find_dir_cluster(d, path), Last(path))

fat32_is_dir(d, path) == path = <<>> \/ IsDir(Lookup(d, path))
\* -1 for what is no file.
SizeOf(e) == IF IsFile(e) THEN e.size ELSE -1
fat32_get_file_size(d, path) == SizeOf(Lookup(d, path))
Content(d, e, size, offset) ==
    LET chain == Chain(d, e.cluster)
    IN  [i \in 1 .. Min({size, e.size - offset, Len(chain) - offset}) |-> d.data[chain[offset + i]]]
fat32_read_file_ex(d, path, size, offset) == Content(d, Lookup(d, path), size, offset)
fat32_read_file(d, path) == fat32_read_file_ex(d, path, fat32_get_file_size(d, path), 0)

\* What has no cluster is taken for the root.
ClusterOf(e) ==
    IF e.kind # "main" THEN EOC ELSE IF e.cluster = 0 THEN ROOT ELSE e.cluster
fat32_get_cluster_for_path(d, path) == IF path = <<>> THEN ROOT ELSE ClusterOf(Lookup(d, path))
\* It shows long names for short ones.
Shorts(entries) == {entries[p].short : p \in Seen(entries)}
fat32_list_dir(d, path) == Shorts(Entries(d, fat32_get_cluster_for_path(d, path)))

-----------------------------------------------------------------------------
(* Writing.  s.d is the disk of a volume, s.via those before it. *)

Volume == [d |-> disk, via |-> {}]
Put(s, d) == [s EXCEPT !.d = d, !.via = @ \cup {s.d}]
ata_write_sector(s, c, content) == Put(s, [s.d EXCEPT !.data[c] = content])

\* Faulty variant: the first copy only.
FirstCopyOnly(s, cluster, value) == Put(s, [s.d EXCEPT !.fat[1][cluster] = value])

fat32_write_fat_entry(s, cluster, value) ==
    FoldLeft(LAMBDA t, i : Put(t, [t.d EXCEPT !.fat[i][cluster] = value]), s, [i \in 1 .. Copies |-> i])

\* 0 when the disk is full.
fat32_find_free_cluster(d) ==
    LET free == {c \in Clusters : d.fat[1][c] = 0} IN IF free = {} THEN 0 ELSE Min(free)

\* Faulty variant: the chain goes on to the place of the cluster in the data
\* area, which begins with cluster 2.
LinkToIndex(s, previous) ==
    LET c == fat32_find_free_cluster(s.d)
        zeroed == ata_write_sector(fat32_write_fat_entry(s, c, EOC), c, Zeroed)
    IN  [s |-> IF c = 0 THEN s
               ELSE IF previous = 0 THEN zeroed ELSE fat32_write_fat_entry(zeroed, previous, c - 2),
         cluster |-> c]

fat32_allocate_cluster(s, previous) ==
    LET c == fat32_find_free_cluster(s.d)
        zeroed == ata_write_sector(fat32_write_fat_entry(s, c, EOC), c, Zeroed)
    IN  [s |-> IF c = 0 THEN s
               ELSE IF previous = 0 THEN zeroed ELSE fat32_write_fat_entry(zeroed, previous, c),
         cluster |-> c]

\* Faulty variant: only the first cluster is freed.
FreeFirst(s, cluster) == IF cluster = 0 THEN s ELSE fat32_write_fat_entry(s, cluster, 0)

fat32_free_chain(s, cluster) ==
    FoldLeft(LAMBDA t, c : fat32_write_fat_entry(t, c, 0), s, Chain(s.d, cluster))

\* The first free entries in a row, through the chain.
Runs(entries, count) ==
    {p \in DOMAIN entries : \A q \in p .. p + count - 1 : q \in DOMAIN entries /\ Free(entries[q])}

\* The k-th entry of such a row: past the end of a cluster the code goes on in
\* the one after it on the disk.
PlaceOf(chain, p, k) ==
    [cluster |-> chain[(p \div Slots) + 1] + (((p % Slots) + k) \div Slots),
     slot |-> ((p % Slots) + k) % Slots]

WriteRow(s, chain, p, new) ==
    FoldLeft(LAMBDA t, k :
                LET at == PlaceOf(chain, p, k - 1)
                IN  IF at.cluster \notin Clusters THEN t
                    ELSE ata_write_sector(t, at.cluster, [Sector(t.d, at.cluster) EXCEPT ![at.slot] = new[k]]),
             s, [k \in DOMAIN new |-> k])
InNewCluster(a, new) ==
    IF a.cluster = 0 THEN [ok |-> FALSE, s |-> a.s]
    ELSE [ok |-> TRUE,
          s |-> ata_write_sector(a.s, a.cluster,
                    [j \in 0 .. Slots - 1 |-> IF j < Len(new) THEN new[j + 1] ELSE Unused])]
WriteEntries(s, chain, runs, new) ==
    IF runs # {} THEN [ok |-> TRUE, s |-> WriteRow(s, chain, Min(runs), new)]
    ELSE InNewCluster(fat32_allocate_cluster(s, Last(chain)), new)
fat32_allocate_dir_entries(s, dir, new) ==
    WriteEntries(s, Chain(s.d, dir), Runs(Entries(s.d, dir), Len(new)), new)

-----------------------------------------------------------------------------
(* The calls. *)

Failed(s) == [ok |-> FALSE, s |-> s]
Done(s) == [ok |-> TRUE, s |-> s]

NewEntries(name, lfns, isDir, cluster) == [k \in 1 .. lfns |-> Lfn] \o <<Main(name, isDir, cluster)>>

\* Faulty variant: nobody looks whether the name is taken.
CreateAgain(s, path, lfns, isDir) ==
    LET dir == fat32_find_dir_cluster(s.d, path)
    IN  IF dir = 0 THEN Failed(s)
        ELSE fat32_allocate_dir_entries(s, dir, NewEntries(Last(path), lfns, FALSE, 0))

\* The entry is made, or not, of a directory whose cluster is there already.
Entered(r, dir, isDir, cluster) ==
    IF ~r.ok THEN Failed(fat32_free_chain(r.s, cluster))
    ELSE IF ~isDir THEN r
    ELSE Done(ata_write_sector(r.s, cluster,
                  [Zeroed EXCEPT ![0] = Main(".", TRUE, cluster), ![1] = Main("..", TRUE, dir)]))
Enter(a, dir, name, lfns, isDir) ==
    IF isDir /\ a.cluster = 0 THEN Failed(a.s)
    ELSE Entered(fat32_allocate_dir_entries(a.s, dir, NewEntries(name, lfns, isDir, a.cluster)),
                 dir, isDir, a.cluster)
CreateIn(s, dir, name, lfns, isDir) ==
    IF dir = 0 THEN Failed(s)
    ELSE IF fat32_find_entry_in_dir(s.d, dir, name) # -1 THEN Failed(s)
    ELSE Enter(IF isDir THEN fat32_allocate_cluster(s, 0) ELSE [s |-> s, cluster |-> 0],
               dir, name, lfns, isDir)
fat32_create_file(s, path, lfns, isDir) ==
    CreateIn(s, fat32_find_dir_cluster(s.d, path), Last(path), lfns, isDir)

\* A value into a cluster of the file; t is the volume, the first, last and
\* next cluster, and how many were written.
Fill(t, s, c, value) ==
    [s |-> s, first |-> IF t.first = 0 THEN c ELSE t.first, previous |-> c,
     next |-> s.d.fat[1][c], written |-> t.written + 1]
FillNew(t, a, value) ==
    IF a.cluster = 0 THEN t
    ELSE Fill(t, ata_write_sector(a.s, a.cluster, value), a.cluster, value)
\* The next cluster, a new one at the end of the chain.
WriteCluster(t, value) ==
    IF t.next \in Clusters THEN Fill(t, ata_write_sector(t.s, t.next, value), t.next, value)
    ELSE FillNew(t, fat32_allocate_cluster(t.s, t.previous), value)

\* The first cluster and the size are written to the entry at the end.
Finish(t, at) ==
    Done(ata_write_sector(t.s, at.cluster,
             [Sector(t.s.d, at.cluster) EXCEPT ![at.slot].cluster = t.first,
                                               ![at.slot].size = t.written]))
WriteFrom(s, first, at, content) ==
    Finish(FoldLeft(WriteCluster, [s |-> s, first |-> first, previous |-> 0, next |-> first, written |-> 0],
                    content), at)
WriteFound(s, dir, p, content) ==
    IF p = -1 THEN Failed(s)
    ELSE WriteFrom(s, Entries(s.d, dir)[p].cluster, PlaceOf(Chain(s.d, dir), p, 0), content)
WriteMade(made, dir, name, content) ==
    IF ~made.ok THEN made
    ELSE WriteFound(made.s, dir, fat32_find_entry_in_dir(made.s.d, dir, name), content)
\* The entry is looked for by its short name, whether it is a file or not, and
\* made when there is none.
WriteIn(s, dir, path, lfns, content) ==
    IF dir = 0 THEN Failed(s)
    ELSE WriteMade(IF fat32_find_entry_in_dir(s.d, dir, Last(path)) # -1 THEN Done(s)
                   ELSE fat32_create_file(s, path, lfns, FALSE), dir, Last(path), content)
fat32_write_file(s, path, lfns, content) ==
    WriteIn(s, fat32_find_dir_cluster(s.d, path), path, lfns, content)

\* The old content under the new; between its end and offset is what the heap
\* held.
Edit(was, offset, size, v) ==
    [i \in 1 .. Max({Len(was), offset + size}) |->
        IF i > offset /\ i <= offset + size THEN v
        ELSE IF i <= Len(was) THEN was[i] ELSE Junk]

\* Faulty variant: what was in the file is not read first.
WriteUnread(s, path, lfns, offset, size, v) ==
    fat32_write_file(s, path, lfns, Edit(<<>>, offset, size, v))

\* The old content is read, changed and written back whole.  kmalloc does not
\* fail here.
fat_write(s, path, lfns, offset, size, v) ==
    fat32_write_file(s, path, lfns,
        Edit(IF fat32_get_file_size(s.d, path) > 0 THEN fat32_read_file(s.d, path) ELSE <<>>,
             offset, size, v))

\* The chain is freed before the entry goes; the long entries stay.
Erase(s, at) == Done(ata_write_sector(s, at.cluster, [Sector(s.d, at.cluster) EXCEPT ![at.slot] = Gone]))
DeleteAt(s, dir, p) ==
    IF p = -1 THEN Failed(s)
    ELSE Erase(fat32_free_chain(s, Entries(s.d, dir)[p].cluster), PlaceOf(Chain(s.d, dir), p, 0))
DeleteIn(s, dir, name) ==
    IF dir = 0 THEN Failed(s) ELSE DeleteAt(s, dir, fat32_find_entry_in_dir(s.d, dir, name))
fat32_delete_file(s, path) == DeleteIn(s, fat32_find_dir_cluster(s.d, path), Last(path))

-----------------------------------------------------------------------------
(* What can be reached from the root. *)

\* The visible entries with a name, as pairs of a directory and a place.
Visible(entries) == {p \in Seen(entries) : entries[p].short \notin {".", ".."}}
At(d, x) == Entries(d, x[1])[x[2]]
Below(d, dirs) == UNION {{dir} \X Visible(Entries(d, dir)) : dir \in dirs}
Reached(d) ==
    LET within[l \in 0 .. MaxDepth] ==
            IF l = 0 THEN {}
            ELSE Below(d, {ROOT} \cup ({ClusterBelow(At(d, x)) : x \in within[l - 1]} \ {0}))
    IN  within[MaxDepth]

Heads(d) == {At(d, x).cluster : x \in Reached(d)} \ {0}
Owned(d, head) == ToSet(Chain(d, head))
InUse(d) == UNION {Owned(d, head) : head \in {ROOT} \cup Heads(d)}

Paths == UNION {[1 .. l -> Names] : l \in 1 .. MaxDepth}
Found(d, e) ==
    IF e.kind # "main" THEN <<>> ELSE IF e.dir THEN <<"dir", "dir">> ELSE <<Content(d, e, e.size, 0)>>
Tree(d) == [p \in Paths |-> Found(d, Lookup(d, p))]

\* Reduction: the next call that takes a cluster zeroes it, so what is not in
\* use is forgotten.
Forget(d) ==
    LET used == InUse(d)
    IN  [d EXCEPT !.data = [c \in Clusters |-> IF c \in used THEN d.data[c] ELSE Zeroed]]

Mkfs == [fat |-> [i \in 1 .. Copies |-> [c \in Clusters |-> IF c = ROOT THEN EOC ELSE 0]],
         data |-> [c \in Clusters |-> Zeroed]]

Init == disk = Mkfs /\ stops = 0 /\ damage = {} /\ tree = Tree(disk)

-----------------------------------------------------------------------------

\* Bound: the model ends with the first call that does damage, unless it is
\* a stop that leaves no entry for what is free.
Followed == damage \subseteq {"stop"}

\* A row of free entries that goes on where the chain does not.
Strays(chain, runs, count) ==
    /\ runs # {}
    /\ LET p == Min(runs)
       IN  /\ (p % Slots) + count > Slots
           /\ chain[(p \div Slots) + 2] # chain[(p \div Slots) + 1] + 1
AstrayIn(d, dir, count) == Strays(Chain(d, dir), Runs(Entries(d, dir), count), count)
Astray(d, path, count) == AstrayIn(d, fat32_find_dir_cluster(d, path), count)

Harm(flag, condition) == IF condition THEN {flag} ELSE {}
Dangling(d) == \E c \in InUse(d) : d.fat[1][c] = 0

\* A call returns, or the machine stops before its last write.
Calls(r, harm) ==
    /\ Followed /\ r.s.via # {}
    /\ \/ disk' = Forget(r.s.d) /\ tree' = Tree(r.s.d)
          /\ damage' = damage \cup harm
          /\ UNCHANGED stops
       \/ \E d \in r.s.via \ {disk} :
          /\ stops < MaxStops /\ stops' = stops + 1
          /\ disk' = Forget(d) /\ tree' = Tree(d)
          /\ damage' = damage \cup harm \cup {"stop"} \cup Harm("dangling", Dangling(d))

\* What a call that makes an entry may do to it: write it elsewhere, or behind
\* an entry that was never used, where no search gets.
Made(r, p, lfns) ==
    IF Lookup(disk, p).kind = "main" THEN {}
    ELSE Harm("astray", Astray(disk, p, lfns + 1)) \cup
         Harm("hidden", r.s.d # disk /\ Lookup(r.s.d, p).kind # "main")

Create(p, lfns, isDir) ==
    \E r \in {fat32_create_file(Volume, p, lfns, isDir)} : Calls(r, Made(r, p, lfns))

\* A directory that is written loses what it holds.
Write(p, lfns, offset, size, v) ==
    \E r \in {fat_write(Volume, p, lfns, offset, size, v)} :
        Calls(r, Made(r, p, lfns) \cup Harm("overwritten", fat32_is_dir(disk, p)))

\* What is in a directory that is deleted is lost.
Delete(p) ==
    \E r \in {fat32_delete_file(Volume, p)} :
        Calls(r, Harm("lost", r.ok /\ fat32_is_dir(disk, p) /\ fat32_list_dir(disk, p) # {".", ".."}))

Next ==
    \/ \E p \in Paths, lfns \in Lfns, isDir \in BOOLEAN : Create(p, lfns, isDir)
    \/ \E p \in Paths, lfns \in Lfns, offset \in Offsets, size \in Sizes, v \in Values :
          Write(p, lfns, offset, size, v)
    \/ \E p \in Paths : Delete(p)

Spec == Init /\ [][Next]_vars

-----------------------------------------------------------------------------
(* Properties. *)

\* Everything has its type.
TypeOK ==
    /\ disk.fat \in [1 .. Copies -> [Clusters -> Clusters \cup {0, EOC}]]
    /\ \A c \in Clusters : disk.data[c] \in Values \cup {Junk} \/ DOMAIN disk.data[c] = 0 .. Slots - 1
    /\ stops \in 0 .. MaxStops
    /\ damage \subseteq {"stop", "hidden", "lost", "overwritten", "dangling", "astray"}

\* Whatever failed and wherever a call was stopped, every cluster of a file or
\* a directory is marked and in one chain only, and a directory has no two
\* entries of one short name.
ChainsApart ==
    damage \cap {"dangling", "astray", "overwritten"} = {} =>
        /\ ~Dangling(disk)
        /\ \A x, y \in Reached(disk) :
             LET e == At(disk, x)
                 f == At(disk, y)
             IN  x # y =>
                   /\ e.cluster = 0 \/ f.cluster = 0
                        \/ Owned(disk, e.cluster) \cap Owned(disk, f.cluster) = {}
                   /\ x[1] # y[1] \/ e.short # f.short
        /\ \A head \in Heads(disk) : Owned(disk, head) \cap Owned(disk, ROOT) = {}

\* Without a stop and without the calls known to lose clusters, every marked
\* cluster can be reached: failed calls give back what they took.
NothingLost == damage = {} => {c \in Clusters : disk.fat[1][c] # 0} = InUse(disk)

\* The copies of the table agree, but for an entry that a stop left half
\* written.
CopiesFollow ==
    \A i \in 1 .. Copies :
        Cardinality({c \in Clusters : disk.fat[i][c] # disk.fat[1][c]}) <= stops

\* Only the written clusters, and those between the old end and them, differ.
Edited(old, new) ==
    \E offset \in Offsets, size \in Sizes :
        \A i \in DOMAIN old : i <= offset \/ i > offset + size =>
            i \in DOMAIN new /\ new[i] = old[i]

\* A call, finished, failed or stopped, changes what is found at one path
\* and below it; and what is in a file before and after changes only where it
\* was written.
OnlyTheNamed ==
    [][LET changed == {q \in Paths : tree'[q] # tree[q]}
       IN  damage' \cap {"astray", "overwritten"} = {} =>
             /\ changed = {} \/ \E p \in Paths : \A q \in changed : IsPrefix(p, q)
             /\ \A q \in changed :
                  Len(tree[q]) = 1 /\ Len(tree'[q]) = 1 => Edited(tree[q][1], tree'[q][1])]_vars

=============================================================================
