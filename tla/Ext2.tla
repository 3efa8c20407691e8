--------------------------------- MODULE Ext2 ---------------------------------
(***************************************************************************)
(* The Ext2 driver, src/src/fs/ext2/ext2.c, on a disk of one block group.  *)
(*                                                                         *)
(* A system call runs with interrupts off, so nobody sees the disk in the  *)
(* middle of a call, except after a stop: a reset or a power failure       *)
(* between two writes of a call leaves the disk as the writes made it so   *)
(* far, and ext2_init reads the superblock and the group descriptor from   *)
(* it again.  A call is therefore an operator from a volume to a volume    *)
(* that also collects every disk it wrote on its way; its action moves to  *)
(* the last one, and Stop moves to any other.                              *)
(*                                                                         *)
(* A block of data holds one value; sizes and offsets are in blocks.  The  *)
(* values stand for blocks that begin with eight zero bytes: read as a     *)
(* directory they hold no entry and have no room for one.  All names have  *)
(* one length, so a directory block has a fixed number of places.  The     *)
(* link count, which no code reads, and the times are left out.            *)
(***************************************************************************)
EXTENDS Integers, FiniteSets, SequencesExt

CONSTANTS Blocks,   \* the blocks of the data area, numbers from 1
          Inodes,   \* the inode numbers
          ROOT,     \* inode 2 in the code
          Direct,   \* direct pointers of an inode, 12 in the code
          Slots,    \* directory entries that fit in a block
          Names, NoName,
          Values,   \* contents of a data block
          Users,    \* user ids; each is the only member of a group of its id
          Offsets, Sizes, \* of a write, in blocks
          MaxDepth, \* bound on the components of a path
          MaxAttributed, \* bound on those of what chmod and chown change
          MaxStops  \* bound on the stops

ASSUME UnitsAssumption == /\ Blocks \subseteq Nat \ {0} /\ IsFiniteSet(Blocks)
                          /\ Inodes \subseteq Nat \ {0} /\ IsFiniteSet(Inodes)
                          /\ ROOT \in Inodes /\ \A n \in Inodes : ROOT <= n
ASSUME SizesAssumption == Direct \in Nat \ {0} /\ Slots \in Nat /\ Slots >= 3
ASSUME UsersAssumption == 0 \in Users /\ Users \subseteq Nat
ASSUME NamesAssumption == Names \cap {".", ".."} = {}
ASSUME ImageAssumption == 1 .. 3 \subseteq Blocks /\ ROOT + 1 \in Inodes /\ Values # {}
\* Bound: no write begins beyond the blocks an inode can have.
ASSUME BoundsAssumption == /\ Offsets \subseteq 0 .. Direct + 1 /\ Sizes \subseteq Nat
                           /\ MaxDepth \in Nat /\ MaxStops \in Nat

VARIABLES disk,    \* what is written
          sb, bgd, \* the cached counts of free blocks and inodes
          euid,    \* of the process that makes the calls
          stops,   \* how many stops there were
          damage,  \* what the calls did that a later check of the disk would find
          tree     \* what root finds at each path

vars == <<disk, sb, bgd, euid, stops, damage, tree>>

Kinds == {"block", "inode"}
Units(k) == IF k = "block" THEN Blocks ELSE Inodes

-----------------------------------------------------------------------------
(* What a disk holds. *)

NoEntry == [inode |-> 0, name |-> NoName]
Zeroed == [kind |-> "zero"]
DataBlock(v) == [kind |-> "data", value |-> v]
DirBlock(entries) ==
    [kind |-> "dir", entry |-> [j \in 0 .. Slots - 1 |->
        IF j < Len(entries) THEN entries[j + 1] ELSE NoEntry]]

NoBlocks == [i \in 0 .. Direct - 1 |-> 0]
\* 0666 and 0777 under the umask 022, and 0700: class and right.
FileMode == ({"u", "g", "o"} \X {"r"}) \cup {<<"u", "w">>}
DirMode == FileMode \cup ({"u", "g", "o"} \X {"x"})
OwnerMode == {"u"} \X {"r", "w", "x"}
Node(kind, u) == [kind |-> kind, uid |-> u, gid |-> u, size |-> 0,
                  mode |-> IF kind = "dir" THEN DirMode ELSE FileMode,
                  i_block |-> NoBlocks, indirect |-> 0]

\* The permission test in ext2_open_file and the others.
Class(node, u) == IF node.uid = u THEN "u" ELSE IF node.gid = u THEN "g" ELSE "o"
Allows(node, u, right) == u = 0 \/ <<Class(node, u), right>> \in node.mode
Permits(d, n, u, right) == Allows(d.node[n], u, right)

\* One indirect block holds one pointer here.
ext2_get_file_block(d, node, i) ==
    CASE i < Direct -> node.i_block[i]
      [] i = Direct /\ node.indirect # 0 -> d.data[node.indirect].to
      [] OTHER -> 0

\* The entries of a directory in the order its blocks are searched.
Positions == 0 .. (Direct * Slots) - 1
BlockAt(d, node, i) == IF i < node.size THEN ext2_get_file_block(d, node, i) ELSE 0
Formatted(d, b) == b # 0 /\ d.data[b].kind = "dir"
EntryIn(d, b, j) == IF Formatted(d, b) THEN d.data[b].entry[j] ELSE NoEntry
EntryAt(d, node, p) == EntryIn(d, BlockAt(d, node, p \div Slots), p % Slots)
Entries(d, node) == [p \in Positions |-> EntryAt(d, node, p)]
Taken(entries) == {p \in Positions : entries[p].inode # 0}
Holding(entries, name) == {p \in Taken(entries) : entries[p].name = name}

InodeOf(entries, name) ==
    LET found == Holding(entries, name)
    IN  IF found = {} THEN 0 ELSE entries[Min(found)].inode
ext2_find_in_dir(d, n, name) ==
    IF d.node[n].kind # "dir" THEN 0 ELSE InodeOf(Entries(d, d.node[n]), name)

\* The inode of a path for a user, or 0.
Step(d, u, n, name) == IF n # 0 /\ Permits(d, n, u, "x") THEN ext2_find_in_dir(d, n, name) ELSE 0
ext2_resolve_path(d, u, path) ==
    LET at[l \in 0 .. Len(path)] == IF l = 0 THEN ROOT ELSE Step(d, u, at[l - 1], path[l])
    IN  at[Len(path)]

-----------------------------------------------------------------------------
(* Volumes: the disk, the cached counts, and the disks written on the way. *)

Volume == [d |-> disk, sb |-> sb, bgd |-> bgd, via |-> {}]

Put(s, d) == [s EXCEPT !.d = d, !.via = @ \cup {s.d}]
ext2_write_block(s, b, content) == Put(s, [s.d EXCEPT !.data[b] = content])
ext2_write_inode_sync(s, n, node) == Put(s, [s.d EXCEPT !.node[n] = node])

\* Faulty variant: the superblock is not written.
CountUnwritten(s, k, by) ==
    Put([s EXCEPT !.sb[k] = @ + by, !.bgd[k] = @ + by], [s.d EXCEPT !.bgd[k] = s.bgd[k] + by])

\* The counts change in memory, then ext2_write_bgd, then ext2_write_superblock.
ext2_write_bgd(s) == Put(s, [s.d EXCEPT !.bgd = s.bgd])
ext2_write_superblock(s) == Put(s, [s.d EXCEPT !.sb = s.sb])
Count(s, k, by) ==
    ext2_write_superblock(ext2_write_bgd([s EXCEPT !.sb[k] = @ + by, !.bgd[k] = @ + by]))

NoUnit(s) == [s |-> s, unit |-> 0]

\* Faulty variant: the bitmap is not written back.
ext2_allocateUnmarked(s, k) ==
    LET free == Units(k) \ s.d.used[k]
    IN  IF s.sb[k] = 0 \/ s.bgd[k] = 0 \/ free = {} THEN NoUnit(s)
        ELSE [s |-> Count(s, k, -1), unit |-> Min(free)]

\* ext2_allocate_block and ext2_allocate_inode: unit 0 when there is none.
Mark(s, k, unit) ==
    [s |-> Count(Put(s, [s.d EXCEPT !.used[k] = @ \cup {unit}]), k, -1), unit |-> unit]
ext2_allocate(s, k) ==
    LET free == Units(k) \ s.d.used[k]
    IN  IF s.sb[k] = 0 \/ s.bgd[k] = 0 \/ free = {} THEN NoUnit(s)
        ELSE Mark(s, k, Min(free))

\* Faulty variant: the counts are left alone.
ext2_freeUncounted(s, k, unit) == Put(s, [s.d EXCEPT !.used[k] = @ \ {unit}])

\* ext2_free_block and ext2_free_inode.
ext2_free(s, k, unit) == Count(Put(s, [s.d EXCEPT !.used[k] = @ \ {unit}]), k, 1)

\* The block is zeroed; the inode has room for its number, or not.
Zero(a) == [a EXCEPT !.s = ext2_write_block(@, a.unit, Zeroed)]
Pointed(a, n, node) ==
    [a EXCEPT !.s = ext2_write_inode_sync(@, n, [node EXCEPT !.i_block[node.size] = a.unit, !.size = @ + 1])]

\* Faulty variant: a block that has no pointer is kept.
AttachKept(a, n, node) ==
    IF a.unit = 0 THEN a
    ELSE IF node.size < Direct THEN Pointed(Zero(a), n, node) ELSE NoUnit(Zero(a).s)

Attach(a, n, node) ==
    IF a.unit = 0 THEN a
    ELSE IF node.size < Direct THEN Pointed(Zero(a), n, node)
    ELSE NoUnit(ext2_free(Zero(a).s, "block", a.unit))
ext2_append_block(s, n) == Attach(ext2_allocate(s, "block"), n, s.d.node[n])

\* The first free place; nobody looks whether n is a directory.
InNewBlock(a, new) ==
    IF a.unit = 0 THEN [ok |-> FALSE, s |-> a.s]
    ELSE [ok |-> TRUE, s |-> ext2_write_block(a.s, a.unit, DirBlock(<<new>>))]
WriteEntry(s, b, j, new) == ext2_write_block(s, b, [s.d.data[b] EXCEPT !.entry[j] = new])
ext2_add_dir_entry(s, n, inode, name) ==
    LET node == s.d.node[n]
        room == {p \in Positions : LET b == BlockAt(s.d, node, p \div Slots)
                                   IN  Formatted(s.d, b) /\ s.d.data[b].entry[p % Slots].inode = 0}
        new == [inode |-> inode, name |-> name]
    IN  IF room = {} THEN InNewBlock(ext2_append_block(s, n), new)
        ELSE [ok |-> TRUE,
              s |-> WriteEntry(s, BlockAt(s.d, node, Min(room) \div Slots), Min(room) % Slots, new)]

ClearEntry(s, node, found) ==
    IF found = {} THEN s
    ELSE WriteEntry(s, BlockAt(s.d, node, Min(found) \div Slots), Min(found) % Slots, NoEntry)
ext2_remove_dir_entry(s, node, name) == ClearEntry(s, node, Holding(Entries(s.d, node), name))

-----------------------------------------------------------------------------
(* The calls.  Each returns the volume, and whether it succeeded.          *)

Failed(s) == [ok |-> FALSE, s |-> s]
Done(s) == [ok |-> TRUE, s |-> s]

\* Faulty variant: the right to write is not looked at.
ParentUnchecked(s, u, path) == ext2_resolve_path(s.d, u, Front(path))

\* ext2_split_path; the directory that is to change, or 0.
Writable(d, n, u) == IF n # 0 /\ Permits(d, n, u, "w") THEN n ELSE 0
Parent(s, u, path) == Writable(s.d, ext2_resolve_path(s.d, u, Front(path)), u)

NamedFile(r, inode) == IF r.ok THEN r ELSE Failed(ext2_free(r.s, "inode", inode))
FileIn(a, u, parent, name) ==
    IF a.unit = 0 THEN Failed(a.s)
    ELSE NamedFile(ext2_add_dir_entry(ext2_write_inode_sync(a.s, a.unit, Node("file", u)),
                                      parent, a.unit, name), a.unit)
CreateFileIn(s, u, parent, name) ==
    IF parent = 0 THEN Failed(s) ELSE FileIn(ext2_allocate(s, "inode"), u, parent, name)
ext2_create_file(s, u, path) == CreateFileIn(s, u, Parent(s, u, path), Last(path))

\* A directory whose entry finds no room keeps its inode and its block.
NamedDir(r, parent) ==
    IF r.ok THEN Done(ext2_write_inode_sync(r.s, parent, r.s.d.node[parent])) ELSE r
Dots(inode, parent) == DirBlock(<<[inode |-> inode, name |-> "."], [inode |-> parent, name |-> ".."]>>)
DirWith(b, inode, u, parent, name) ==
    IF b.unit = 0 THEN Failed(ext2_free(b.s, "inode", inode))
    ELSE NamedDir(ext2_add_dir_entry(
                      ext2_write_block(
                          ext2_write_inode_sync(b.s, inode,
                              [Node("dir", u) EXCEPT !.i_block[0] = b.unit, !.size = 1]),
                          b.unit, Dots(inode, parent)),
                      parent, inode, name), parent)
DirIn(a, u, parent, name) ==
    IF a.unit = 0 THEN Failed(a.s)
    ELSE DirWith(ext2_allocate(a.s, "block"), a.unit, u, parent, name)
CreateDirIn(s, u, parent, name) ==
    IF parent = 0 THEN Failed(s) ELSE DirIn(ext2_allocate(s, "inode"), u, parent, name)
ext2_create_dir(s, u, path) == CreateDirIn(s, u, Parent(s, u, path), Last(path))

\* Faulty variant: the blocks are not freed.
DeleteKeepsBlocks(s, n, node, dir, name) ==
    Done(ext2_remove_dir_entry(
             ext2_free(ext2_write_inode_sync(s, n, [node EXCEPT !.size = 0, !.i_block = NoBlocks]), "inode", n),
             dir, name))

\* Nobody looks at what is deleted: a directory may have entries, and the
\* indirect block and what it names stay allocated.
FreeBlocks(s, blocks) ==
    FoldLeft(LAMBDA t, b : IF b = 0 THEN t ELSE ext2_free(t, "block", b), s, blocks)
Delete(s, n, node, dir, name) ==
    Done(ext2_remove_dir_entry(
             ext2_free(
                 ext2_write_inode_sync(FreeBlocks(s, [i \in 1 .. Direct |-> node.i_block[i - 1]]),
                                       n, [node EXCEPT !.size = 0, !.i_block = NoBlocks]),
                 "inode", n),
             dir, name))
DeleteIn(s, parent, n, name) ==
    IF parent = 0 \/ n = 0 THEN Failed(s) ELSE Delete(s, n, s.d.node[n], s.d.node[parent], name)
ext2_delete_file(s, u, path) ==
    DeleteIn(s, Parent(s, u, path), ext2_resolve_path(s.d, u, path), Last(path))

\* The blocks from offset on, one by one; t is the volume, the inode as the
\* call has it, and how many blocks it wrote.
FillNew(t, a, i, v) ==
    IF a.unit = 0 THEN [t EXCEPT !.full = TRUE]
    ELSE IF i >= Direct THEN [t EXCEPT !.full = TRUE, !.s = ext2_free(a.s, "block", a.unit)]
    ELSE [t EXCEPT !.s = ext2_write_block(a.s, a.unit, DataBlock(v)),
                   !.node.i_block[i] = a.unit, !.written = @ + 1]
WriteBlock(t, i, v) ==
    LET b == ext2_get_file_block(t.s.d, t.node, i)
    IN  IF t.full THEN t
        ELSE IF b # 0 THEN [t EXCEPT !.s = ext2_write_block(@, b, DataBlock(v)), !.written = @ + 1]
        ELSE FillNew(t, ext2_allocate(t.s, "block"), i, v)

\* The size grows to the offset even when nothing could be written.
Written(t, n, offset) ==
    Done(ext2_write_inode_sync(t.s, n, [t.node EXCEPT !.size = Max({@, offset + t.written})]))
WriteTo(s, n, u, offset, size, v) ==
    IF n = 0 THEN Failed(s)
    ELSE IF ~Permits(s.d, n, u, "w") THEN Failed(s)
    ELSE Written(FoldLeft(LAMBDA t, i : WriteBlock(t, offset + i - 1, v),
                          [s |-> s, node |-> s.d.node[n], written |-> 0, full |-> FALSE],
                          [i \in 1 .. size |-> i]), n, offset)
ext2_write_file(s, u, path, offset, size, v) ==
    WriteTo(s, ext2_resolve_path(s.d, u, path), u, offset, size, v)

\* ext2_chown and ext2_chmod: the owner and root may.
SetNode(s, n, u, new) ==
    IF n = 0 THEN Failed(s)
    ELSE IF u # 0 /\ s.d.node[n].uid # u THEN Failed(s)
    ELSE Done(ext2_write_inode_sync(s, n, new))
ext2_chown(s, u, path, uid, gid) ==
    LET n == ext2_resolve_path(s.d, u, path)
    IN  SetNode(s, n, u, [s.d.node[n] EXCEPT !.uid = uid, !.gid = gid])
ext2_chmod(s, u, path, mode) ==
    LET n == ext2_resolve_path(s.d, u, path) IN SetNode(s, n, u, [s.d.node[n] EXCEPT !.mode = mode])

-----------------------------------------------------------------------------
(* The calls that only read. *)

SizeOf(d, n) == IF n = 0 THEN -1 ELSE d.node[n].size
\* A hole reads as zeros.
Content(d, node) ==
    [i \in 0 .. node.size - 1 |->
        LET b == ext2_get_file_block(d, node, i) IN IF b = 0 THEN Zeroed ELSE d.data[b]]
NamesIn(entries) == {entries[p].name : p \in Taken(entries)}
Attributes(node) == [mode |-> node.mode, uid |-> node.uid, gid |-> node.gid]

IsDir(d, n) == n # 0 /\ d.node[n].kind = "dir"
ext2_is_dir(d, u, path) == IsDir(d, ext2_resolve_path(d, u, path))
ext2_get_size(d, u, path) == SizeOf(d, ext2_resolve_path(d, u, path))
ext2_open_file(d, u, path) ==
    LET n == ext2_resolve_path(d, u, path) IN n # 0 /\ Permits(d, n, u, "r")
ext2_read_file(d, u, path) == Content(d, d.node[ext2_resolve_path(d, u, path)])
ext2_list_dir(d, u, path) == NamesIn(Entries(d, d.node[ext2_resolve_path(d, u, path)]))
ext2_stat(d, u, path) == Attributes(d.node[ext2_resolve_path(d, u, path)])

-----------------------------------------------------------------------------
(* What can be reached from the root.                                      *)

Inside(d, n) == {EntryAt(d, d.node[n], p).inode : p \in Positions} \ {0}
More(d, S) == S \cup UNION {Inside(d, n) : n \in {m \in S : d.node[m].kind = "dir"}}
Reached(d) ==
    LET within[l \in 0 .. MaxDepth] == IF l = 0 THEN {ROOT} ELSE More(d, within[l - 1])
    IN  within[MaxDepth]

\* The pointers of an inode: direct, the indirect block, what that one names.
Pointer(d, n, i) ==
    LET node == d.node[n]
    IN  IF i < Direct THEN node.i_block[i]
        ELSE IF i = Direct THEN node.indirect
        ELSE ext2_get_file_block(d, [node EXCEPT !.i_block = NoBlocks], Direct)
Pointers(d, S) == {x \in S \X (0 .. Direct + 1) : Pointer(d, x[1], x[2]) # 0}
Named(d, S) == {Pointer(d, x[1], x[2]) : x \in Pointers(d, S)}

\* The entries that name an inode, but for "." and "..".
Links(d, S) ==
    {x \in {n \in S : d.node[n].kind = "dir"} \X Positions :
        LET e == EntryAt(d, d.node[x[1]], x[2]) IN e.inode # 0 /\ e.name \in Names}

\* Reduction: nothing leads to other inodes and blocks, and a call that takes
\* one writes it whole before anything does, so what they hold is forgotten.
Keep(d, inodes, blocks) ==
    [d EXCEPT !.node = [n \in Inodes |-> IF n \in inodes THEN d.node[n] ELSE Node("none", 0)],
              !.data = [b \in Blocks |-> IF b \in blocks THEN d.data[b] ELSE Zeroed]]
KeepReached(d, S) == Keep(d, S, Named(d, S))
Forget(d) == KeepReached(d, Reached(d))

-----------------------------------------------------------------------------
(***************************************************************************)
(* The disk the build makes: the root directory, and the long file of the  *)
(* image when HasImage: its direct blocks are holes, then comes what its   *)
(* indirect block names.  Paths are absolute and normal, as fs.c gives     *)
(* them to the driver.                                                     *)
(***************************************************************************)

Paths == UNION {[1 .. l -> Names] : l \in 1 .. MaxDepth}
AllPaths == Paths \cup {<<>>}

Mkfs(names) ==
    LET dots == <<[inode |-> ROOT, name |-> "."], [inode |-> ROOT, name |-> ".."]>>
        used == [k \in Kinds |-> IF k = "inode" THEN ROOT .. ROOT + Len(names)
                                 ELSE 1 .. 1 + 2 * Len(names)]
        free == [k \in Kinds |-> Cardinality(Units(k) \ used[k])]
    IN  [used |-> used, sb |-> free, bgd |-> free,
         node |-> [n \in Inodes |->
             IF n = ROOT THEN [Node("dir", 0) EXCEPT !.size = 1, !.i_block[0] = 1]
             ELSE IF n \in used["inode"]
             THEN [Node("file", 0) EXCEPT !.size = Direct + 1, !.indirect = 2]
             ELSE Node("none", 0)],
         data |-> [b \in Blocks |->
             IF b = 1
             THEN DirBlock(dots \o [i \in DOMAIN names |-> [inode |-> ROOT + 1, name |-> names[i]]])
             ELSE IF b \notin used["block"] THEN Zeroed
             ELSE IF b = 2 THEN [kind |-> "indirect", to |-> 3]
             ELSE DataBlock(CHOOSE v \in Values : TRUE)]]

\* What root finds at every path: attributes, and the content of a file.
Found(d, n) ==
    IF n = 0 THEN <<>>
    ELSE <<Attributes(d.node[n]), IF IsDir(d, n) THEN <<>> ELSE Content(d, d.node[n])>>
Tree(d) == [p \in AllPaths |-> Found(d, ext2_resolve_path(d, 0, p))]

Init ==
    /\ disk \in {Mkfs(<<>>)} \cup {Mkfs(<<name>>) : name \in Names}
    /\ sb = disk.sb /\ bgd = disk.bgd
    /\ euid = 0 /\ stops = 0 /\ damage = {}
    /\ tree = Tree(disk)

-----------------------------------------------------------------------------

\* An entry names an inode or blocks that are free.
Unmarked(d, S) == ~ (S \subseteq d.used["inode"] /\ Named(d, S) \subseteq d.used["block"])
Dangling(d) == Unmarked(d, Reached(d))

\* Bound: the model ends once blocks that are in use may be allocated again.
Followed == "dangling" \notin damage

Returns(s, harm) ==
    /\ Followed /\ s.via # {}
    /\ disk' = Forget(s.d) /\ sb' = s.sb /\ bgd' = s.bgd /\ tree' = Tree(s.d)
    /\ damage' = damage \cup harm
    /\ UNCHANGED <<euid, stops>>

Plain == disk.node[ROOT].uid = 0 /\ disk.node[ROOT].mode = DirMode

\* A stop before the last write; ext2_init reads the counts from the disk.
\* Bound: only in a call of root, while Plain: what a call writes is the same
\* whoever makes it.
Stops(s, deletes) ==
    /\ Followed /\ stops < MaxStops /\ euid = 0 /\ Plain
    /\ \E d \in s.via \ {disk} :
        /\ disk' = Forget(d) /\ sb' = d.sb /\ bgd' = d.bgd /\ tree' = Tree(d)
        /\ damage' = damage \cup {"stop"} \cup
                        (IF deletes /\ Dangling(d) THEN {"dangling"} ELSE {})
    /\ stops' = stops + 1
    /\ UNCHANGED euid

\* The call runs to its end, or the machine stops in it.
Calls(r, lost) ==
    \/ Returns(r.s, IF lost THEN {"lost"} ELSE {})
    \/ Stops(r.s, FALSE)

IsFile(path) == tree[path] # <<>> /\ ~ext2_is_dir(disk, 0, path)

\* An entry written into a file, below which nothing is found, is lost.
CreateFile(p) ==
    \E r \in {ext2_create_file(Volume, euid, p)} : Calls(r, r.ok /\ IsFile(Front(p)))

CreateDir(p) ==
    \E r \in {ext2_create_dir(Volume, euid, p)} :
        Calls(r, r.s.d.used # disk.used /\ (~r.ok \/ IsFile(Front(p))))

DeleteFile(p) ==
    \E r \in {ext2_delete_file(Volume, euid, p)}, n \in {ext2_resolve_path(disk, euid, p)} :
        LET lost == r.ok /\ (disk.node[n].indirect # 0 \/ \E x \in Links(disk, {n}) : TRUE)
        IN  \/ Returns(r.s, IF lost THEN {"lost"} ELSE {})
            \/ Stops(r.s, TRUE)

\* A directory that is written loses its entries.
WriteFile(p, offset, size, v) ==
    \E r \in {ext2_write_file(Volume, euid, p, offset, size, v)} :
        Calls(r, r.ok /\ ext2_is_dir(disk, 0, p) /\ size > 0)

\* Bound: not after a stop.
SetMode(p, mode) ==
    stops = 0 /\ \E r \in {ext2_chmod(Volume, euid, p, mode)} : Calls(r, FALSE)
SetOwner(p, u) ==
    stops = 0 /\ \E r \in {ext2_chown(Volume, euid, p, u, u)} : Calls(r, FALSE)

\* Another process makes the next calls, or this one calls seteuid.
\* Bound: not after a stop.
Switch ==
    /\ Followed /\ stops = 0
    /\ euid' \in Users \ {euid}
    /\ UNCHANGED <<disk, sb, bgd, stops, damage, tree>>

Attributed == {p \in AllPaths : Len(p) <= MaxAttributed}

Next ==
    \/ \E p \in Paths : CreateFile(p)
    \/ \E p \in Paths : CreateDir(p)
    \/ \E p \in Paths : DeleteFile(p)
    \/ \E p \in Paths, offset \in Offsets, size \in Sizes, v \in Values :
          WriteFile(p, offset, size, v)
    \/ \E p \in Attributed : SetMode(p, OwnerMode)
    \/ \E p \in Attributed, u \in Users : SetOwner(p, u)
    \/ Switch

Spec == Init /\ [][Next]_vars

-----------------------------------------------------------------------------
(* Properties. *)

Contents == {Zeroed} \cup {DataBlock(v) : v \in Values}
                \cup [kind : {"indirect"}, to : Blocks]
                \cup [kind : {"dir"}, entry : [0 .. Slots - 1 ->
                        [inode : Inodes \cup {0}, name : Names \cup {NoName, ".", ".."}]]]

\* Everything has its type; what the disk counts is what the driver counts.
TypeOK ==
    /\ \A k \in Kinds : disk.used[k] \subseteq Units(k)
    /\ sb \in [Kinds -> Nat] /\ bgd \in [Kinds -> Nat]
    /\ disk.sb = sb /\ disk.bgd = bgd
    /\ \A n \in Inodes : /\ disk.node[n].i_block \in [0 .. Direct - 1 -> Blocks \cup {0}]
                         /\ disk.node[n].size \in 0 .. Direct + 1
    /\ \A b \in Blocks : disk.data[b] \in Contents
    /\ euid \in Users /\ stops \in 0 .. MaxStops
    /\ damage \subseteq {"stop", "lost", "dangling"}

\* Whatever failed, and wherever a call other than a delete was stopped, what
\* the root leads to is marked in the bitmaps, no block has two places in
\* files or directories, and no inode has two entries.
NothingShared ==
    "dangling" \notin damage =>
        LET S == Reached(disk) IN
        /\ ~Dangling(disk)
        /\ Cardinality(Pointers(disk, S)) = Cardinality(Named(disk, S))
        /\ Cardinality(Links(disk, S)) =
              Cardinality({EntryAt(disk, disk.node[x[1]], x[2]).inode : x \in Links(disk, S)})

\* Without a stop and without the calls known to lose blocks, every block and
\* inode that is marked can be reached: failed calls give back what they took.
NothingLost ==
    damage = {} =>
        LET S == Reached(disk) IN
        disk.used["inode"] = S /\ disk.used["block"] = Named(disk, S)

\* The two counts are those of the bitmap; each stop puts them off by one at
\* most, whatever else failed.
CountsFollowBitmaps ==
    Followed =>
        \A k \in Kinds :
            LET free == Cardinality(Units(k) \ disk.used[k])
            IN  /\ sb[k] - free \in -stops .. stops
                /\ bgd[k] - free \in -stops .. stops

MayChange(u, p) ==
    \/ u = 0
    \/ /\ \A l \in 0 .. Len(p) - 1 :
            LET n == ext2_resolve_path(disk, 0, SubSeq(p, 1, l)) IN n # 0 /\ Permits(disk, n, u, "x")
       /\ \/ p # <<>> /\ Permits(disk, ext2_resolve_path(disk, 0, Front(p)), u, "w")
          \/ LET n == ext2_resolve_path(disk, 0, p)
             IN  n # 0 /\ (Permits(disk, n, u, "w") \/ disk.node[n].uid = u)

\* A call, whether it succeeds, fails half way or is stopped, changes what is
\* found at one path and below it and nothing else, and only where the
\* permissions let the caller write.
OnlyItsSubtree ==
    [][LET changed == {q \in AllPaths : tree'[q] # tree[q]}
       IN  \/ changed = {}
           \/ \E p \in AllPaths : (\A q \in changed : IsPrefix(p, q)) /\ MayChange(euid, p)]_vars

=============================================================================
