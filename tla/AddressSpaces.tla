----------------------------- MODULE AddressSpaces -----------------------------
(***************************************************************************)
(* Address spaces: src/src/memory/paging.c, and what fork, exec, brk, exit *)
(* and the timer's clean-up make of frames, tables and the kernel heap.    *)
(*                                                                         *)
(* An address space has a table for each index of its directory that is    *)
(* present, and a table has Entries pages.  Index 0 stands for the tables  *)
(* of a program and its heap, the directory indices 32 to 255; index 1 for *)
(* those of the stack and index 2 for that of the scratch page of fork,    *)
(* both from 256 on.  Those below 32, the kernel's, are shared and fixed.  *)
(* An address is in halves of a page, so that one can be in the middle.    *)
(***************************************************************************)
EXTENDS KernelHeap

CONSTANTS Pids,          \* processes, created in this order when free
          Entries,       \* of a table, 1024 in the code
          StackPages,    \* 4 in the code
          Programs,      \* the pages of the programs there are
          TASK, PIPE, PHDRS, \* sizes of a struct task, a pipe_t and program headers
          Buffers,       \* sizes of the buffers of drivers
          MaxPipes       \* bound

ASSUME EntriesAssumption == Entries \in Nat /\ StackPages \in 1 .. Entries
                            /\ Programs \subseteq 1 .. Entries
ASSUME SizesAssumption == {TASK, PIPE, PHDRS} \cup Buffers \subseteq Nat \ {0}
ASSUME PidsAssumption == Pids \subseteq Nat \ {0} /\ 1 \in Pids

VARIABLES m,            \* frames and heap
          task,         \* the processes
          task_to_free, \* the one the timer is to clean up, or 0
          pipes,        \* the blocks of open pipes
          kernel,       \* the frame and the block that are the kernel's for ever
          leaked,       \* frames and blocks that nothing leads to any more
          starved       \* a failed allocation was not noticed

vars == <<m, task, task_to_free, pipes, kernel, leaked, starved>>

Indices == 0 .. 2
Pages == 0 .. (3 * Entries) - 1
IndexOf(page) == page \div Entries
StackTop == 2 * Entries
Scratch == 2 * Entries
FirstOfExec == 1

\* A process under construction: what it has, with the memory it was taken
\* from; short when an allocation failed and nobody looked.
Nothing == [pd |-> 0, table |-> [i \in Indices |-> 0], page |-> [v \in Pages |-> 0],
            kernel_stack |-> 0, block |-> 0, heap_start |-> 0, heap_end |-> 0]
Building(mem, t) == [m |-> mem, t |-> t, short |-> FALSE]

-----------------------------------------------------------------------------
(* paging.c *)

\* A table is made when there is none; a page that was mapped is forgotten.
vmm_map_page_ex(s, page, frame) ==
    LET i == IndexOf(page)
        a == pmm_alloc_page(s.m)
        new == s.t.table[i] = 0
    IN  [m |-> IF new THEN a.m ELSE s.m,
         t |-> [s.t EXCEPT !.table[i] = IF new THEN a.frame ELSE @, !.page[page] = frame],
         short |-> s.short \/ (new /\ a.frame = 0)]

\* pmm_alloc_page and vmm_map_page_ex, as the loaders call them.
MapNew(s, page) ==
    LET a == pmm_alloc_page(s.m)
    IN  vmm_map_page_ex([s EXCEPT !.m = a.m, !.short = @ \/ a.frame = 0], page, a.frame)

\* The directory, 0 when there is no frame.
create_address_space(s) ==
    LET a == pmm_alloc_page(s.m) IN [s EXCEPT !.m = a.m, !.t = [@ EXCEPT !.pd = a.frame]]

\* Faulty variant: the child gets the frames of its parent's pages.
SharePage(s, parent, page) == [s EXCEPT !.t.page[page] = parent.page[page]]

\* A page of the parent, if it is present, and the copy of it.
ClonePage(s, parent, page) ==
    LET a == pmm_alloc_page(s.m)
    IN  IF parent.page[page] = 0 THEN s
        ELSE [s EXCEPT !.m = a.m, !.t.page[page] = a.frame, !.short = @ \/ a.frame = 0]

\* Each table, and after it its pages.
clone_address_space(s, parent) ==
    LET table(u, i) ==
            LET a == pmm_alloc_page(u.m)
                w == [u EXCEPT !.m = a.m, !.t.table[i] = a.frame, !.short = @ \/ a.frame = 0]
            IN  IF parent.table[i] = 0 THEN u
                ELSE FoldLeft(LAMBDA x, v : ClonePage(x, parent, v), w,
                              [j \in 1 .. Entries |-> (i * Entries) + j - 1])
        d == create_address_space(s)
    IN  IF d.t.pd = 0 THEN d ELSE FoldLeft(table, d, <<0, 1, 2>>)

\* Faulty variant: the tables are kept.
FreePagesOnly(mem, t, from) ==
    FoldLeft(LAMBDA x, v : IF t.page[v] = 0 \/ IndexOf(v) < from THEN x ELSE pmm_free_page(x, t.page[v]),
             pmm_free_page(mem, t.pd), [j \in 1 .. 3 * Entries |-> j - 1])

\* The loops over a directory in timer_handler and elf_exec: the pages and the
\* tables of the indices from a first one on, and the directory.
FreeSpace(mem, t, from) ==
    LET frames == [i \in 1 .. 3 |-> IF i > from THEN t.table[i - 1] ELSE 0]
                      \o [j \in 1 .. 3 * Entries |-> IF IndexOf(j - 1) >= from THEN t.page[j - 1] ELSE 0]
    IN  FoldLeft(LAMBDA x, f : IF f = 0 THEN x ELSE pmm_free_page(x, f),
                 pmm_free_page(mem, t.pd), frames)

-----------------------------------------------------------------------------
(* elf.c and task.c *)

\* The segments of a program from the first page on, then the stack downwards.
LoadProgram(s, n) ==
    FoldLeft(MapNew, s, [j \in 1 .. n |-> j - 1] \o [j \in 1 .. StackPages |-> StackTop - j])

\* A struct task and a kernel stack; the result of kmalloc is not looked at.
create_process(s) ==
    LET k == kmalloc(s.m, TASK)
        a == pmm_alloc_page(k.m)
    IN  [s EXCEPT !.m = a.m, !.t.block = k.at, !.t.kernel_stack = a.frame,
                  !.short = @ \/ k.at = 0 \/ a.frame = 0]

\* The first process, nothing when it is refused.  heap_start is what the new
\* memory holds, zeros.
elf_load(mem, n) ==
    LET k == kmalloc(mem, PHDRS)
        d == create_address_space(Building(k.m, Nothing))
        s == LoadProgram(d, n)
    IN  IF k.at = 0 \/ d.t.pd = 0 THEN Building(mem, Nothing)
        ELSE create_process([s EXCEPT !.m = kfree(@, k.at)])

Init ==
    \E n \in Programs :
        LET a == pmm_alloc_page(memory_init)   \* paging_init
            k == kmalloc(a.m, TASK)            \* tasking_init
            s == elf_load(k.m, n)
        IN  /\ a.frame # 0 /\ s.t.pd # 0      \* else it halts, or is refused
            /\ m = s.m
            /\ task = [pid \in {1} |-> s.t]
            /\ task_to_free = 0 /\ pipes = {}
            /\ kernel = [frame |-> a.frame, block |-> k.at]
            /\ leaked = [frames |-> {}, blocks |-> {}]
            /\ starved = (s.short \/ k.at = 0)

Alive(pid) == ~starved /\ pid \in DOMAIN task /\ pid # task_to_free
Becomes(pid, t) == task' = [task EXCEPT ![pid] = t]
Lost(frames) == leaked' = [leaked EXCEPT !.frames = @ \cup (frames \ {0})]

\* task_fork.  The parent keeps the table of the scratch page.
Fork(pid, child) ==
    /\ Alive(pid) /\ child \notin DOMAIN task
    /\ LET s == clone_address_space(Building(m, Nothing), task[pid])
           k == kmalloc(s.m, TASK)
           a == pmm_alloc_page(k.m)
           scratch == vmm_map_page_ex(Building(a.m, task[pid]), Scratch, a.frame)
           parent == vmm_map_page_ex(scratch, Scratch, 0)
       IN  IF s.t.pd = 0 THEN UNCHANGED vars
           ELSE /\ m' = parent.m
                /\ task' = [p \in DOMAIN task \cup {child} |->
                      IF p = pid THEN parent.t
                      ELSE IF p = child
                      THEN [s.t EXCEPT !.block = k.at, !.kernel_stack = a.frame,
                                       !.heap_start = task[pid].heap_start,
                                       !.heap_end = task[pid].heap_end]
                      ELSE task[p]]
                /\ starved' = (s.short \/ k.at = 0 \/ a.frame = 0 \/ parent.short)
                /\ UNCHANGED <<task_to_free, pipes, kernel, leaked>>

\* elf_exec.  The old program's pages and tables are below index 256 and stay
\* marked; heap_start and heap_end only grow.
Exec(pid, n) ==
    /\ Alive(pid)
    /\ LET old == task[pid]
           k == kmalloc(m, PHDRS)
           d == create_address_space(Building(k.m,
                   [old EXCEPT !.table = Nothing.table, !.page = Nothing.page]))
           s == LoadProgram(d, n)
           end == 2 * n
           kept == {old.table[0]} \cup {old.page[v] : v \in 0 .. Entries - 1}
       IN  IF k.at = 0 THEN UNCHANGED vars
           ELSE IF d.t.pd = 0
           THEN m' = kfree(k.m, k.at) /\ UNCHANGED <<task, task_to_free, pipes, kernel, leaked, starved>>
           ELSE /\ m' = kfree(FreeSpace(s.m, old, FirstOfExec), k.at)
                /\ Becomes(pid, IF end > old.heap_start
                                THEN [s.t EXCEPT !.heap_start = end, !.heap_end = end] ELSE s.t)
                /\ Lost(kept)
                /\ starved' = s.short
                /\ UNCHANGED <<task_to_free, pipes, kernel>>

\* Faulty variant: rounded down.
Down(address) == 2 * (address \div 2)

Up(address) == 2 * ((address + 1) \div 2)

\* The turns of sys_brk's loop for a larger end: one for each page from the
\* old end, which need not begin one, until there is no frame.
Grow(s, end) ==
    LET turns == [j \in 1 .. (Up(end) + 1 - s.t.heap_end) \div 2 |-> s.t.heap_end + (2 * (j - 1))]
        turn(x, address) ==
            IF x.failed THEN x
            ELSE IF pmm_alloc_page(x.s.m).frame = 0 THEN [x EXCEPT !.failed = TRUE]
            ELSE [x EXCEPT !.s = MapNew(x.s, address \div 2),
                           !.lost = @ \cup {x.s.t.page[address \div 2]}]
    IN  FoldLeft(turn, [s |-> s, failed |-> FALSE, lost |-> {}], turns)

\* Those for a smaller one, from the end of the page the new end is in.
Shrink(s, end) ==
    FoldLeft(LAMBDA x, v : IF x.t.page[v] = 0 THEN x
                           ELSE [x EXCEPT !.m = pmm_free_page(@, x.t.page[v]), !.t.page[v] = 0],
             s, [j \in 1 .. (s.t.heap_end + 1 - Up(end)) \div 2 |-> (Up(end) \div 2) + j - 1])

\* sys_brk.  Bound: only after an exec, which sets heap_start, and below the
\* end of the program's table.
Brk(pid, end) ==
    /\ Alive(pid) /\ task[pid].heap_start > 0 /\ end >= task[pid].heap_start
    /\ LET s == Building(m, task[pid])
           g == Grow(s, end)
           r == Shrink(s, end)
       IN  IF Up(end) > task[pid].heap_end
           THEN /\ m' = g.s.m
                /\ Becomes(pid, IF g.failed THEN g.s.t ELSE [g.s.t EXCEPT !.heap_end = end])
                /\ Lost(g.lost)
                /\ starved' = g.s.short
           ELSE /\ m' = r.m
                /\ Becomes(pid, [r.t EXCEPT !.heap_end = end])
                /\ UNCHANGED <<leaked, starved>>
    /\ UNCHANGED <<task_to_free, pipes, kernel>>

\* What a process has, but for its directory's part of the kernel.
FramesOf(t) == ({t.pd, t.kernel_stack} \cup {t.table[i] : i \in Indices}
                   \cup {t.page[v] : v \in Pages}) \ {0}

\* destroy_current_process, and timer_handler for a SIGINT: there is one place
\* for the next to be cleaned up, and what was in it is forgotten.
Exit(pid) ==
    /\ Alive(pid)
    /\ task_to_free' = pid
    /\ IF task_to_free = 0 THEN UNCHANGED <<task, leaked>>
       ELSE /\ task' = [p \in DOMAIN task \ {task_to_free} |-> task[p]]
            /\ leaked' = [frames |-> leaked.frames \cup FramesOf(task[task_to_free]),
                          blocks |-> leaked.blocks \cup {task[task_to_free].block}]
    /\ UNCHANGED <<m, pipes, kernel, starved>>

\* The next timer interrupt in another task.
CleanUp ==
    /\ ~starved /\ task_to_free # 0
    /\ LET t == task[task_to_free]
           freed == pmm_free_page(FreeSpace(m, t, 0), t.kernel_stack)
       IN  m' = kfree(freed, t.block)
    /\ task' = [p \in DOMAIN task \ {task_to_free} |-> task[p]]
    /\ task_to_free' = 0
    /\ UNCHANGED <<pipes, kernel, leaked, starved>>

\* fs_pipe, and pipe_close when the last end is closed.
OpenPipe ==
    /\ ~starved /\ Cardinality(pipes) < MaxPipes
    /\ LET k == kmalloc(m, PIPE)
       IN  m' = k.m /\ pipes' = pipes \cup ({k.at} \ {0})
    /\ UNCHANGED <<task, task_to_free, kernel, leaked, starved>>

ClosePipe(at) ==
    /\ ~starved /\ m' = kfree(m, at) /\ pipes' = pipes \ {at}
    /\ UNCHANGED <<task, task_to_free, kernel, leaked, starved>>

\* A driver takes a buffer and gives it back.
UseBuffer(size) ==
    /\ ~starved
    /\ LET k == kmalloc(m, size) IN k.at # 0 /\ m' = kfree(k.m, k.at)
    /\ UNCHANGED <<task, task_to_free, pipes, kernel, leaked, starved>>

Next ==
    \/ \E pid, child \in Pids : Fork(pid, child)
    \/ \E pid \in Pids, n \in Programs : Exec(pid, n)
    \/ \E pid \in Pids, end \in 1 .. 2 * Entries : Brk(pid, end)
    \/ \E pid \in Pids : Exit(pid)
    \/ CleanUp
    \/ OpenPipe
    \/ \E at \in pipes : ClosePipe(at)
    \/ \E size \in Buffers : UseBuffer(size)

Spec == Init /\ [][Next]_vars

-----------------------------------------------------------------------------
(* Properties.  The model ends where a failed allocation is not noticed:   *)
(* frame 0, which is the kernel's, would be used in its place.             *)

Processes == [pd : Frames, table : [Indices -> Frames \cup {0}], page : [Pages -> Frames \cup {0}],
              kernel_stack : Frames, block : Nat, heap_start : 0 .. 2 * Entries,
              heap_end : 0 .. 2 * Entries]

\* Everything has its type, and the heap is in the frames there are.
MemoryTypeOK ==
    /\ m.bitmap \subseteq Frames /\ m.used \in Nat
    /\ HeapFrames(m) \subseteq Frames
    /\ task_to_free \in DOMAIN task \cup {0} /\ DOMAIN task \subseteq Pids
    /\ starved \/ \A pid \in DOMAIN task : task[pid] \in Processes
    /\ leaked.frames \subseteq Frames

\* The places of a process that hold a frame.
FrameIn(t, x) == CASE x[1] = "pd" -> t.pd
                   [] x[1] = "stack" -> t.kernel_stack
                   [] x[1] = "table" -> t.table[x[2]]
                   [] x[1] = "page" -> t.page[x[2]]
Places == ({"pd", "stack"} \X {0}) \cup ({"table"} \X Indices) \cup ({"page"} \X Pages)
Held == {h \in (DOMAIN task) \X Places : FrameIn(task[h[1]], h[2]) # 0}
HeldFrames == {FrameIn(task[h[1]], h[2]) : h \in Held}

\* A frame is one thing of one process, or the heap's, or the kernel's, and is
\* marked: after any calls, whichever of them ran out of memory.
FramesApart ==
    ~starved =>
        /\ Cardinality(HeldFrames) = Cardinality(Held)
        /\ HeldFrames \cap (HeapFrames(m) \cup {kernel.frame}) = {}
        /\ kernel.frame \notin HeapFrames(m)
        /\ HeldFrames \cup HeapFrames(m) \cup {kernel.frame} \subseteq m.bitmap
        /\ m.used = Cardinality(m.bitmap)

\* What is marked and what the heap gave out is somebody's, but for the program
\* before an exec, the page a brk maps again, and all of a process that exits
\* while another is still to be cleaned up.
OnlyTheseLeak ==
    ~starved =>
        /\ m.bitmap = HeldFrames \cup HeapFrames(m) \cup {kernel.frame} \cup leaked.frames
        /\ {b.at : b \in {c \in ToSet(m.heap) : ~c.is_free}} =
               {kernel.block} \cup {task[pid].block : pid \in DOMAIN task} \cup pipes \cup leaked.blocks

\* The blocks of the heap cover its frames and can be no larger.
HeapTiled == Tiled(m)

\* Until it execs, a process keeps the frame of a page while its heap reaches
\* over the whole page, whatever it and others ask for.  (Of the page that
\* heap_end is in the middle of, a larger brk makes a new one.)
PagesKept ==
    [][\A pid \in DOMAIN task \cap DOMAIN task' :
         ~starved' /\ task'[pid].pd = task[pid].pd =>
             \A v \in Pages :
                /\ task[pid].page[v] # 0
                /\ v >= Entries \/ 2 * (v + 1) <= task[pid].heap_end
                => \/ task'[pid].page[v] = task[pid].page[v]
                   \/ 2 * v >= task'[pid].heap_end /\ v < Entries]_vars

=============================================================================
