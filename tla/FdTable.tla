------------------------------- MODULE FdTable -------------------------------
(***************************************************************************)
(* The open files of src/src/fs/fs.c: every process has a table of         *)
(* descriptors that point into one global table, whose slots count the     *)
(* descriptors that name them.  fs_open, fs_pipe, fs_close, fs_dup2, the   *)
(* fork of task.c and the exit of a process work on the counts; pipe_close *)
(* of pipe.c frees the pipe when both its ends are closed.                 *)
(*                                                                         *)
(* A system call runs with interrupts off, as one action, until something  *)
(* it calls turns them on.  Here that is wakeup_tasks_waiting_for_io       *)
(* (task.c:415), called by pipe_close, so what follows in pipe_close,      *)
(* fs_close, fs_dup2 and destroy_current_process is one action per access  *)
(* to shared state.  The kernel is built without optimisation (Makefile,   *)
(* CFLAGS): refcount++ is a load and a store.                              *)
(***************************************************************************)
EXTENDS Integers, FiniteSets

CONSTANTS Procs,         \* the processes
          First,         \* the one that runs first, with no open files
          MaxFds,        \* descriptors of a process, 16 in the code
          MAX_OPEN_FILES,
          Pipes,         \* the addresses kmalloc gives to pipes
          NoPipe,
          None           \* the null pointer

ASSUME FirstAssumption == First \in Procs /\ IsFiniteSet(Procs)
ASSUME TablesAssumption == MaxFds \in Nat /\ MAX_OPEN_FILES \in Nat
ASSUME NoPipeAssumption == NoPipe \notin Pipes
ASSUME NoneAssumption == None \notin Procs \cup (0 .. MAX_OPEN_FILES - 1)

Fds == 0 .. MaxFds - 1
Gfds == 0 .. MAX_OPEN_FILES - 1

VARIABLES used, refcount,   \* global_fd_table
          pipe, mode,       \* internal_data and mode; a file has NoPipe and 0
          readers, writers, \* of each pipe
          allocated,        \* the pipes that kmalloc gave and kfree has not
          fd,               \* fd_table of each process
          pc,               \* where each process is
          cur, object,      \* the slot and the pipe it is closing
          dup,              \* the arguments of its fs_dup2
          loaded,           \* the count it loaded to increment
          dying,            \* the process in destroy_current_process
          raced,            \* a lost increment or a double kfree happened
          cut               \* a process was stopped for good, with open files

table == <<used, refcount, pipe, mode>>
pipes == <<readers, writers, allocated>>
control == <<pc, cur, object, dup, loaded, dying>>
vars == <<used, refcount, pipe, mode, readers, writers, allocated, fd,
          pc, cur, object, dup, loaded, dying, raced, cut>>

(***************************************************************************)
(* "unborn"; "user" between two system calls; "tests", "frees", "closed"   *)
(* in pipe_close and fs_close after the sti: about to test the counts, to  *)
(* free the pipe, to mark the slot unused; "load", "store" in fs_dup2      *)
(* after the close of newfd; "exit", "exitOn" in destroy_current_process   *)
(* with interrupts off and on; "gone".                                     *)
(***************************************************************************)
Windows == {"tests", "frees", "closed", "load", "store"}
Places == {"unborn", "user", "exit", "exitOn", "gone"} \cup Windows

\* fs_init
Init ==
    /\ used = [g \in Gfds |-> FALSE] /\ refcount = [g \in Gfds |-> 0]
    /\ pipe = [g \in Gfds |-> NoPipe] /\ mode = [g \in Gfds |-> 0]
    /\ readers = [q \in Pipes |-> 0] /\ writers = [q \in Pipes |-> 0]
    /\ allocated = {}
    /\ fd = [p \in Procs |-> [l \in Fds |-> None]]
    /\ pc = [p \in Procs |-> IF p = First THEN "user" ELSE "unborn"]
    /\ cur = [p \in Procs |-> None] /\ object = [p \in Procs |-> NoPipe]
    /\ dup = [p \in Procs |-> <<>>]
    /\ loaded = [p \in Procs |-> 0]
    /\ dying = None
    /\ raced = FALSE /\ cut = FALSE

IsLeast(x, S) == x \in S /\ \A y \in S : x <= y

FreeGfds == {g \in Gfds : ~used[g]}
FreeFds(p) == {l \in Fds : fd[p][l] = None}

\* The slots that processes that still run can reach.
Alive == {p \in Procs : pc[p] \notin {"unborn", "gone"}}
Named(g) == \E p \in Alive : \E l \in Fds : fd[p][l] = g

\* What a descriptor names is open: its slot is in use and counted, and its
\* pipe is not freed and counts that end.
DescriptorsStayOpen ==
    \A p \in Alive, l \in Fds :
        LET g == fd[p][l] IN
        g # None =>
            /\ used[g] /\ refcount[g] > 0
            /\ pipe[g] # NoPipe =>
                  /\ pipe[g] \in allocated
                  /\ (IF mode[g] = 1 THEN readers ELSE writers)[pipe[g]] > 0

\* Bound: after a race the model goes on until a descriptor names something
\* that is not open (the code then works on freed memory), and for counts that
\* the descriptors could explain.
Followed ==
    raced => /\ DescriptorsStayOpen
             /\ \A g \in Gfds : refcount[g] <= MaxFds * Cardinality(Procs)

\* A process between two system calls has the CPU: nobody is exiting, for a
\* process in destroy_current_process that loses the CPU never runs again.
Calls(p) == pc[p] = "user" /\ dying = None /\ Followed

-----------------------------------------------------------------------------

fs_open(p) ==
    /\ Calls(p)
    /\ \E l \in FreeFds(p), g \in FreeGfds :
        /\ IsLeast(l, FreeFds(p)) /\ IsLeast(g, FreeGfds)
        /\ used' = [used EXCEPT ![g] = TRUE]
        /\ refcount' = [refcount EXCEPT ![g] = 1]
        /\ pipe' = [pipe EXCEPT ![g] = NoPipe]
        /\ mode' = [mode EXCEPT ![g] = 0]
        /\ fd' = [fd EXCEPT ![p][l] = g]
    /\ UNCHANGED <<pipes, control, raced, cut>>

fs_pipe(p) ==
    /\ Calls(p)
    /\ \E lr, lw \in FreeFds(p), gr, gw \in FreeGfds, q \in Pipes \ allocated :
        /\ IsLeast(lr, FreeFds(p)) /\ IsLeast(lw, FreeFds(p) \ {lr})
        /\ IsLeast(gr, FreeGfds) /\ IsLeast(gw, FreeGfds \ {gr})
        /\ allocated' = allocated \cup {q}
        /\ readers' = [readers EXCEPT ![q] = 1]
        /\ writers' = [writers EXCEPT ![q] = 1]
        /\ used' = [used EXCEPT ![gr] = TRUE, ![gw] = TRUE]
        /\ refcount' = [refcount EXCEPT ![gr] = 1, ![gw] = 1]
        /\ pipe' = [pipe EXCEPT ![gr] = q, ![gw] = q]
        /\ mode' = [mode EXCEPT ![gr] = 1, ![gw] = 2]
        /\ fd' = [fd EXCEPT ![p][lr] = gr, ![p][lw] = gw]
    /\ UNCHANGED <<control, raced, cut>>

\* Faulty: a slot named by two descriptors is counted once.
CopiesOnce(p, g) == IF \E l \in Fds : fd[p][l] = g THEN 1 ELSE 0

\* How many descriptors of p name the slot g
Copies(p, g) == Cardinality({l \in Fds : fd[p][l] = g})

\* task_fork, and create_process on behalf of a process
Fork(p, child) ==
    /\ Calls(p) /\ pc[child] = "unborn"
    /\ refcount' = [g \in Gfds |-> refcount[g] + Copies(p, g)]
    /\ fd' = [fd EXCEPT ![child] = fd[p]]
    /\ pc' = [pc EXCEPT ![child] = "user"]
    /\ UNCHANGED <<used, pipe, mode, pipes, cur, object, dup, loaded, dying, raced, cut>>

-----------------------------------------------------------------------------
(* fs_close(l) and pipe_close.                                             *)

\* This close of the slot g is the last one.
Last(g) == refcount[g] - 1 <= 0
ClosesPipe(g) == Last(g) /\ pipe[g] # NoPipe

\* A slot without a pipe becomes free with its last descriptor.
Released(g) == [used EXCEPT ![g] = ~Last(g)]

\* Faulty: the end of the pipe keeps counting as open.
PipeEndForgets(g) == UNCHANGED <<readers, writers>>

\* pipe_close up to the sti
PipeEnd(g) ==
    /\ readers' = IF mode[g] = 1 THEN [readers EXCEPT ![pipe[g]] = @ - 1] ELSE readers
    /\ writers' = IF mode[g] = 2 THEN [writers EXCEPT ![pipe[g]] = @ - 1] ELSE writers

\* p enters pipe_close with the slot g, and comes out of it with interrupts on.
Enters(p, g) ==
    /\ ClosesPipe(g)
    /\ PipeEnd(g)
    /\ cur' = [cur EXCEPT ![p] = g]
    /\ object' = [object EXCEPT ![p] = pipe[g]]
    /\ pc' = [pc EXCEPT ![p] = "tests"]
    /\ UNCHANGED <<used, allocated>>

\* fs_close of a slot that needs no pipe_close
Passes(g) ==
    /\ ~ClosesPipe(g)
    /\ used' = Released(g)
    /\ UNCHANGED <<pipes, cur, object>>

fs_close(p, l) ==
    LET g == fd[p][l] IN
    /\ Calls(p) /\ g # None
    /\ fd' = [fd EXCEPT ![p][l] = None]
    /\ refcount' = [refcount EXCEPT ![g] = @ - 1]
    /\ Enters(p, g) \/ (Passes(g) /\ UNCHANGED pc)
    /\ UNCHANGED <<pipe, mode, dup, loaded, dying, raced, cut>>

\* pipe.c:89
CloseTests(p) ==
    LET q == object[p] IN
    /\ pc[p] = "tests" /\ dying \in {None, p}
    /\ pc' = [pc EXCEPT ![p] = IF readers[q] = 0 /\ writers[q] = 0
                               THEN "frees" ELSE "closed"]
    /\ UNCHANGED <<table, pipes, fd, cur, object, dup, loaded, dying, raced, cut>>

\* pipe.c:90; another closer of the pipe that has not finished looks at a freed
\* block: it may free it again, even as somebody's new pipe.
CloseFrees(p) ==
    LET q == object[p] IN
    /\ pc[p] = "frees" /\ dying \in {None, p}
    /\ allocated' = allocated \ {q}
    /\ raced' = (raced \/ \E r \in Procs \ {p} :
                            pc[r] \in {"tests", "frees"} /\ object[r] = q)
    /\ pc' = [pc EXCEPT ![p] = "closed"]
    /\ UNCHANGED <<table, readers, writers, fd, cur, object, dup, loaded, dying, cut>>

\* Faulty: the slot stays marked as used.
CloseKeepsSlot(p) ==
    /\ pc[p] = "closed" /\ dying \in {None, p}
    /\ cur' = [cur EXCEPT ![p] = None]
    /\ object' = [object EXCEPT ![p] = NoPipe]
    /\ pc' = [pc EXCEPT ![p] = CASE dying = p -> "exitOn"
                                 [] dup[p] # <<>> -> "load"
                                 [] OTHER -> "user"]
    /\ UNCHANGED <<table, pipes, fd, dup, loaded, dying, raced, cut>>

\* fs.c:339, and the return to the caller of fs_close
CloseEnds(p) ==
    /\ pc[p] = "closed" /\ dying \in {None, p}
    /\ used' = [used EXCEPT ![cur[p]] = FALSE]
    /\ cur' = [cur EXCEPT ![p] = None]
    /\ object' = [object EXCEPT ![p] = NoPipe]
    /\ pc' = [pc EXCEPT ![p] = CASE dying = p -> "exitOn"
                                 [] dup[p] # <<>> -> "load"
                                 [] OTHER -> "user"]
    /\ UNCHANGED <<refcount, pipe, mode, pipes, fd, dup, loaded, dying, raced, cut>>

-----------------------------------------------------------------------------
(* fs_dup2.                                                                *)

\* Faulty: the descriptor is copied and not counted.
Dup2FreeUncounted(p, old, new) ==
    /\ Calls(p) /\ fd[p][old] # None /\ fd[p][new] = None
    /\ fd' = [fd EXCEPT ![p][new] = fd[p][old]]
    /\ UNCHANGED <<table, pipes, control, raced, cut>>

\* newfd is free.
Dup2Free(p, old, new) ==
    /\ Calls(p) /\ fd[p][old] # None /\ fd[p][new] = None
    /\ refcount' = [refcount EXCEPT ![fd[p][old]] = @ + 1]
    /\ fd' = [fd EXCEPT ![p][new] = fd[p][old]]
    /\ UNCHANGED <<used, pipe, mode, pipes, control, raced, cut>>

\* newfd is open and its close returns with interrupts off.
Dup2Over(p, old, new) ==
    LET g == fd[p][old]
        h == fd[p][new]
    IN  /\ Calls(p) /\ old # new /\ g # None /\ h # None
        /\ Passes(h)
        /\ refcount' = [x \in Gfds |-> refcount[x] + (IF x = g THEN 1 ELSE 0)
                                                   - (IF x = h THEN 1 ELSE 0)]
        /\ fd' = [fd EXCEPT ![p][new] = g]
        /\ UNCHANGED <<pipe, mode, pc, dup, loaded, dying, raced, cut>>

\* newfd is the last descriptor of a pipe's end.
Dup2Closes(p, old, new) ==
    /\ Calls(p) /\ old # new /\ fd[p][old] # None /\ fd[p][new] # None
    /\ Enters(p, fd[p][new])
    /\ refcount' = [refcount EXCEPT ![fd[p][new]] = @ - 1]
    /\ fd' = [fd EXCEPT ![p][new] = None]
    /\ dup' = [dup EXCEPT ![p] = <<old, new>>]
    /\ UNCHANGED <<pipe, mode, loaded, dying, raced, cut>>

fs_dup2(p, old, new) ==
    Dup2Free(p, old, new) \/ Dup2Over(p, old, new) \/ Dup2Closes(p, old, new)

\* fs.c:355-356
Dup2Loads(p) ==
    /\ pc[p] = "load" /\ dying = None
    /\ loaded' = [loaded EXCEPT ![p] = refcount[fd[p][dup[p][1]]]]
    /\ pc' = [pc EXCEPT ![p] = "store"]
    /\ UNCHANGED <<table, pipes, fd, cur, object, dup, dying, raced, cut>>

\* fs.c:356-359; an increment or a decrement since the load is lost.
Dup2Stores(p) ==
    LET g == fd[p][dup[p][1]] IN
    /\ pc[p] = "store" /\ dying = None
    /\ refcount' = [refcount EXCEPT ![g] = loaded[p] + 1]
    /\ raced' = (raced \/ refcount[g] # loaded[p])
    /\ fd' = [fd EXCEPT ![p][dup[p][2]] = g]
    /\ pc' = [pc EXCEPT ![p] = "user"]
    /\ dup' = [dup EXCEPT ![p] = <<>>]
    /\ loaded' = [loaded EXCEPT ![p] = 0]
    /\ UNCHANGED <<used, pipe, mode, pipes, cur, object, dying, cut>>

-----------------------------------------------------------------------------
(* destroy_current_process, and what stops a process for good.             *)

ExitBegins(p) ==
    /\ Calls(p)
    /\ pc' = [pc EXCEPT ![p] = "exit"]
    /\ dying' = p
    /\ UNCHANGED <<table, pipes, fd, cur, object, dup, loaded, raced, cut>>

\* Faulty: the descriptor 0 is skipped.
OpenFdsButFirst(p) == {l \in Fds \ {0} : fd[p][l] # None}

OpenFds(p) == {l \in Fds : fd[p][l] # None}

\* One round of the loop of task.c:342-346
ExitCloses(p) ==
    /\ pc[p] \in {"exit", "exitOn"}
    /\ \E l \in OpenFds(p) :
        /\ IsLeast(l, OpenFds(p))
        /\ fd' = [fd EXCEPT ![p][l] = None]
        /\ refcount' = [refcount EXCEPT ![fd[p][l]] = @ - 1]
        /\ Enters(p, fd[p][l]) \/ (Passes(fd[p][l]) /\ UNCHANGED pc)
    /\ UNCHANGED <<pipe, mode, dup, loaded, dying, raced, cut>>

ExitEnds(p) ==
    /\ pc[p] \in {"exit", "exitOn"} /\ OpenFds(p) = {}
    /\ pc' = [pc EXCEPT ![p] = "gone"]
    /\ dying' = None
    /\ UNCHANGED <<table, pipes, fd, cur, object, dup, loaded, raced, cut>>

\* A tick after the sti of a pipe_close: the process is TASK_DEAD and is never
\* chosen again.  (Where in fs_close the tick came makes no difference to
\* anybody: the slot's count is too high, or zero with the slot still used.)
ExitCut(p) ==
    /\ dying = p /\ pc[p] \in {"tests", "frees", "closed", "exitOn"}
    /\ pc' = [pc EXCEPT ![p] = "gone"]
    /\ dying' = None
    /\ cut' = TRUE
    /\ UNCHANGED <<table, pipes, fd, cur, object, dup, loaded, raced>>

\* A tick that finds SIGINT pending (task.c:262-273): no descriptor is closed.
Killed(p) ==
    /\ dying = None /\ pc[p] \in {"user"} \cup Windows
    /\ pc' = [pc EXCEPT ![p] = "gone"]
    /\ cut' = TRUE
    /\ UNCHANGED <<table, pipes, fd, cur, object, dup, loaded, dying, raced>>

-----------------------------------------------------------------------------

Next ==
    \E p \in Procs :
        \/ fs_open(p) \/ fs_pipe(p)
        \/ \E child \in Procs : Fork(p, child)
        \/ \E l \in Fds : fs_close(p, l)
        \/ CloseTests(p) \/ CloseFrees(p) \/ CloseEnds(p)
        \/ \E old, new \in Fds : fs_dup2(p, old, new)
        \/ Dup2Loads(p) \/ Dup2Stores(p)
        \/ ExitBegins(p) \/ ExitCloses(p) \/ ExitEnds(p) \/ ExitCut(p)
        \/ Killed(p)

Spec == Init /\ [][Next]_vars

-----------------------------------------------------------------------------
(* Properties.                                                             *)

\* Every variable stays within its type, and no count falls below zero.
TypeOK ==
    /\ used \in [Gfds -> BOOLEAN] /\ refcount \in [Gfds -> Int]
    /\ pipe \in [Gfds -> Pipes \cup {NoPipe}] /\ mode \in [Gfds -> 0 .. 2]
    /\ readers \in [Pipes -> Int] /\ writers \in [Pipes -> Int]
    /\ allocated \in SUBSET Pipes
    /\ fd \in [Procs -> [Fds -> Gfds \cup {None}]]
    /\ pc \in [Procs -> Places]
    /\ cur \in [Procs -> Gfds \cup {None}]
    /\ object \in [Procs -> Pipes \cup {NoPipe}]
    /\ dup \in [Procs -> (Fds \X Fds) \cup {<<>>}]
    /\ loaded \in [Procs -> Int]
    /\ dying \in Procs \cup {None}
    /\ raced \in BOOLEAN /\ cut \in BOOLEAN
    /\ raced \/ /\ \A g \in Gfds : refcount[g] >= 0
                /\ \A q \in Pipes : readers[q] \in 0 .. 1 /\ writers[q] \in 0 .. 1

\* Descriptors stay open unless the unprotected increment of fs_dup2 lost an
\* update or two closers freed the same pipe.
OpenUnlessRaced == raced \/ DescriptorsStayOpen

\* A slot that is in use is named by a descriptor or being closed, and so is a
\* pipe that is allocated, unless somebody was stopped with open files.
NothingLeaks ==
    raced \/ cut \/
        /\ \A g \in Gfds : used[g] => Named(g) \/ \E p \in Procs : cur[p] = g
        /\ \A q \in allocated : \E g \in Gfds : used[g] /\ pipe[g] = q

\* A pipe counts a reader or a writer exactly as long as somebody has a
\* descriptor of that end: a peer gets the end of the file, or the broken pipe,
\* neither too early nor never.
EndsFollowDescriptors ==
    raced \/ cut \/
        \A q \in allocated, m \in {1, 2} :
            (IF m = 1 THEN readers ELSE writers)[q] > 0
                <=> \E g \in Gfds : Named(g) /\ pipe[g] = q /\ mode[g] = m

=============================================================================
