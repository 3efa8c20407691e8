---------------------------- MODULE FdTableProofs ----------------------------
(***************************************************************************)
(* Proofs about FdTable.  The count of a slot is the number of descriptors *)
(* that name it, those of processes that were stopped among them; the rest *)
(* of the invariant ties slots and pipes to the counts.                    *)
(***************************************************************************)
EXTENDS FdTable, FiniteSetTheorems, TLAPS

-----------------------------------------------------------------------------
(* Counting descriptors. *)

Tables == [Procs -> [Fds -> Gfds \cup {None}]]
RefsIn(f, g) == {x \in Procs \X Fds : f[x[1]][x[2]] = g}
Refs(f, g) == Cardinality(RefsIn(f, g))
One(b) == IF b THEN 1 ELSE 0
CopiesIn(f, p, g) == Cardinality({l \in Fds : f[p][l] = g})

\* f with one descriptor set to v
Set(f, p, l, v) == [f EXCEPT ![p][l] = v]

LEMMA FdsFinite == IsFiniteSet(Fds)
  BY FS_Interval, TablesAssumption DEF Fds, TablesAssumption

\* There are finitely many descriptors.
LEMMA RefsFinite ==
    ASSUME NEW f, NEW g
    PROVE  IsFiniteSet(RefsIn(f, g)) /\ Refs(f, g) \in Nat
<1>1. IsFiniteSet(Procs \X Fds)
  BY FS_Product, FdsFinite, FirstAssumption DEF FirstAssumption
<1>2. RefsIn(f, g) \in SUBSET (Procs \X Fds)
  BY DEF RefsIn
<1>3. IsFiniteSet(RefsIn(f, g))
  BY <1>1, <1>2, FS_Subset
<1> QED
  BY <1>3, FS_CardinalityType DEF Refs

\* A slot is counted exactly when a descriptor names it.
LEMMA RefsPositive ==
    ASSUME NEW f, NEW g
    PROVE  Refs(f, g) > 0 <=> \E p \in Procs, l \in Fds : f[p][l] = g
<1>1. Refs(f, g) = 0 <=> RefsIn(f, g) = {}
  BY RefsFinite, FS_EmptySet DEF Refs
<1>2. RefsIn(f, g) = {} <=> ~ \E p \in Procs, l \in Fds : f[p][l] = g
  <2>1. ASSUME NEW p \in Procs, NEW l \in Fds, f[p][l] = g
        PROVE  <<p, l>> \in RefsIn(f, g)
    BY <2>1 DEF RefsIn
  <2>2. ASSUME NEW x \in RefsIn(f, g)
        PROVE  x[1] \in Procs /\ x[2] \in Fds /\ f[x[1]][x[2]] = g
    BY DEF RefsIn
  <2> QED
    BY <2>1, <2>2
<1> QED
  BY <1>1, <1>2, RefsFinite

\* Setting one descriptor moves one count from what it named to what it names.
LEMMA RefsSet ==
    ASSUME NEW f \in Tables, NEW p \in Procs, NEW l \in Fds, NEW v \in Gfds \cup {None},
           NEW g \in Gfds
    PROVE  Refs(Set(f, p, l, v), g) = Refs(f, g) + One(v = g) - One(f[p][l] = g)
<1> DEFINE x0 == <<p, l>>
           new == Set(f, p, l, v)
           rest == RefsIn(f, g) \ {x0}
<1>1. /\ IsFiniteSet(rest) /\ x0 \notin rest
      /\ Cardinality(rest \cup {x0}) = Cardinality(rest) + 1 /\ Cardinality(rest) \in Nat
  <2>1. IsFiniteSet(RefsIn(f, g))
    BY RefsFinite
  <2>2. IsFiniteSet(rest) /\ x0 \notin rest
    BY <2>1, FS_RemoveElement
  <2>3. Cardinality(rest) \in Nat
    BY <2>2, FS_CardinalityType
  <2>4. Cardinality(rest \cup {x0}) = Cardinality(rest) + 1
    BY <2>2, FS_AddElement
  <2> QED
    BY <2>2, <2>3, <2>4
<1>2. RefsIn(f, g) = IF f[p][l] = g THEN rest \cup {x0} ELSE rest
  BY DEF RefsIn
<1>3. new[p][l] = v /\ \A x \in Procs \X Fds : x # x0 => new[x[1]][x[2]] = f[x[1]][x[2]]
  BY DEF Set, Tables
<1>4. RefsIn(new, g) = IF v = g THEN rest \cup {x0} ELSE rest
  BY <1>3 DEF RefsIn
<1> HIDE DEF rest, new
<1> QED
  BY <1>1, <1>2, <1>4 DEF Refs, One, new

\* A fork adds to each slot the copies the parent has.
LEMMA RefsFork ==
    ASSUME NEW f \in Tables, NEW p \in Procs, NEW child \in Procs, NEW g \in Gfds,
           \A l \in Fds : f[child][l] = None
    PROVE  Refs([f EXCEPT ![child] = f[p]], g)
              = Refs(f, g) + CopiesIn(f, p, g)
<1> DEFINE new == [f EXCEPT ![child] = f[p]]
           old == RefsIn(f, g)
           C == {l \in Fds : f[p][l] = g}
           copies == {child} \X C
<1>1. None # g
  BY NoneAssumption DEF NoneAssumption, Gfds
<1>2. IsFiniteSet(C) /\ Cardinality(C) \in Nat
  BY FdsFinite, FS_Subset, FS_CardinalityType
<1>3. IsFiniteSet(copies) /\ Cardinality(copies) = Cardinality({child}) * Cardinality(C)
  BY <1>2, FS_Singleton, FS_Product
<1>4. Cardinality(copies) = Cardinality(C)
  <2>1. Cardinality({child}) = 1
    BY FS_Singleton
  <2> HIDE DEF copies, C
  <2> QED
    BY <1>2, <1>3, <2>1
<1>5. RefsIn(new, g) = old \cup copies /\ old \cap copies = {}
  BY <1>1 DEF RefsIn, Tables
<1>6. Cardinality({}) = 0 /\ IsFiniteSet(old) /\ Cardinality(old) \in Nat
  BY FS_EmptySet, RefsFinite DEF Refs
<1> HIDE DEF new, old, C, copies
<1>7. Cardinality(old \cup copies) = Cardinality(old) + Cardinality(copies) - Cardinality({})
  <2>1. Cardinality(old \cup copies)
           = Cardinality(old) + Cardinality(copies) - Cardinality(old \cap copies)
    BY <1>3, <1>6, FS_Union
  <2> QED
    BY <1>5, <2>1
<1>8. Cardinality(old \cup copies) = Cardinality(old) + Cardinality(C)
  BY <1>2, <1>4, <1>6, <1>7
<1> QED
  BY <1>5, <1>8 DEF Refs, new, old, C, CopiesIn

-----------------------------------------------------------------------------
(* The invariant. *)

Typed ==
    /\ used \in [Gfds -> BOOLEAN] /\ refcount \in [Gfds -> Int]
    /\ pipe \in [Gfds -> Pipes \cup {NoPipe}] /\ mode \in [Gfds -> 0 .. 2]
    /\ readers \in [Pipes -> Int] /\ writers \in [Pipes -> Int]
    /\ allocated \in SUBSET Pipes
    /\ fd \in Tables
    /\ pc \in [Procs -> Places]
    /\ cur \in [Procs -> Gfds \cup {None}]
    /\ object \in [Procs -> Pipes \cup {NoPipe}]
    /\ dup \in [Procs -> (Fds \X Fds) \cup {<<>>}]
    /\ loaded \in [Procs -> Int]
    /\ dying \in Procs \cup {None}
    /\ raced \in BOOLEAN /\ cut \in BOOLEAN

\* What each place in the code goes with.
Closing == {"tests", "frees", "closed"}
PlacedAt(p) ==
    /\ pc[p] = "unborn" => \A l \in Fds : fd[p][l] = None
    /\ pc[p] \in Closing => cur[p] # None /\ object[p] \in Pipes
    /\ pc[p] \notin Closing \cup {"gone"} => cur[p] = None
    /\ dup[p] # <<>> => /\ pc[p] \in Windows \cup {"gone"}
                        /\ dup[p][1] # dup[p][2]
                        /\ fd[p][dup[p][1]] # None /\ fd[p][dup[p][2]] = None
    /\ pc[p] \in {"load", "store"} => dup[p] # <<>>
    /\ pc[p] \in {"exit", "exitOn"} => dying = p
Placed ==
    /\ \A p \in Procs : PlacedAt(p)
    /\ dying # None => dup[dying] = <<>> /\ pc[dying] \in Closing \cup {"exit", "exitOn"}

\* The counts are those of the descriptors.
Counted == \A g \in Gfds : refcount[g] = Refs(fd, g)

\* A slot in use is counted, or one process is closing it.
UsedFor(g) ==
    /\ refcount[g] > 0 => used[g]
    /\ used[g] => refcount[g] > 0 \/ \E p \in Procs : cur[p] = g
ClosedBy(p) ==
    cur[p] # None => /\ used[cur[p]] /\ refcount[cur[p]] = 0
                     /\ pipe[cur[p]] = object[p] /\ object[p] \in Pipes
SlotsInUse ==
    /\ \A g \in Gfds : UsedFor(g)
    /\ \A p \in Procs : ClosedBy(p)
    /\ \A p, r \in Procs : cur[p] # None /\ cur[p] = cur[r] => p = r

\* An end of a pipe counts one as long as a slot for it is counted, and no
\* pipe has two slots for one end.
Open(m) == IF m = 1 THEN readers ELSE writers
Live(g, q, m) == refcount[g] > 0 /\ pipe[g] = q /\ mode[g] = m
EndOpen(q, m) == Open(m)[q] = IF \E g \in Gfds : Live(g, q, m) THEN 1 ELSE 0
EndOf(g) == refcount[g] > 0 /\ pipe[g] # NoPipe => mode[g] \in {1, 2} /\ pipe[g] \in allocated
EndsCounted ==
    /\ \A q \in Pipes, m \in {1, 2} : EndOpen(q, m)
    /\ \A g \in Gfds : EndOf(g)
    /\ \A g, h \in Gfds, q \in Pipes, m \in {1, 2} : Live(g, q, m) /\ Live(h, q, m) => h = g

\* Who is about to test or to free a pipe has one that is allocated.
Freeing ==
    \A p \in Procs :
        /\ pc[p] \in {"tests", "frees"} => object[p] \in allocated
        /\ pc[p] = "frees" => readers[object[p]] = 0 /\ writers[object[p]] = 0

\* A process that is over left no descriptor, and a pipe without ends is about
\* to be freed.
NobodyStopped ==
    /\ \A p \in Procs : pc[p] = "gone" => \A l \in Fds : fd[p][l] = None
    /\ \A q \in allocated : readers[q] = 0 /\ writers[q] = 0 =>
          \E p \in Procs : pc[p] \in {"tests", "frees"} /\ object[p] = q

Sound == Counted /\ SlotsInUse /\ EndsCounted /\ Freeing
TableInv ==
    /\ Typed /\ Placed
    /\ ~raced => Sound
    /\ ~raced /\ ~cut => NobodyStopped

-----------------------------------------------------------------------------
(* Types and places. *)

LEMMA TypedInit == Init => Typed /\ Placed
<1> SUFFICES ASSUME Init PROVE Typed /\ Placed
  OBVIOUS
<1> USE FirstAssumption, NoPipeAssumption DEF FirstAssumption, NoPipeAssumption
<1>1. Typed
  <2>1. fd \in Tables /\ pc \in [Procs -> Places]
    BY DEF Init, Tables, Places, Windows
  <2>2. /\ used \in [Gfds -> BOOLEAN] /\ refcount \in [Gfds -> Int]
        /\ pipe \in [Gfds -> Pipes \cup {NoPipe}] /\ mode \in [Gfds -> 0 .. 2]
        /\ readers \in [Pipes -> Int] /\ writers \in [Pipes -> Int]
    BY DEF Init
  <2> QED
    BY <2>1, <2>2 DEF Init, Typed
<1>2. Placed
  BY DEF Init, Placed, PlacedAt, Closing, Windows
<1> QED
  BY <1>1, <1>2

\* p gives up a descriptor, as fs_close, fs_dup2 and the exit do.
Drops(p, l) ==
    /\ pc[p] \in {"user", "exit", "exitOn"}
    /\ fd' = [fd EXCEPT ![p][l] = None]
    /\ refcount' = [refcount EXCEPT ![fd[p][l]] = @ - 1]
    /\ Enters(p, fd[p][l]) \/ (Passes(fd[p][l]) /\ UNCHANGED pc)
    /\ UNCHANGED <<pipe, mode, raced>>

LEMMA TypedDrop ==
    ASSUME Typed, NEW p \in Procs, NEW l \in Fds, fd[p][l] \in Gfds, Drops(p, l),
           dup' \in [Procs -> (Fds \X Fds) \cup {<<>>}], UNCHANGED <<loaded, dying, raced, cut>>
    PROVE  Typed'
<1> USE DEF Typed, Tables, Drops
<1>1. CASE Enters(p, fd[p][l])
  <2>1. pipe[fd[p][l]] \in Pipes
    BY <1>1 DEF Enters, ClosesPipe
  <2>2. readers' \in [Pipes -> Int] /\ writers' \in [Pipes -> Int]
    BY <1>1, <2>1 DEF Enters, PipeEnd
  <2>3. /\ cur' \in [Procs -> Gfds \cup {None}] /\ object' \in [Procs -> Pipes \cup {NoPipe}]
        /\ pc' \in [Procs -> Places]
    BY <1>1, <2>1 DEF Enters, Places, Windows
  <2> QED
    BY <1>1, <2>2, <2>3 DEF Enters
<1>2. CASE Passes(fd[p][l]) /\ UNCHANGED pc
  <2>1. (~Last(fd[p][l])) \in BOOLEAN
    BY DEF Last
  <2>2. used' \in [Gfds -> BOOLEAN]
    BY <1>2, <2>1 DEF Passes, Released
  <2>3. refcount' \in [Gfds -> Int] /\ fd' \in [Procs -> [Fds -> Gfds \cup {None}]]
    OBVIOUS
  <2> QED
    BY <1>2, <2>2, <2>3 DEF Passes, pipes
<1> QED
  BY <1>1, <1>2

LEMMA TypedStep == Typed /\ Placed /\ [Next]_vars => Typed'
<1> SUFFICES ASSUME Typed, Placed, [Next]_vars PROVE Typed'
  OBVIOUS
<1> USE DEF Typed, Tables, Places, Windows, Closing
<1>1. ASSUME NEW p \in Procs, fs_open(p) PROVE Typed'
  BY <1>1 DEF fs_open, FreeFds, FreeGfds, pipes, control
<1>2. ASSUME NEW p \in Procs, fs_pipe(p) PROVE Typed'
  <2>1. PICK lr \in Fds, lw \in Fds, gr \in Gfds, gw \in Gfds, q \in Pipes :
           /\ allocated' = allocated \cup {q}
           /\ readers' = [readers EXCEPT ![q] = 1] /\ writers' = [writers EXCEPT ![q] = 1]
           /\ used' = [used EXCEPT ![gr] = TRUE, ![gw] = TRUE]
           /\ refcount' = [refcount EXCEPT ![gr] = 1, ![gw] = 1]
           /\ pipe' = [pipe EXCEPT ![gr] = q, ![gw] = q]
           /\ mode' = [mode EXCEPT ![gr] = 1, ![gw] = 2]
           /\ fd' = [fd EXCEPT ![p][lr] = gr, ![p][lw] = gw]
    BY <1>2 DEF fs_pipe, FreeFds, FreeGfds
  <2>2. UNCHANGED <<control, raced, cut>>
    BY <1>2 DEF fs_pipe
  <2>3. fd' \in [Procs -> [Fds -> Gfds \cup {None}]]
    BY <2>1
  <2>4. mode' \in [Gfds -> 0 .. 2]
    <3>1. \A S : mode \in [Gfds -> S] /\ 1 \in S /\ 2 \in S => mode' \in [Gfds -> S]
      BY <2>1
    <3>2. 1 \in 0 .. 2 /\ 2 \in 0 .. 2
      OBVIOUS
    <3> QED
      BY <3>1, <3>2
  <2>5. refcount' \in [Gfds -> Int]
    BY <2>1
  <2>6. used' \in [Gfds -> BOOLEAN]
    BY <2>1
  <2> QED
    BY <2>1, <2>2, <2>3, <2>4, <2>5, <2>6 DEF control
<1>3. ASSUME NEW p \in Procs, NEW child \in Procs, Fork(p, child) PROVE Typed'
  <2>1. \A g \in Gfds : Copies(p, g) \in Nat
    BY FdsFinite, FS_Subset, FS_CardinalityType DEF Copies
  <2> QED
    BY <1>3, <2>1 DEF Fork, pipes
<1>4. ASSUME NEW p \in Procs, NEW l \in Fds, fs_close(p, l) PROVE Typed'
  <2>1. fd[p][l] \in Gfds
    BY <1>4 DEF fs_close
  <2>2. Drops(p, l) /\ UNCHANGED <<dup, loaded, dying, raced, cut>>
    BY <1>4 DEF fs_close, Drops, Calls
  <2> QED
    BY <2>1, <2>2, TypedDrop
<1>5. ASSUME NEW p \in Procs, CloseTests(p) \/ CloseFrees(p) \/ CloseEnds(p) PROVE Typed'
  BY <1>5 DEF CloseTests, CloseFrees, CloseEnds, table, pipes
<1>6. ASSUME NEW p \in Procs, NEW old \in Fds, NEW new \in Fds, Dup2Free(p, old, new) PROVE Typed'
  BY <1>6 DEF Dup2Free, pipes, control
<1>7. ASSUME NEW p \in Procs, NEW old \in Fds, NEW new \in Fds, Dup2Over(p, old, new) PROVE Typed'
  BY <1>7 DEF Dup2Over, Passes, Released, pipes
<1>8. ASSUME NEW p \in Procs, NEW old \in Fds, NEW new \in Fds, Dup2Closes(p, old, new) PROVE Typed'
  <2>1. Drops(p, new) /\ fd[p][new] \in Gfds
    BY <1>8 DEF Dup2Closes, Drops, Calls
  <2> QED
    BY <1>8, <2>1, TypedDrop DEF Dup2Closes
<1>9. ASSUME NEW p \in Procs, Dup2Loads(p) PROVE Typed'
  BY <1>9 DEF Dup2Loads, table, pipes, Placed, PlacedAt
<1>10. ASSUME NEW p \in Procs, Dup2Stores(p) PROVE Typed'
  BY <1>10 DEF Dup2Stores, pipes, Placed, PlacedAt
<1>11. ASSUME NEW p \in Procs, ExitCloses(p) PROVE Typed'
  <2>1. PICK l \in OpenFds(p) :
           /\ fd' = [fd EXCEPT ![p][l] = None] /\ refcount' = [refcount EXCEPT ![fd[p][l]] = @ - 1]
           /\ Enters(p, fd[p][l]) \/ (Passes(fd[p][l]) /\ UNCHANGED pc)
    BY <1>11 DEF ExitCloses
  <2>2. l \in Fds /\ fd[p][l] \in Gfds
    BY DEF OpenFds
  <2>3. Drops(p, l) /\ UNCHANGED <<dup, loaded, dying, raced, cut>>
    BY <1>11, <2>1 DEF ExitCloses, Drops
  <2> QED
    BY <2>2, <2>3, TypedDrop
<1>12. ASSUME NEW p \in Procs, ExitBegins(p) \/ ExitEnds(p) \/ ExitCut(p) \/ Killed(p) PROVE Typed'
  BY <1>12 DEF ExitBegins, ExitEnds, ExitCut, Killed, table, pipes
<1>13. CASE UNCHANGED vars
  BY <1>13 DEF vars
<1> QED
  BY <1>1, <1>2, <1>3, <1>4, <1>5, <1>6, <1>7, <1>8, <1>9, <1>10, <1>11, <1>12, <1>13
     DEF Next, fs_dup2


\* What other processes are at does not change.
Elsewhere(p) ==
    \A r \in Procs \ {p} :
        /\ pc'[r] = pc[r] /\ cur'[r] = cur[r] /\ object'[r] = object[r]
        /\ dup'[r] = dup[r] /\ fd'[r] = fd[r]

LEMMA PlacedElsewhere ==
    ASSUME Placed, NEW p \in Procs, Elsewhere(p), PlacedAt(p)',
           \/ dying' = dying
           \/ dying = None /\ dying' = p
           \/ dying = p /\ dying' = None,
           dying' # None => dup'[dying'] = <<>> /\ pc'[dying'] \in Closing \cup {"exit", "exitOn"}
    PROVE  Placed'
  BY NoneAssumption DEF Placed, PlacedAt, Elsewhere, NoneAssumption

LEMMA PlacedDrop ==
    ASSUME Typed, Placed, NEW p \in Procs, NEW l \in Fds, fd[p][l] \in Gfds, Drops(p, l),
           \/ dup' = dup
           \/ pc[p] = "user" /\ Enters(p, fd[p][l]) /\ \E old \in Fds :
                old # l /\ fd[p][old] # None /\ dup' = [dup EXCEPT ![p] = <<old, l>>],
           pc[p] = "user" => dying = None,
           UNCHANGED dying
    PROVE  Placed'
<1> USE DEF Typed, Tables, Drops
<1>0. dup[p] = <<>> /\ pc[p] \in {"user", "exit", "exitOn"} /\ fd[p][l] # None
  BY NoneAssumption DEF Placed, PlacedAt, Windows, Closing, NoneAssumption, Gfds
<1>1. CASE Enters(p, fd[p][l])
  <2>1. /\ pc'[p] = "tests" /\ cur'[p] = fd[p][l] /\ object'[p] \in Pipes
        /\ fd'[p][l] = None /\ \A k \in Fds \ {l} : fd'[p][k] = fd[p][k]
    BY <1>1 DEF Enters, ClosesPipe
  <2>2. Elsewhere(p)
    BY <1>1 DEF Enters, Elsewhere
  <2>3. dup'[p] = <<>> \/ (pc[p] = "user" /\ \E old \in Fds : old # l /\ fd[p][old] # None /\ dup'[p] = <<old, l>>)
    BY <1>0
  <2>4. PlacedAt(p)'
    BY <1>0, <2>1, <2>3 DEF PlacedAt, Closing, Windows
  <2>5. dying # None => dup'[dying] = <<>> /\ pc'[dying] \in Closing \cup {"exit", "exitOn"}
    <3>1. CASE dying = p
      BY <1>0, <2>1, <2>3, <3>1, NoneAssumption DEF Closing, NoneAssumption
    <3>2. CASE dying # p
      BY <2>2, <3>2 DEF Elsewhere, Placed
    <3> QED
      BY <3>1, <3>2
  <2> QED
    BY <2>2, <2>4, <2>5, PlacedElsewhere
<1>2. CASE Passes(fd[p][l]) /\ UNCHANGED pc /\ dup' = dup
  <2>1. /\ UNCHANGED <<pc, cur, object, dup>>
        /\ \A k \in Fds \ {l} : fd'[p][k] = fd[p][k]
    BY <1>2 DEF Passes
  <2>2. Elsewhere(p)
    BY <2>1 DEF Elsewhere
  <2>3. PlacedAt(p)'
    BY <1>0, <2>1 DEF Placed, PlacedAt, Closing, Windows
  <2>4. dying # None => dup'[dying] = <<>> /\ pc'[dying] \in Closing \cup {"exit", "exitOn"}
    BY <2>1 DEF Placed
  <2> QED
    BY <2>2, <2>3, <2>4, PlacedElsewhere
<1> QED
  BY <1>1, <1>2 DEF Enters, Passes

LEMMA PlacedStep == Typed /\ Placed /\ [Next]_vars => Placed'
<1> SUFFICES ASSUME Typed, Placed, [Next]_vars PROVE Placed'
  OBVIOUS
<1> USE DEF Typed, Tables
<1>0. \A p \in Procs : pc[p] = "user" => cur[p] = None /\ dup[p] = <<>>
  BY DEF Placed, PlacedAt, Closing, Windows
<1>1. ASSUME NEW p \in Procs, fs_open(p) PROVE Placed'
  <2>1. UNCHANGED control /\ Elsewhere(p) /\ pc[p] = "user" /\ dying = None
    BY <1>1 DEF fs_open, control, Elsewhere, Calls
  <2>2. PlacedAt(p)'
    BY <1>0, <2>1 DEF control, PlacedAt, Closing, Windows
  <2> QED
    BY <2>1, <2>2, PlacedElsewhere DEF control
<1>2. ASSUME NEW p \in Procs, fs_pipe(p) PROVE Placed'
  <2>1. UNCHANGED control /\ Elsewhere(p) /\ pc[p] = "user" /\ dying = None
    BY <1>2 DEF fs_pipe, control, Elsewhere, Calls
  <2>2. PlacedAt(p)'
    BY <1>0, <2>1 DEF control, PlacedAt, Closing, Windows
  <2> QED
    BY <2>1, <2>2, PlacedElsewhere DEF control
<1>3. ASSUME NEW p \in Procs, NEW child \in Procs, Fork(p, child) PROVE Placed'
  <2>1. /\ UNCHANGED <<cur, object, dup, dying>> /\ Elsewhere(child) /\ dying = None
        /\ pc[child] = "unborn" /\ pc'[child] = "user"
    BY <1>3 DEF Fork, Elsewhere, Calls
  <2>2. PlacedAt(child)'
    BY <2>1 DEF Placed, PlacedAt, Closing, Windows
  <2> QED
    BY <2>1, <2>2, PlacedElsewhere
<1>4. ASSUME NEW p \in Procs, NEW l \in Fds, fs_close(p, l) PROVE Placed'
  <2>1. Drops(p, l) /\ UNCHANGED <<dup, dying>> /\ dying = None /\ fd[p][l] \in Gfds
    BY <1>4 DEF fs_close, Drops, Calls
  <2> QED
    BY <2>1, PlacedDrop
<1>5. ASSUME NEW p \in Procs, CloseTests(p) \/ CloseFrees(p) PROVE Placed'
  <2>1. /\ UNCHANGED <<cur, object, dup, dying, fd>> /\ Elsewhere(p)
        /\ pc[p] \in {"tests", "frees"} /\ pc'[p] \in {"frees", "closed"}
    BY <1>5 DEF CloseTests, CloseFrees, Elsewhere
  <2>2. PlacedAt(p)'
    BY <2>1 DEF Placed, PlacedAt, Closing, Windows
  <2>3. dying # None => dup'[dying] = <<>> /\ pc'[dying] \in Closing \cup {"exit", "exitOn"}
    BY <2>1 DEF Placed, Closing, Elsewhere
  <2> QED
    BY <2>1, <2>2, <2>3, PlacedElsewhere
<1>6. ASSUME NEW p \in Procs, CloseEnds(p) PROVE Placed'
  <2>1. /\ UNCHANGED <<dup, dying, fd>> /\ Elsewhere(p) /\ cur'[p] = None
        /\ pc[p] = "closed" /\ dying \in {None, p}
        /\ pc'[p] = CASE dying = p -> "exitOn" [] dup[p] # <<>> -> "load" [] OTHER -> "user"
    BY <1>6 DEF CloseEnds, Elsewhere
  <2>2. /\ dying = p => pc'[p] = "exitOn" /\ dup[p] = <<>>
        /\ dying # p /\ dup[p] # <<>> => pc'[p] = "load"
        /\ dying # p /\ dup[p] = <<>> => pc'[p] = "user"
    BY <2>1, NoneAssumption DEF Placed, NoneAssumption
  <2>3. PlacedAt(p)'
    BY <2>1, <2>2 DEF Placed, PlacedAt, Closing, Windows
  <2>4. dying # None => dup'[dying] = <<>> /\ pc'[dying] \in Closing \cup {"exit", "exitOn"}
    BY <2>1, <2>2 DEF Placed
  <2> QED
    BY <2>1, <2>3, <2>4, PlacedElsewhere
<1>7. ASSUME NEW p \in Procs, NEW old \in Fds, NEW new \in Fds, Dup2Free(p, old, new) \/ Dup2Over(p, old, new)
      PROVE Placed'
  <2>1. UNCHANGED <<pc, cur, object, dup, dying>> /\ Elsewhere(p) /\ pc[p] = "user" /\ dying = None
    BY <1>7 DEF Dup2Free, Dup2Over, Passes, control, Elsewhere, Calls
  <2>2. PlacedAt(p)'
    BY <1>0, <2>1 DEF PlacedAt, Closing, Windows
  <2> QED
    BY <2>1, <2>2, PlacedElsewhere
<1>8. ASSUME NEW p \in Procs, NEW old \in Fds, NEW new \in Fds, Dup2Closes(p, old, new) PROVE Placed'
  <2>1. /\ Drops(p, new) /\ fd[p][new] \in Gfds /\ pc[p] = "user" /\ dying = None
        /\ Enters(p, fd[p][new]) /\ old # new /\ fd[p][old] # None
        /\ dup' = [dup EXCEPT ![p] = <<old, new>>] /\ UNCHANGED dying
    BY <1>8 DEF Dup2Closes, Drops, Calls
  <2> QED
    BY <2>1, PlacedDrop
<1>9. ASSUME NEW p \in Procs, Dup2Loads(p) PROVE Placed'
  <2>1. /\ UNCHANGED <<cur, object, dup, dying, fd>> /\ Elsewhere(p) /\ dying = None
        /\ pc[p] = "load" /\ pc'[p] = "store"
    BY <1>9 DEF Dup2Loads, Elsewhere
  <2>2. PlacedAt(p)'
    BY <2>1 DEF Placed, PlacedAt, Closing, Windows
  <2> QED
    BY <2>1, <2>2, PlacedElsewhere
<1>10. ASSUME NEW p \in Procs, Dup2Stores(p) PROVE Placed'
  <2>1. /\ UNCHANGED <<cur, object, dying>> /\ Elsewhere(p) /\ dying = None
        /\ pc[p] = "store" /\ pc'[p] = "user" /\ dup'[p] = <<>>
    BY <1>10 DEF Dup2Stores, Elsewhere
  <2>2. PlacedAt(p)'
    BY <2>1 DEF Placed, PlacedAt, Closing, Windows
  <2> QED
    BY <2>1, <2>2, PlacedElsewhere
<1>11. ASSUME NEW p \in Procs, ExitCloses(p) PROVE Placed'
  <2>1. PICK l \in OpenFds(p) :
           /\ fd' = [fd EXCEPT ![p][l] = None] /\ refcount' = [refcount EXCEPT ![fd[p][l]] = @ - 1]
           /\ Enters(p, fd[p][l]) \/ (Passes(fd[p][l]) /\ UNCHANGED pc)
    BY <1>11 DEF ExitCloses
  <2>2. l \in Fds /\ fd[p][l] \in Gfds
    BY DEF OpenFds
  <2>3. Drops(p, l) /\ UNCHANGED <<dup, dying>> /\ pc[p] # "user"
    BY <1>11, <2>1 DEF ExitCloses, Drops
  <2> QED
    BY <2>2, <2>3, PlacedDrop
<1>12. ASSUME NEW p \in Procs, ExitBegins(p) PROVE Placed'
  <2>1. /\ UNCHANGED <<cur, object, dup, fd>> /\ Elsewhere(p) /\ dying = None /\ dying' = p
        /\ pc[p] = "user" /\ pc'[p] = "exit"
    BY <1>12 DEF ExitBegins, Elsewhere, Calls
  <2>2. PlacedAt(p)'
    BY <1>0, <2>1 DEF PlacedAt, Closing, Windows
  <2> QED
    BY <1>0, <2>1, <2>2, PlacedElsewhere
<1>13. ASSUME NEW p \in Procs, ExitEnds(p) \/ ExitCut(p) \/ Killed(p) PROVE Placed'
  <2>1. /\ UNCHANGED <<cur, object, dup, fd>> /\ Elsewhere(p) /\ dying' = None
        /\ pc'[p] = "gone" /\ dying \in {None, p} /\ pc[p] # "unborn"
    BY <1>13 DEF ExitEnds, ExitCut, Killed, Elsewhere, Windows, Placed, PlacedAt
  <2>2. PlacedAt(p)'
    BY <2>1 DEF Placed, PlacedAt, Closing, Windows
  <2> QED
    BY <2>1, <2>2, PlacedElsewhere
<1>14. CASE UNCHANGED vars
  BY <1>14 DEF vars, Placed, PlacedAt
<1> QED
  BY <1>1, <1>2, <1>3, <1>4, <1>5, <1>6, <1>7, <1>8, <1>9, <1>10, <1>11, <1>12, <1>13, <1>14
     DEF Next, fs_dup2

-----------------------------------------------------------------------------
(* Slots and pipes follow the counts, unless raced. *)

\* What the counts say of the slots.
Positive(g) == \E p \in Procs, l \in Fds : fd[p][l] = g
LEMMA CountsAreNat ==
    ASSUME Typed, Counted
    PROVE  \A g \in Gfds : refcount[g] \in Nat /\ (refcount[g] > 0 <=> Positive(g))
  BY RefsFinite, RefsPositive DEF Counted, Positive

\* A slot that is not in use is not counted, and nobody is closing it.
LEMMA UnusedSlot ==
    ASSUME Typed, Sound, NEW g \in Gfds, ~used[g]
    PROVE  refcount[g] = 0 /\ \A r \in Procs : cur[r] # g
<1>1. refcount[g] \in Nat
  BY CountsAreNat DEF Sound
<1>2. g # None
  BY NoneAssumption DEF NoneAssumption, Gfds
<1> QED
  BY <1>1, <1>2 DEF Sound, SlotsInUse, UsedFor, ClosedBy

LEMMA SoundInit == Init => Sound
<1> SUFFICES ASSUME Init PROVE Sound
  OBVIOUS
<1>1. \A g \in Gfds : refcount[g] = 0 /\ ~Positive(g)
  BY NoneAssumption DEF Init, Positive, NoneAssumption, Gfds
<1>2. Counted
  <2>1. \A g \in Gfds : ~(Refs(fd, g) > 0) /\ Refs(fd, g) \in Nat
    BY <1>1, RefsPositive, RefsFinite DEF Positive
  <2> QED
    BY <1>1, <2>1 DEF Counted
<1>3. SlotsInUse /\ EndsCounted /\ Freeing
  BY <1>1, NoPipeAssumption DEF Init, SlotsInUse, UsedFor, ClosedBy, EndsCounted, EndOpen, EndOf, Freeing, Open, Live, NoPipeAssumption
<1> QED
  BY <1>2, <1>3 DEF Sound

\* A step that leaves the slots, the descriptors and the ends alone.
SlotsStill == UNCHANGED <<used, refcount, pipe, mode, readers, writers, allocated, fd, cur, object>>
FreesTested(p) ==
    \/ pc'[p] = pc[p]
    \/ pc'[p] \notin {"tests", "frees"}
    \/ pc[p] = "tests" /\ pc'[p] = "frees" /\ readers[object[p]] = 0 /\ writers[object[p]] = 0

LEMMA SoundQuiet ==
    ASSUME Typed, Sound, SlotsStill, \A p \in Procs : FreesTested(p)
    PROVE  Sound'
<1> USE DEF SlotsStill
<1>1. Counted'
  BY DEF Sound, Counted
<1>2. SlotsInUse'
  BY DEF Sound, SlotsInUse, UsedFor, ClosedBy
<1>3. EndsCounted'
  BY DEF Sound, EndsCounted, EndOpen, EndOf, Open, Live
<1>4. Freeing'
  BY DEF Sound, Freeing, FreesTested, Typed
<1> QED
  BY <1>1, <1>2, <1>3, <1>4 DEF Sound

\* fs_open
LEMMA SoundOpen ==
    ASSUME Typed, Placed, Sound, NEW p \in Procs, fs_open(p)
    PROVE  Sound'
<1> USE DEF Typed, Sound
<1>1. PICK l \in Fds, g \in Gfds :
         /\ fd[p][l] = None /\ ~used[g]
         /\ used' = [used EXCEPT ![g] = TRUE] /\ refcount' = [refcount EXCEPT ![g] = 1]
         /\ pipe' = [pipe EXCEPT ![g] = NoPipe] /\ mode' = [mode EXCEPT ![g] = 0]
         /\ fd' = Set(fd, p, l, g)
  BY DEF fs_open, FreeFds, FreeGfds, Set
<1>2. UNCHANGED <<readers, writers, allocated, pc, cur, object>>
  BY DEF fs_open, pipes, control
<1>3. refcount[g] = 0 /\ \A r \in Procs : cur[r] # g
  BY <1>1, UnusedSlot
<1>4. Counted'
  <2>1. \A h \in Gfds : Refs(fd', h) = Refs(fd, h) + One(g = h) - One(None = h)
    BY <1>1, RefsSet
  <2>2. \A h \in Gfds : None # h
    BY NoneAssumption DEF NoneAssumption, Gfds
  <2> QED
    <3>1. ASSUME NEW h \in Gfds PROVE refcount'[h] = Refs(fd', h)
      <4>1. Refs(fd', h) = refcount[h] + One(g = h) /\ refcount[h] \in Int
        <5>1. refcount[h] = Refs(fd, h) /\ refcount[h] \in Nat
          BY CountsAreNat DEF Counted
        <5>2. One(None = h) = 0 /\ One(g = h) \in Nat
          BY <2>2 DEF One
        <5> QED
          BY <2>1, <5>1, <5>2
      <4>2. refcount'[h] = IF g = h THEN 1 ELSE refcount[h]
        BY <1>1
      <4> QED
        BY <1>3, <4>1, <4>2 DEF One
    <3> QED
      BY <3>1 DEF Counted
<1>5. SlotsInUse'
  BY <1>1, <1>2, <1>3 DEF SlotsInUse, UsedFor, ClosedBy
<1>6. \A h \in Gfds, q \in Pipes, m \in {1, 2} : Live(h, q, m)' <=> Live(h, q, m)
  BY <1>1, <1>3, NoPipeAssumption DEF Live, NoPipeAssumption
<1>7. EndsCounted'
  BY <1>1, <1>2, <1>3, <1>6 DEF EndsCounted, EndOpen, EndOf, Open
<1>8. Freeing'
  BY <1>2 DEF Freeing
<1> QED
  BY <1>4, <1>5, <1>7, <1>8

\* fs_pipe
LEMMA SoundPipe ==
    ASSUME Typed, Placed, Sound, NEW p \in Procs, fs_pipe(p)
    PROVE  Sound'
<1> USE DEF Typed, Sound
<1>1. PICK lr \in Fds, lw \in Fds, gr \in Gfds, gw \in Gfds, q \in Pipes \ allocated :
         /\ lr # lw /\ fd[p][lr] = None /\ fd[p][lw] = None /\ gr # gw /\ ~used[gr] /\ ~used[gw]
         /\ allocated' = allocated \cup {q}
         /\ readers' = [readers EXCEPT ![q] = 1] /\ writers' = [writers EXCEPT ![q] = 1]
         /\ used' = [used EXCEPT ![gr] = TRUE, ![gw] = TRUE]
         /\ refcount' = [refcount EXCEPT ![gr] = 1, ![gw] = 1]
         /\ pipe' = [pipe EXCEPT ![gr] = q, ![gw] = q]
         /\ mode' = [mode EXCEPT ![gr] = 1, ![gw] = 2]
         /\ fd' = [fd EXCEPT ![p][lr] = gr, ![p][lw] = gw]
  BY DEF fs_pipe, FreeFds, FreeGfds, IsLeast
<1>2. UNCHANGED <<pc, cur, object>>
  BY DEF fs_pipe, control
<1>3. refcount[gr] = 0 /\ refcount[gw] = 0 /\ \A r \in Procs : cur[r] # gr /\ cur[r] # gw
  BY <1>1, UnusedSlot
<1>4. Counted'
  <2> DEFINE f1 == Set(fd, p, lr, gr)
  <2>1. f1 \in Tables /\ f1[p][lw] = None
    BY <1>1 DEF Set, Tables
  <2>2. fd' = Set(f1, p, lw, gw)
    BY <1>1 DEF Set, Tables
  <2>3. \A h \in Gfds : Refs(f1, h) = Refs(fd, h) + One(gr = h) - One(None = h)
    BY <1>1, RefsSet
  <2> HIDE DEF f1
  <2>4. \A h \in Gfds : Refs(fd', h) = Refs(f1, h) + One(gw = h) - One(None = h)
    BY <2>1, <2>2, RefsSet
  <2>5. \A h \in Gfds : None # h
    BY NoneAssumption DEF NoneAssumption, Gfds
  <2> QED
    <3>1. ASSUME NEW h \in Gfds PROVE refcount'[h] = Refs(fd', h)
      <4>1. Refs(fd', h) = refcount[h] + One(gr = h) + One(gw = h) /\ refcount[h] \in Int
        <5>1. refcount[h] = Refs(fd, h) /\ refcount[h] \in Nat
          BY CountsAreNat DEF Counted
        <5>2. One(None = h) = 0 /\ One(gr = h) \in Nat /\ One(gw = h) \in Nat
          BY <2>5 DEF One
        <5> QED
          BY <2>3, <2>4, <5>1, <5>2
      <4>2. refcount'[h] = IF h \in {gr, gw} THEN 1 ELSE refcount[h]
        BY <1>1
      <4> QED
        BY <1>1, <1>3, <4>1, <4>2 DEF One
    <3> QED
      BY <3>1 DEF Counted
<1>5. SlotsInUse'
  <2>1. \A h \in Gfds : IF h \in {gr, gw} THEN used'[h] /\ refcount'[h] = 1
                        ELSE UNCHANGED <<used[h], refcount[h], pipe[h]>>
    BY <1>1
  <2>2. \A h \in Gfds : UsedFor(h)'
    BY <1>2, <2>1 DEF SlotsInUse, UsedFor, ClosedBy
  <2>3. \A r \in Procs : cur[r] # None => cur[r] \in Gfds \ {gr, gw}
    BY <1>3
  <2>4. \A r \in Procs : ClosedBy(r)'
    BY <1>2, <2>1, <2>3 DEF SlotsInUse, UsedFor, ClosedBy
  <2>5. \A r, t \in Procs : cur'[r] # None /\ cur'[r] = cur'[t] => r = t
    BY <1>2 DEF SlotsInUse, UsedFor, ClosedBy
  <2> QED
    BY <2>2, <2>4, <2>5 DEF SlotsInUse, UsedFor, ClosedBy
<1>6. ~ \E h \in Gfds, m \in {1, 2} : Live(h, q, m)
  BY <1>1, NoPipeAssumption DEF EndsCounted, EndOpen, EndOf, Live, NoPipeAssumption
<1>7. \A h \in Gfds, s \in Pipes, m \in {1, 2} :
         Live(h, s, m)' <=> IF h \in {gr, gw} THEN s = q /\ m = (IF h = gr THEN 1 ELSE 2)
                            ELSE Live(h, s, m)
  BY <1>1 DEF Live
<1>8. EndsCounted'
  <2>1. \A s \in Pipes, m \in {1, 2} : EndOpen(s, m)'
    <3> SUFFICES ASSUME NEW s \in Pipes, NEW m \in {1, 2}
                 PROVE  EndOpen(s, m)'
      OBVIOUS
    <3>1. CASE s = q
      BY <1>1, <1>7, <3>1 DEF Open, EndOpen
    <3>2. CASE s # q
      <4>1. \A h \in Gfds : Live(h, s, m)' <=> Live(h, s, m)
        BY <1>3, <1>7, <3>2 DEF Live
      <4>2. Open(m)'[s] = Open(m)[s]
        BY <1>1, <3>2 DEF Open
      <4> QED
        BY <4>1, <4>2 DEF EndsCounted, EndOpen, EndOf
    <3> QED
      BY <3>1, <3>2
  <2>2. \A h \in Gfds : EndOf(h)'
    BY <1>1 DEF EndsCounted, EndOpen, EndOf
  <2>3. \A g, h \in Gfds, s \in Pipes, m \in {1, 2} : Live(g, s, m)' /\ Live(h, s, m)' => h = g
    BY <1>6, <1>7 DEF EndsCounted, EndOpen, EndOf
  <2> QED
    BY <2>1, <2>2, <2>3 DEF EndsCounted, EndOpen, EndOf
<1>9. Freeing'
  BY <1>1, <1>2 DEF Freeing
<1> QED
  BY <1>4, <1>5, <1>8, <1>9

\* task_fork
LEMMA SoundFork ==
    ASSUME Typed, Placed, Sound, NEW p \in Procs, NEW child \in Procs, Fork(p, child)
    PROVE  Sound'
<1> USE DEF Typed, Sound
<1>1. /\ refcount' = [g \in Gfds |-> refcount[g] + Copies(p, g)]
      /\ fd' = [fd EXCEPT ![child] = fd[p]] /\ pc[child] = "unborn"
      /\ pc' = [pc EXCEPT ![child] = "user"]
      /\ UNCHANGED <<used, pipe, mode, readers, writers, allocated, cur, object>>
  BY DEF Fork, pipes
<1>2. \A g \in Gfds : Copies(p, g) \in Nat /\ (Copies(p, g) > 0 => Positive(g))
  <2> SUFFICES ASSUME NEW g \in Gfds PROVE Copies(p, g) \in Nat /\ (Copies(p, g) > 0 => Positive(g))
    OBVIOUS
  <2>1. IsFiniteSet({l \in Fds : fd[p][l] = g})
    BY FdsFinite, FS_Subset
  <2>2. Copies(p, g) \in Nat /\ (Copies(p, g) = 0 <=> {l \in Fds : fd[p][l] = g} = {})
    BY <2>1, FS_CardinalityType, FS_EmptySet DEF Copies
  <2> QED
    BY <2>2 DEF Positive
<1>3. \A g \in Gfds : (refcount'[g] > 0 <=> refcount[g] > 0) /\ (refcount[g] = 0 => refcount'[g] = 0)
  BY <1>1, <1>2, CountsAreNat
<1>4. Counted'
  <2>1. \A l \in Fds : fd[child][l] = None
    BY <1>1 DEF Placed, PlacedAt
  <2>2. \A g \in Gfds : Refs(fd', g) = Refs(fd, g) + Copies(p, g)
    <3>1. ASSUME NEW g \in Gfds PROVE Refs([fd EXCEPT ![child] = fd[p]], g) = Refs(fd, g) + Copies(p, g)
      <4>1. Copies(p, g) = CopiesIn(fd, p, g)
        BY DEF Copies, CopiesIn
      <4> QED
        BY <2>1, <4>1, RefsFork, ZenonT(30)
    <3> QED
      BY <1>1, <3>1
  <2> QED
    BY <1>1, <2>2 DEF Counted
<1>5. SlotsInUse'
  BY <1>1, <1>3 DEF SlotsInUse, UsedFor, ClosedBy
<1>6. EndsCounted'
  BY <1>1, <1>3 DEF EndsCounted, EndOpen, EndOf, Open, Live
<1>7. Freeing'
  BY <1>1 DEF Freeing
<1> QED
  BY <1>4, <1>5, <1>6, <1>7


\* A descriptor is given up: fs_close, fs_dup2 and the exit.
LEMMA CountedDrop ==
    ASSUME Typed, Counted, NEW p \in Procs, NEW l \in Fds, fd[p][l] \in Gfds, Drops(p, l)
    PROVE  Counted'
<1> DEFINE g == fd[p][l]
<1>1. fd' = Set(fd, p, l, None) /\ \A h \in Gfds : refcount'[h] = refcount[h] - One(g = h)
  BY DEF Drops, Set, Typed, One
<1>2. ASSUME NEW h \in Gfds PROVE refcount'[h] = Refs(fd', h)
  <2>1. Refs(fd', h) = Refs(fd, h) + One(None = h) - One(g = h)
    BY <1>1, RefsSet DEF Typed
  <2>2. refcount[h] = Refs(fd, h) /\ refcount[h] \in Nat
    BY CountsAreNat DEF Counted
  <2>3. None # h
    BY NoneAssumption DEF NoneAssumption, Gfds
  <2>4. One(None = h) = 0 /\ One(g = h) \in Nat
    BY <2>3 DEF One
  <2> QED
    BY <1>1, <2>1, <2>2, <2>4
<1> QED
  BY <1>2 DEF Counted

LEMMA SoundDrop ==
    ASSUME Typed, Placed, Sound, NEW p \in Procs, NEW l \in Fds, fd[p][l] \in Gfds, Drops(p, l)
    PROVE  Sound'
<1> USE DEF Typed
<1> DEFINE g == fd[p][l]
<1>0. Counted /\ SlotsInUse /\ EndsCounted /\ Freeing
  BY DEF Sound
<1>1. /\ refcount' = [refcount EXCEPT ![g] = @ - 1] /\ pipe' = pipe /\ mode' = mode
      /\ Enters(p, g) \/ (Passes(g) /\ UNCHANGED pc)
      /\ pc[p] \notin Closing \cup {"gone"}
  BY DEF Drops, Closing
<1>2. /\ \A h \in Gfds : refcount[h] \in Nat
      /\ refcount[g] > 0 /\ used[g]
  BY <1>0, CountsAreNat DEF Positive, SlotsInUse, UsedFor, ClosedBy
<1>3. cur[p] = None /\ \A r \in Procs : cur[r] # g
  <2>1. g # None
    BY NoneAssumption DEF NoneAssumption, Gfds
  <2> QED
    BY <1>0, <1>1, <1>2, <2>1 DEF Placed, PlacedAt, SlotsInUse, UsedFor, ClosedBy
<1>4. Counted'
  BY <1>0, CountedDrop
<1>5. \A h \in Gfds : refcount'[h] = (IF h = g THEN refcount[g] - 1 ELSE refcount[h])
  BY <1>1
<1> HIDE DEF g
<1>6. g \in Gfds /\ None \notin Gfds
  BY NoneAssumption DEF g, NoneAssumption, Gfds
<1>7. CASE Enters(p, g)
  <2>1. /\ refcount[g] = 1 /\ refcount'[g] = 0 /\ pipe[g] \in Pipes
        /\ UNCHANGED <<used, allocated>>
        /\ cur' = [cur EXCEPT ![p] = g] /\ object' = [object EXCEPT ![p] = pipe[g]]
        /\ pc' = [pc EXCEPT ![p] = "tests"]
    BY <1>2, <1>5, <1>6, <1>7 DEF Enters, ClosesPipe, Last
  <2> DEFINE q0 == pipe[g]
             m0 == mode[g]
  <2>2. m0 \in {1, 2} /\ q0 \in allocated /\ Live(g, q0, m0)
    <3>1. EndOf(g) /\ pipe[g] # NoPipe
      BY <1>0, <1>6, <2>1, NoPipeAssumption DEF EndsCounted, NoPipeAssumption
    <3> QED
      BY <2>1, <3>1 DEF EndOf, Live
  <2>3. \A h \in Gfds, q \in Pipes, m \in {1, 2} : Live(h, q, m)' <=> Live(h, q, m) /\ h # g
    BY <1>1, <1>5, <2>1 DEF Live
  <2>4. \A q \in Pipes, m \in {1, 2} : Open(m)'[q] = Open(m)[q] - One(q = q0 /\ m = m0)
    BY <1>7, <2>1, <2>2 DEF Enters, PipeEnd, Open, One
  <2>5. SlotsInUse'
    <3>1. \A h \in Gfds : UsedFor(h)'
      <4> SUFFICES ASSUME NEW h \in Gfds PROVE UsedFor(h)'
        OBVIOUS
      <4>1. CASE h = g
        BY <2>1, <4>1 DEF UsedFor
      <4>2. CASE h # g
        <5>1. \A r \in Procs : cur[r] = h => cur'[r] = h
          BY <1>3, <1>6, <2>1
        <5> QED
          BY <1>0, <1>5, <2>1, <4>2, <5>1 DEF SlotsInUse, UsedFor
      <4> QED
        BY <4>1, <4>2
    <3>2. \A r \in Procs : ClosedBy(r)'
      <4> SUFFICES ASSUME NEW r \in Procs PROVE ClosedBy(r)'
        OBVIOUS
      <4>1. CASE r = p
        BY <1>1, <1>2, <2>1, <4>1 DEF ClosedBy
      <4>2. CASE r # p
        BY <1>0, <1>1, <1>3, <1>5, <2>1, <4>2 DEF SlotsInUse, UsedFor, ClosedBy
      <4> QED
        BY <4>1, <4>2
    <3>3. \A r, t \in Procs : cur'[r] # None /\ cur'[r] = cur'[t] => r = t
      BY <1>0, <1>3, <2>1 DEF SlotsInUse, UsedFor, ClosedBy
    <3> QED
      BY <3>1, <3>2, <3>3 DEF SlotsInUse, UsedFor, ClosedBy
  <2>6. EndsCounted'
    <3>1. \A q \in Pipes, m \in {1, 2} : EndOpen(q, m)'
      <4> SUFFICES ASSUME NEW q \in Pipes, NEW m \in {1, 2}
                   PROVE  EndOpen(q, m)'
        OBVIOUS
      <4>1. CASE q = q0 /\ m = m0
        <5>1. Open(m)[q] = 1 /\ ~ \E h \in Gfds : Live(h, q, m)'
          BY <1>0, <1>6, <2>2, <2>3, <4>1 DEF EndsCounted, EndOpen, EndOf
        <5> QED
          BY <2>4, <4>1, <5>1 DEF One, EndOpen
      <4>2. CASE ~(q = q0 /\ m = m0)
        <5>1. \A h \in Gfds : Live(h, q, m)' <=> Live(h, q, m)
          BY <2>3, <4>2 DEF Live
        <5>2. Open(m)'[q] = Open(m)[q]
          <6>1. One(q = q0 /\ m = m0) = 0 /\ Open(m)[q] \in Int
            BY <4>2 DEF One, Open
          <6> QED
            BY <2>4, <6>1
        <5> QED
          BY <1>0, <5>1, <5>2 DEF EndsCounted, EndOpen, EndOf
      <4> QED
        BY <4>1, <4>2
    <3>2. \A h \in Gfds : EndOf(h)'
      BY <1>0, <1>1, <1>5, <2>1 DEF EndsCounted, EndOpen, EndOf
    <3>3. \A h, k \in Gfds, q \in Pipes, m \in {1, 2} : Live(h, q, m)' /\ Live(k, q, m)' => k = h
      BY <1>0, <2>3 DEF EndsCounted, EndOpen, EndOf
    <3> QED
      BY <3>1, <3>2, <3>3 DEF EndsCounted, EndOpen, EndOf
  <2>7. Freeing'
    <3> SUFFICES ASSUME NEW r \in Procs
                 PROVE  /\ pc'[r] \in {"tests", "frees"} => object'[r] \in allocated'
                        /\ pc'[r] = "frees" => readers'[object'[r]] = 0 /\ writers'[object'[r]] = 0
      BY DEF Freeing
    <3>1. CASE r = p
      BY <2>1, <2>2, <3>1
    <3>2. CASE r # p
      <4>1. pc'[r] = pc[r] /\ object'[r] = object[r]
        BY <2>1, <3>2
      <4>2. Open(m0)[q0] = 1
        BY <1>0, <1>6, <2>1, <2>2 DEF EndsCounted, EndOpen, EndOf
      <4>3. pc[r] = "frees" => /\ object[r] \in Pipes /\ object[r] # q0
                               /\ Open(1)[object[r]] = 0 /\ Open(2)[object[r]] = 0
        BY <1>0, <2>2, <4>2 DEF Freeing, Open
      <4>4. pc[r] = "frees" => Open(1)'[object[r]] = 0 /\ Open(2)'[object[r]] = 0
        BY <2>4, <4>3 DEF One
      <4> QED
        BY <1>0, <2>1, <4>1, <4>4 DEF Freeing, Open
    <3> QED
      BY <3>1, <3>2
  <2> QED
    BY <1>4, <2>5, <2>6, <2>7 DEF Sound
<1>8. CASE Passes(g) /\ UNCHANGED pc
  <2>1. /\ ~ClosesPipe(g) /\ used' = [used EXCEPT ![g] = ~Last(g)]
        /\ UNCHANGED <<readers, writers, allocated, cur, object, pc>>
    BY <1>8 DEF Passes, Released, pipes
  <2>2. Last(g) <=> refcount[g] = 1
    BY <1>2, <1>6 DEF Last
  <2>3. SlotsInUse'
    <3>1. \A h \in Gfds : used'[h] = (IF h = g THEN refcount[g] # 1 ELSE used[h])
      BY <1>6, <2>1, <2>2
    <3>2. \A h \in Gfds : UsedFor(h)'
      <4> SUFFICES ASSUME NEW h \in Gfds PROVE UsedFor(h)'
        OBVIOUS
      <4>1. CASE h = g
        <5>1. refcount'[h] = refcount[g] - 1 /\ (used'[h] <=> refcount[g] # 1)
          BY <1>5, <3>1, <4>1
        <5> QED
          BY <1>2, <1>6, <5>1 DEF UsedFor
      <4>2. CASE h # g
        BY <1>0, <1>5, <2>1, <3>1, <4>2 DEF SlotsInUse, UsedFor
      <4> QED
        BY <4>1, <4>2
    <3>3. \A r \in Procs : cur[r] # None => cur[r] \in Gfds \ {g}
      BY <1>3
    <3>4. \A r \in Procs : ClosedBy(r)'
      BY <1>0, <1>1, <1>5, <2>1, <3>1, <3>3 DEF SlotsInUse, UsedFor, ClosedBy
    <3>5. \A r, t \in Procs : cur'[r] # None /\ cur'[r] = cur'[t] => r = t
      BY <1>0, <2>1 DEF SlotsInUse, UsedFor, ClosedBy
    <3> QED
      BY <3>2, <3>4, <3>5 DEF SlotsInUse, UsedFor, ClosedBy
  <2>4. \A h \in Gfds : pipe[h] # NoPipe => (refcount'[h] > 0 <=> refcount[h] > 0)
    <3>1. pipe[g] # NoPipe => refcount[g] # 1
      BY <2>1, <2>2 DEF ClosesPipe
    <3>2. pipe[g] # NoPipe => refcount'[g] > 0 /\ refcount[g] > 0
      <4>1. refcount'[g] = refcount[g] - 1 /\ refcount[g] \in Nat /\ refcount[g] > 0
        BY <1>2, <1>5, <1>6
      <4> QED
        BY <3>1, <4>1
    <3> QED
      BY <1>5, <3>2
  <2>5. \A h \in Gfds, q \in Pipes, m \in {1, 2} : Live(h, q, m)' <=> Live(h, q, m)
    BY <1>1, <2>4, NoPipeAssumption DEF Live, NoPipeAssumption
  <2>6. EndsCounted'
    BY <1>0, <1>1, <2>1, <2>4, <2>5 DEF EndsCounted, EndOpen, EndOf, Open
  <2>7. Freeing'
    BY <1>0, <2>1 DEF Freeing
  <2> QED
    BY <1>4, <2>3, <2>6, <2>7 DEF Sound
<1> QED
  BY <1>1, <1>7, <1>8


\* A free descriptor gets a slot that another one names: fs_dup2.
LEMMA SoundGain ==
    ASSUME Typed, Sound, NEW p \in Procs, NEW old \in Fds, NEW l \in Fds,
           fd[p][old] \in Gfds, fd[p][l] = None,
           fd' = Set(fd, p, l, fd[p][old]),
           refcount' = [refcount EXCEPT ![fd[p][old]] = @ + 1],
           UNCHANGED <<used, pipe, mode, readers, writers, allocated, cur, object>>,
           \A r \in Procs : pc'[r] \in {pc[r], "user"}
    PROVE  Sound'
<1> USE DEF Typed
<1> DEFINE g == fd[p][old]
<1>0. Counted /\ SlotsInUse /\ EndsCounted /\ Freeing
  BY DEF Sound
<1>1. (\A h \in Gfds : refcount[h] \in Nat) /\ refcount[g] > 0
  BY <1>0, CountsAreNat DEF Positive
<1>2. \A h \in Gfds : refcount'[h] = refcount[h] + One(g = h)
  BY DEF One
<1>3. Counted'
  <2>1. ASSUME NEW h \in Gfds PROVE refcount'[h] = Refs(fd', h)
    <3>1. Refs(fd', h) = Refs(fd, h) + One(g = h) - One(None = h)
      BY RefsSet
    <3>2. refcount[h] = Refs(fd, h) /\ refcount[h] \in Nat
      BY <1>0, CountsAreNat DEF Counted
    <3>3. None # h
      BY NoneAssumption DEF NoneAssumption, Gfds
    <3>4. One(None = h) = 0 /\ One(g = h) \in Nat
      BY <3>3 DEF One
    <3> QED
      BY <1>2, <3>1, <3>2, <3>4
  <2> QED
    BY <2>1 DEF Counted
<1>4. \A h \in Gfds : (refcount'[h] > 0 <=> refcount[h] > 0) /\ (refcount[h] = 0 => refcount'[h] = 0)
  BY <1>1, <1>2 DEF One
<1> HIDE DEF g
<1>5. SlotsInUse'
  BY <1>0, <1>4 DEF SlotsInUse, UsedFor, ClosedBy
<1>6. EndsCounted'
  BY <1>0, <1>4 DEF EndsCounted, EndOpen, EndOf, Open, Live
<1>7. Freeing'
  BY <1>0 DEF Freeing
<1> QED
  BY <1>3, <1>5, <1>6, <1>7 DEF Sound

\* fs_dup2 over a descriptor whose close is not the last of a pipe's end.
LEMMA SoundOver ==
    ASSUME Typed, Placed, Sound, NEW p \in Procs, NEW old \in Fds, NEW new \in Fds,
           Dup2Over(p, old, new)
    PROVE  Sound'
<1> USE DEF Typed
<1> DEFINE g == fd[p][old]
           h == fd[p][new]
<1>0. Counted /\ SlotsInUse /\ EndsCounted /\ Freeing
  BY DEF Sound
<1>1. /\ g \in Gfds /\ h \in Gfds /\ old # new /\ ~ClosesPipe(h)
      /\ used' = [used EXCEPT ![h] = ~Last(h)] /\ fd' = Set(fd, p, new, g)
      /\ refcount' = [x \in Gfds |-> refcount[x] + (IF x = g THEN 1 ELSE 0)
                                                 - (IF x = h THEN 1 ELSE 0)]
      /\ UNCHANGED <<pipe, mode, readers, writers, allocated, cur, object, pc>>
  <2>1. g # None /\ h # None /\ old # new /\ Passes(h) /\ fd' = Set(fd, p, new, g)
    BY DEF Dup2Over, Set
  <2>2. refcount' = [x \in Gfds |-> refcount[x] + (IF x = g THEN 1 ELSE 0)
                                                - (IF x = h THEN 1 ELSE 0)]
        /\ UNCHANGED <<pipe, mode, pc>>
    BY DEF Dup2Over
  <2>3. g \in Gfds /\ h \in Gfds
    BY <2>1 DEF Tables
  <2> QED
    BY <2>1, <2>2, <2>3 DEF Passes, Released, pipes
<1>2. /\ \A x \in Gfds : refcount[x] \in Nat /\ refcount[x] = Refs(fd, x)
      /\ refcount[g] > 0 /\ refcount[h] > 0
  BY <1>0, <1>1, CountsAreNat DEF Positive, Counted
<1>3. Counted'
  <2>1. ASSUME NEW x \in Gfds PROVE refcount'[x] = Refs(fd', x)
    <3>1. Refs(fd', x) = Refs(fd, x) + One(g = x) - One(h = x)
      BY <1>1, RefsSet
    <3>2. refcount'[x] = refcount[x] + One(g = x) - One(h = x)
      BY <1>1 DEF One
    <3> QED
      BY <1>2, <3>1, <3>2
  <2> QED
    BY <2>1 DEF Counted
<1>4. g = h => refcount[g] >= 2
  <2>1. ASSUME g = h PROVE refcount[g] >= 2
    <3> DEFINE f1 == Set(fd, p, new, None)
    <3>1. Refs(f1, g) = Refs(fd, g) + One(None = g) - One(h = g)
      BY <1>1, RefsSet
    <3>2. Refs(f1, g) > 0
      <4>1. f1[p][old] = g
        BY <1>1 DEF Set, Tables
      <4> QED
        BY <4>1, RefsPositive
    <3>3. One(None = g) = 0 /\ One(h = g) = 1
      BY <1>1, <2>1, NoneAssumption DEF One, NoneAssumption, Gfds
    <3> HIDE DEF f1, g
    <3>4. Refs(f1, g) \in Nat /\ refcount[g] \in Nat /\ refcount[g] = Refs(fd, g)
      BY <1>1, <1>2, RefsFinite
    <3> QED
      BY <3>1, <3>2, <3>3, <3>4
  <2> QED
    BY <2>1
<1> HIDE DEF g, h
<1>5. Last(h) <=> refcount[h] = 1
  BY <1>1, <1>2 DEF Last
<1>6. refcount'[h] > 0 <=> refcount[h] # 1
  <2>1. CASE g = h
    <3>1. refcount'[h] = refcount[h]
      BY <1>1, <1>2, <2>1
    <3> QED
      BY <1>2, <1>4, <2>1, <3>1
  <2>2. CASE g # h
    <3>1. refcount'[h] = refcount[h] - 1 /\ refcount[h] \in Nat
      BY <1>1, <1>2, <2>2
    <3> QED
      BY <1>2, <3>1
  <2> QED
    BY <2>1, <2>2
<1>7. \A x \in Gfds \ {h} :
         /\ refcount'[x] > 0 <=> refcount[x] > 0
         /\ refcount[x] = 0 => refcount'[x] = 0
         /\ used'[x] = used[x]
  <2>1. ASSUME NEW x \in Gfds \ {h} PROVE refcount'[x] = refcount[x] + (IF x = g THEN 1 ELSE 0)
    BY <1>1, <1>2
  <2> QED
    BY <1>1, <1>2, <2>1
<1>8. used'[h] <=> refcount'[h] > 0
  BY <1>1, <1>5, <1>6
<1>9. \A r \in Procs : cur[r] # h
  <2>1. h # None
    BY <1>1, NoneAssumption DEF NoneAssumption, Gfds
  <2> QED
    BY <1>0, <1>2, <2>1 DEF SlotsInUse, ClosedBy
<1>10. SlotsInUse'
  <2>1. \A x \in Gfds : UsedFor(x)'
    <3> SUFFICES ASSUME NEW x \in Gfds PROVE UsedFor(x)'
      OBVIOUS
    <3>1. CASE x = h
      <4>1. used'[x] <=> refcount'[x] > 0
        BY <1>8, <3>1
      <4> QED
        BY <4>1 DEF UsedFor
    <3>2. CASE x # h
      BY <1>0, <1>1, <1>7, <3>2 DEF SlotsInUse, UsedFor
    <3> QED
      BY <3>1, <3>2
  <2>2. \A r \in Procs : ClosedBy(r)'
    BY <1>0, <1>1, <1>7, <1>9 DEF SlotsInUse, ClosedBy
  <2> QED
    BY <1>0, <1>1, <2>1, <2>2 DEF SlotsInUse
<1>11. \A x \in Gfds : pipe[x] # NoPipe => (refcount'[x] > 0 <=> refcount[x] > 0)
  <2>1. pipe[h] # NoPipe => refcount'[h] > 0 /\ refcount[h] > 0
    BY <1>1, <1>2, <1>5, <1>6 DEF ClosesPipe
  <2> QED
    BY <1>7, <2>1
<1>12. \A x \in Gfds, q \in Pipes, m \in {1, 2} : Live(x, q, m)' <=> Live(x, q, m)
  BY <1>1, <1>11, NoPipeAssumption DEF Live, NoPipeAssumption
<1>13. EndsCounted'
  <2>1. \A q \in Pipes, m \in {1, 2} : EndOpen(q, m)'
    <3>1. ASSUME NEW q \in Pipes, NEW m \in {1, 2} PROVE EndOpen(q, m)'
      <4>1. Open(m)'[q] = Open(m)[q] /\ EndOpen(q, m)
        BY <1>0, <1>1 DEF Open, EndsCounted
      <4> QED
        BY <1>12, <4>1 DEF EndOpen
    <3> QED
      BY <3>1
  <2>2. \A x \in Gfds : EndOf(x)'
    BY <1>0, <1>1, <1>11 DEF EndsCounted, EndOf
  <2>3. \A x, y \in Gfds, q \in Pipes, m \in {1, 2} : Live(x, q, m)' /\ Live(y, q, m)' => y = x
    BY <1>0, <1>12 DEF EndsCounted
  <2> QED
    BY <2>1, <2>2, <2>3 DEF EndsCounted
<1>14. Freeing'
  BY <1>0, <1>1 DEF Freeing
<1> QED
  BY <1>3, <1>10, <1>13, <1>14 DEF Sound

\* pipe.c:90, when no other closer of the pipe is at work
LEMMA SoundFrees ==
    ASSUME Typed, Placed, Sound, NEW p \in Procs, CloseFrees(p), ~raced'
    PROVE  Sound'
<1> USE DEF Typed
<1>0. Counted /\ SlotsInUse /\ EndsCounted /\ Freeing
  BY DEF Sound
<1> DEFINE q == object[p]
<1>1. /\ pc[p] = "frees" /\ pc' = [pc EXCEPT ![p] = "closed"] /\ allocated' = allocated \ {q}
      /\ UNCHANGED <<table, readers, writers, fd, cur, object>>
      /\ \A r \in Procs \ {p} : pc[r] \in {"tests", "frees"} => object[r] # q
  BY DEF CloseFrees
<1>2. q \in Pipes /\ readers[q] = 0 /\ writers[q] = 0
  BY <1>0, <1>1 DEF Freeing
<1>3. \A h \in Gfds, m \in {1, 2} : ~Live(h, q, m)
  <2>1. EndOpen(q, 1) /\ EndOpen(q, 2) /\ Open(1)[q] = 0 /\ Open(2)[q] = 0
    BY <1>0, <1>2 DEF EndsCounted, Open
  <2> QED
    BY <2>1 DEF EndOpen
<1>4. \A h \in Gfds : refcount[h] > 0 /\ pipe[h] # NoPipe => pipe[h] # q
  BY <1>0, <1>3 DEF EndsCounted, EndOf, Live
<1> HIDE DEF q
<1>5. Counted'
  BY <1>0, <1>1 DEF Counted, table
<1>6. SlotsInUse'
  BY <1>0, <1>1 DEF SlotsInUse, UsedFor, ClosedBy, table
<1>7. EndsCounted'
  BY <1>0, <1>1, <1>4 DEF EndsCounted, EndOpen, EndOf, Open, Live, table
<1>8. Freeing'
  BY <1>0, <1>1 DEF Freeing
<1> QED
  BY <1>5, <1>6, <1>7, <1>8 DEF Sound

\* fs.c:339
LEMMA SoundEnds ==
    ASSUME Typed, Placed, Sound, NEW p \in Procs, CloseEnds(p)
    PROVE  Sound'
<1> USE DEF Typed
<1>0. Counted /\ SlotsInUse /\ EndsCounted /\ Freeing
  BY DEF Sound
<1> DEFINE g == cur[p]
<1>1. /\ used' = [used EXCEPT ![g] = FALSE] /\ cur' = [cur EXCEPT ![p] = None]
      /\ object' = [object EXCEPT ![p] = NoPipe] /\ pc[p] = "closed"
      /\ UNCHANGED <<refcount, pipe, mode, readers, writers, allocated, fd>>
      /\ \A r \in Procs \ {p} : pc'[r] = pc[r]
      /\ pc'[p] \in {"exitOn", "load", "user"}
  BY DEF CloseEnds, pipes
<1>2. g \in Gfds /\ refcount[g] = 0 /\ \A r \in Procs \ {p} : cur[r] # g
  BY <1>0, <1>1 DEF Placed, PlacedAt, Closing, SlotsInUse, ClosedBy
<1> HIDE DEF g
<1>3. Counted'
  BY <1>0, <1>1 DEF Counted
<1>4. SlotsInUse'
  <2>1. \A h \in Gfds : UsedFor(h)'
    <3>1. \A h \in Gfds : h # g => \A r \in Procs : cur[r] = h => cur'[r] = h
      BY <1>1 DEF g
    <3> QED
      BY <1>0, <1>1, <1>2, <3>1 DEF SlotsInUse, UsedFor
  <2>2. \A r \in Procs : ClosedBy(r)'
    BY <1>0, <1>1, <1>2 DEF SlotsInUse, ClosedBy
  <2>3. \A r, t \in Procs : cur'[r] # None /\ cur'[r] = cur'[t] => r = t
    BY <1>0, <1>1 DEF SlotsInUse
  <2> QED
    BY <2>1, <2>2, <2>3 DEF SlotsInUse
<1>5. EndsCounted'
  BY <1>0, <1>1 DEF EndsCounted, EndOpen, EndOf, Open, Live
<1>6. Freeing'
  BY <1>0, <1>1 DEF Freeing
<1> QED
  BY <1>3, <1>4, <1>5, <1>6 DEF Sound


\* What ~raced' and the steps of fs_dup2 give.
LEMMA SoundStores ==
    ASSUME Typed, Placed, Sound, NEW p \in Procs, Dup2Stores(p), ~raced'
    PROVE  Sound'
<1> USE DEF Typed, Tables
<1>1. PICK old \in Fds, l \in Fds : dup[p] = <<old, l>>
  BY DEF Dup2Stores, Placed, PlacedAt
<1>2. fd[p][old] \in Gfds /\ fd[p][l] = None
  BY <1>1 DEF Dup2Stores, Placed, PlacedAt
<1>3. /\ refcount' = [refcount EXCEPT ![fd[p][old]] = @ + 1]
      /\ fd' = Set(fd, p, l, fd[p][old])
  <2>1. dup[p][1] = old /\ dup[p][2] = l
    BY <1>1
  <2>2. /\ refcount' = [refcount EXCEPT ![fd[p][old]] = loaded[p] + 1]
        /\ fd' = [fd EXCEPT ![p][l] = fd[p][old]]
        /\ raced' = (raced \/ refcount[fd[p][old]] # loaded[p])
    BY <2>1 DEF Dup2Stores
  <2>3. loaded[p] = refcount[fd[p][old]]
    BY <2>2
  <2>4. refcount' = [refcount EXCEPT ![fd[p][old]] = refcount[fd[p][old]] + 1]
    BY <2>2, <2>3
  <2> QED
    BY <2>2, <2>4 DEF Set
<1>4. /\ UNCHANGED <<used, pipe, mode, readers, writers, allocated, cur, object>>
      /\ \A r \in Procs : pc'[r] \in {pc[r], "user"}
  BY DEF Dup2Stores, pipes
<1> QED
  BY <1>2, <1>3, <1>4, SoundGain

LEMMA SoundStep == Typed /\ Placed /\ Sound /\ [Next]_vars /\ ~raced' => Sound'
<1> SUFFICES ASSUME Typed, Placed, Sound, [Next]_vars, ~raced' PROVE Sound'
  OBVIOUS
<1>1. ASSUME NEW p \in Procs, fs_open(p) \/ fs_pipe(p) PROVE Sound'
  BY <1>1, SoundOpen, SoundPipe
<1>2. ASSUME NEW p \in Procs, NEW child \in Procs, Fork(p, child) PROVE Sound'
  BY <1>2, SoundFork
<1>3. ASSUME NEW p \in Procs, NEW l \in Fds, fs_close(p, l) PROVE Sound'
  <2>1. Drops(p, l) /\ fd[p][l] \in Gfds
    BY <1>3 DEF fs_close, Drops, Calls, Typed, Tables
  <2> QED
    BY <2>1, SoundDrop
<1>4. ASSUME NEW p \in Procs, CloseTests(p) PROVE Sound'
  <2>1. SlotsStill
    BY <1>4 DEF CloseTests, pipes, table, SlotsStill
  <2>2. \A r \in Procs : FreesTested(r)
    BY <1>4 DEF CloseTests, Typed, FreesTested
  <2> QED
    BY <2>1, <2>2, SoundQuiet
<1>5. ASSUME NEW p \in Procs, CloseFrees(p) \/ CloseEnds(p) PROVE Sound'
  BY <1>5, SoundFrees, SoundEnds
<1>6. ASSUME NEW p \in Procs, NEW old \in Fds, NEW new \in Fds, Dup2Free(p, old, new) PROVE Sound'
  <2>1. /\ fd[p][old] \in Gfds /\ fd[p][new] = None
        /\ fd' = Set(fd, p, new, fd[p][old])
        /\ refcount' = [refcount EXCEPT ![fd[p][old]] = @ + 1]
    BY <1>6 DEF Dup2Free, Set, Typed, Tables
  <2>2. /\ UNCHANGED <<used, pipe, mode, readers, writers, allocated, cur, object>>
        /\ \A r \in Procs : pc'[r] \in {pc[r], "user"}
    BY <1>6 DEF Dup2Free, pipes, control
  <2> QED
    BY <2>1, <2>2, SoundGain
<1>7. ASSUME NEW p \in Procs, NEW old \in Fds, NEW new \in Fds, Dup2Over(p, old, new) PROVE Sound'
  BY <1>7, SoundOver
<1>8. ASSUME NEW p \in Procs, NEW old \in Fds, NEW new \in Fds, Dup2Closes(p, old, new) PROVE Sound'
  <2>1. Drops(p, new) /\ fd[p][new] \in Gfds
    BY <1>8 DEF Dup2Closes, Drops, Calls, Typed, Tables
  <2> QED
    BY <2>1, SoundDrop
<1>9. ASSUME NEW p \in Procs, Dup2Loads(p) PROVE Sound'
  <2>1. SlotsStill
    BY <1>9 DEF Dup2Loads, pipes, table, SlotsStill
  <2>2. \A r \in Procs : FreesTested(r)
    BY <1>9 DEF Dup2Loads, Typed, FreesTested
  <2> QED
    BY <2>1, <2>2, SoundQuiet
<1>10. ASSUME NEW p \in Procs, Dup2Stores(p) PROVE Sound'
  BY <1>10, SoundStores
<1>11. ASSUME NEW p \in Procs, ExitCloses(p) PROVE Sound'
  <2>1. PICK l \in OpenFds(p) :
           /\ fd' = [fd EXCEPT ![p][l] = None] /\ refcount' = [refcount EXCEPT ![fd[p][l]] = @ - 1]
           /\ Enters(p, fd[p][l]) \/ (Passes(fd[p][l]) /\ UNCHANGED pc)
    BY <1>11 DEF ExitCloses
  <2>2. l \in Fds /\ fd[p][l] \in Gfds
    BY DEF OpenFds, Typed, Tables
  <2>3. Drops(p, l)
    BY <1>11, <2>1 DEF ExitCloses, Drops
  <2> QED
    BY <2>2, <2>3, SoundDrop
<1>12. ASSUME NEW p \in Procs, ExitBegins(p) \/ ExitEnds(p) \/ ExitCut(p) \/ Killed(p) PROVE Sound'
  <2>1. SlotsStill
    BY <1>12 DEF ExitBegins, ExitEnds, ExitCut, Killed, pipes, table, SlotsStill
  <2>2. \A r \in Procs : FreesTested(r)
    BY <1>12 DEF ExitBegins, ExitEnds, ExitCut, Killed, Typed, FreesTested
  <2> QED
    BY <2>1, <2>2, SoundQuiet
<1>13. CASE UNCHANGED vars
  <2>1. SlotsStill /\ \A r \in Procs : FreesTested(r)
    BY <1>13 DEF vars, SlotsStill, FreesTested
  <2> QED
    BY <2>1, SoundQuiet
<1> QED
  BY <1>1, <1>2, <1>3, <1>4, <1>5, <1>6, <1>7, <1>8, <1>9, <1>10, <1>11, <1>12, <1>13
     DEF Next, fs_dup2

-----------------------------------------------------------------------------
(* What is given back when nobody is stopped. *)

LEMMA NobodyInit == Init => NobodyStopped
  BY DEF Init, NobodyStopped

\* r is over only with no descriptor left, and does not leave a pipe unfreed.
GoneEmpty(r) == pc'[r] = "gone" => \A l \in Fds : fd'[r][l] = None
StillCloses(r) ==
    (/\ pc[r] \in {"tests", "frees"} /\ object[r] \in allocated'
     /\ readers[object[r]] = 0 /\ writers[object[r]] = 0) =>
        pc'[r] \in {"tests", "frees"} /\ object'[r] = object[r]

\* r is not over, or is as before.
KeepsRunning(r) == pc'[r] # "gone" \/ (pc'[r] = pc[r] /\ fd'[r] = fd[r])

LEMMA KeepsGoneEmpty == ASSUME NobodyStopped, NEW r \in Procs, KeepsRunning(r) PROVE GoneEmpty(r)
  BY DEF NobodyStopped, KeepsRunning, GoneEmpty

LEMMA NobodyKept ==
    ASSUME NobodyStopped, allocated' \subseteq allocated, UNCHANGED <<readers, writers>>,
           \A r \in Procs : GoneEmpty(r), \A r \in Procs : StillCloses(r)
    PROVE  NobodyStopped'
<1>1. \A r \in Procs : pc'[r] = "gone" => \A l \in Fds : fd'[r][l] = None
  BY DEF GoneEmpty
<1>2. ASSUME NEW q \in allocated', readers'[q] = 0, writers'[q] = 0
      PROVE  \E r \in Procs : pc'[r] \in {"tests", "frees"} /\ object'[r] = q
  <2>1. PICK r \in Procs : pc[r] \in {"tests", "frees"} /\ object[r] = q
    BY <1>2 DEF NobodyStopped
  <2> QED
    BY <1>2, <2>1 DEF StillCloses
<1> QED
  BY <1>1, <1>2 DEF NobodyStopped

LEMMA NobodyDrop ==
    ASSUME Typed, Placed, Sound, NobodyStopped,
           NEW p \in Procs, NEW l \in Fds, fd[p][l] \in Gfds, Drops(p, l)
    PROVE  NobodyStopped'
<1> USE DEF Typed, Tables
<1>1. pc[p] \notin {"gone", "tests", "frees"} /\ \A r \in Procs \ {p} : fd'[r] = fd[r]
  BY DEF Drops
<1>2. CASE Enters(p, fd[p][l])
  <2> DEFINE q0 == pipe[fd[p][l]]
  <2>1. /\ pc' = [pc EXCEPT ![p] = "tests"] /\ object' = [object EXCEPT ![p] = q0]
        /\ allocated' = allocated /\ q0 \in Pipes
        /\ \A q \in Pipes \ {q0} : readers'[q] = readers[q] /\ writers'[q] = writers[q]
    BY <1>2 DEF Enters, PipeEnd, ClosesPipe
  <2> HIDE DEF q0
  <2>2. \A r \in Procs : pc'[r] = "gone" => \A k \in Fds : fd'[r][k] = None
    BY <1>1, <2>1 DEF NobodyStopped
  <2>3. \A q \in allocated' : readers'[q] = 0 /\ writers'[q] = 0 =>
           \E r \in Procs : pc'[r] \in {"tests", "frees"} /\ object'[r] = q
    <3> SUFFICES ASSUME NEW q \in allocated', readers'[q] = 0, writers'[q] = 0
                 PROVE  \E r \in Procs : pc'[r] \in {"tests", "frees"} /\ object'[r] = q
      OBVIOUS
    <3>1. CASE q = q0
      BY <2>1, <3>1
    <3>2. CASE q # q0
      <4>1. PICK r \in Procs : pc[r] \in {"tests", "frees"} /\ object[r] = q
        BY <2>1, <3>2 DEF NobodyStopped
      <4> QED
        BY <1>1, <2>1, <4>1
    <3> QED
      BY <3>1, <3>2
  <2> QED
    BY <2>2, <2>3 DEF NobodyStopped
<1>3. CASE Passes(fd[p][l]) /\ UNCHANGED pc
  <2>1. allocated' = allocated /\ UNCHANGED <<readers, writers, object, pc>>
    BY <1>3 DEF Passes, pipes
  <2>2. \A r \in Procs : KeepsRunning(r) /\ StillCloses(r)
    BY <1>1, <2>1 DEF KeepsRunning, StillCloses
  <2> QED
    BY <2>1, <2>2, KeepsGoneEmpty, NobodyKept
<1> QED
  BY <1>2, <1>3 DEF Drops

LEMMA NobodyStep ==
    Typed /\ Placed /\ Sound /\ NobodyStopped /\ [Next]_vars /\ ~cut' => NobodyStopped'
<1> SUFFICES ASSUME Typed, Placed, Sound, NobodyStopped, [Next]_vars, ~cut' PROVE NobodyStopped'
  OBVIOUS
<1> USE DEF Typed, Tables
<1>1. ASSUME NEW p \in Procs, fs_open(p) PROVE NobodyStopped'
  <2>1. allocated' = allocated /\ UNCHANGED <<readers, writers>>
    BY <1>1 DEF fs_open, pipes, Passes
  <2>2. \A r \in Procs : KeepsRunning(r)
    BY <1>1 DEF fs_open, KeepsRunning, Calls, control
  <2>3. \A r \in Procs : StillCloses(r)
    BY <1>1 DEF fs_open, StillCloses, Passes, control
  <2> QED
    BY <2>1, <2>2, <2>3, KeepsGoneEmpty, NobodyKept
<1>2. ASSUME NEW p \in Procs, fs_pipe(p) PROVE NobodyStopped'
  <2>1. PICK q \in Pipes \ allocated :
           /\ allocated' = allocated \cup {q}
           /\ readers' = [readers EXCEPT ![q] = 1] /\ writers' = [writers EXCEPT ![q] = 1]
    <3>1. \E lr, lw \in Fds, gr, gw \in Gfds, q \in Pipes \ allocated :
             /\ allocated' = allocated \cup {q}
             /\ readers' = [readers EXCEPT ![q] = 1] /\ writers' = [writers EXCEPT ![q] = 1]
             /\ used' = [used EXCEPT ![gr] = TRUE, ![gw] = TRUE]
             /\ fd' = [fd EXCEPT ![p][lr] = gr, ![p][lw] = gw]
      BY <1>2 DEF fs_pipe, FreeFds, FreeGfds
    <3> QED
      BY <3>1
  <2>2. UNCHANGED <<pc, object>>
    BY <1>2 DEF fs_pipe, control
  <2>3. \A r \in Procs : KeepsRunning(r)
    BY <1>2 DEF fs_pipe, KeepsRunning, Calls, control
  <2>4. \A r \in Procs : pc'[r] = "gone" => \A l \in Fds : fd'[r][l] = None
    BY <2>3, KeepsGoneEmpty DEF GoneEmpty
  <2>5. ASSUME NEW s \in allocated', readers'[s] = 0, writers'[s] = 0
        PROVE  \E r \in Procs : pc'[r] \in {"tests", "frees"} /\ object'[r] = s
    <3>1. s # q /\ s \in allocated
      BY <2>1, <2>5
    <3>2. readers[s] = 0 /\ writers[s] = 0
      BY <2>1, <2>5, <3>1
    <3> QED
      BY <2>2, <3>1, <3>2 DEF NobodyStopped
  <2> QED
    BY <2>4, <2>5 DEF NobodyStopped
<1>3. ASSUME NEW p \in Procs, NEW child \in Procs, Fork(p, child) PROVE NobodyStopped'
  <2>1. allocated' = allocated /\ UNCHANGED <<readers, writers>>
    BY <1>3 DEF Fork, pipes, Passes
  <2>2. \A r \in Procs : KeepsRunning(r)
    BY <1>3 DEF Fork, KeepsRunning, Calls, control
  <2>3. \A r \in Procs : StillCloses(r)
    BY <1>3 DEF Fork, StillCloses, Passes, control
  <2> QED
    BY <2>1, <2>2, <2>3, KeepsGoneEmpty, NobodyKept
<1>4. ASSUME NEW p \in Procs, NEW l \in Fds, fs_close(p, l) PROVE NobodyStopped'
  <2>1. Drops(p, l) /\ fd[p][l] \in Gfds
    BY <1>4 DEF fs_close, Drops, Calls
  <2> QED
    BY <2>1, NobodyDrop
<1>5. ASSUME NEW p \in Procs, CloseTests(p) PROVE NobodyStopped'
  <2>1. allocated' = allocated /\ UNCHANGED <<readers, writers>>
    BY <1>5 DEF CloseTests, pipes, Passes
  <2>2. \A r \in Procs : KeepsRunning(r)
    BY <1>5 DEF CloseTests, KeepsRunning, Calls, control
  <2>3. \A r \in Procs : StillCloses(r)
    BY <1>5 DEF CloseTests, StillCloses, Passes, control
  <2> QED
    BY <2>1, <2>2, <2>3, KeepsGoneEmpty, NobodyKept
<1>6. ASSUME NEW p \in Procs, CloseFrees(p) PROVE NobodyStopped'
  <2>1. allocated' \subseteq allocated /\ UNCHANGED <<readers, writers>>
    BY <1>6 DEF CloseFrees, pipes, Passes
  <2>2. \A r \in Procs : KeepsRunning(r)
    BY <1>6 DEF CloseFrees, KeepsRunning, Calls, control
  <2>3. \A r \in Procs : StillCloses(r)
    BY <1>6 DEF CloseFrees, StillCloses, Passes, control
  <2> QED
    BY <2>1, <2>2, <2>3, KeepsGoneEmpty, NobodyKept
<1>7. ASSUME NEW p \in Procs, CloseEnds(p) PROVE NobodyStopped'
  <2>1. allocated' = allocated /\ UNCHANGED <<readers, writers>>
    BY <1>7 DEF CloseEnds, pipes, Passes
  <2>2. \A r \in Procs : KeepsRunning(r)
    BY <1>7 DEF CloseEnds, KeepsRunning, Calls, control
  <2>3. \A r \in Procs : StillCloses(r)
    BY <1>7 DEF CloseEnds, StillCloses, Passes, control
  <2> QED
    BY <2>1, <2>2, <2>3, KeepsGoneEmpty, NobodyKept
<1>8. ASSUME NEW p \in Procs, NEW old \in Fds, NEW new \in Fds, Dup2Free(p, old, new) \/ Dup2Over(p, old, new)
      PROVE NobodyStopped'
  <2>1. allocated' = allocated /\ UNCHANGED <<readers, writers>>
    BY <1>8 DEF Dup2Free, Dup2Over, pipes, Passes
  <2>2. \A r \in Procs : KeepsRunning(r)
    BY <1>8 DEF Dup2Free, Dup2Over, KeepsRunning, Calls, control
  <2>3. \A r \in Procs : StillCloses(r)
    BY <1>8 DEF Dup2Free, Dup2Over, StillCloses, Passes, control
  <2> QED
    BY <2>1, <2>2, <2>3, KeepsGoneEmpty, NobodyKept
<1>9. ASSUME NEW p \in Procs, NEW old \in Fds, NEW new \in Fds, Dup2Closes(p, old, new) PROVE NobodyStopped'
  <2>1. Drops(p, new) /\ fd[p][new] \in Gfds
    BY <1>9 DEF Dup2Closes, Drops, Calls
  <2> QED
    BY <2>1, NobodyDrop
<1>10. ASSUME NEW p \in Procs, Dup2Loads(p) \/ Dup2Stores(p) PROVE NobodyStopped'
  <2>1. allocated' = allocated /\ UNCHANGED <<readers, writers>>
    BY <1>10 DEF Dup2Loads, Dup2Stores, pipes, Passes
  <2>2. \A r \in Procs : KeepsRunning(r)
    BY <1>10 DEF Dup2Loads, Dup2Stores, KeepsRunning, Calls, control
  <2>3. \A r \in Procs : StillCloses(r)
    BY <1>10 DEF Dup2Loads, Dup2Stores, StillCloses, Passes, control
  <2> QED
    BY <2>1, <2>2, <2>3, KeepsGoneEmpty, NobodyKept
<1>11. ASSUME NEW p \in Procs, ExitCloses(p) PROVE NobodyStopped'
  <2>1. PICK l \in OpenFds(p) :
           /\ fd' = [fd EXCEPT ![p][l] = None] /\ refcount' = [refcount EXCEPT ![fd[p][l]] = @ - 1]
           /\ Enters(p, fd[p][l]) \/ (Passes(fd[p][l]) /\ UNCHANGED pc)
    BY <1>11 DEF ExitCloses
  <2>2. l \in Fds /\ fd[p][l] \in Gfds
    BY DEF OpenFds
  <2>3. Drops(p, l)
    BY <1>11, <2>1 DEF ExitCloses, Drops
  <2> QED
    BY <2>2, <2>3, NobodyDrop
<1>12. ASSUME NEW p \in Procs, ExitBegins(p) \/ ExitEnds(p) PROVE NobodyStopped'
  <2>1. allocated' = allocated /\ UNCHANGED <<readers, writers>>
    BY <1>12 DEF ExitBegins, ExitEnds, pipes
  <2>2. \A r \in Procs : GoneEmpty(r)
    <3> SUFFICES ASSUME NEW r \in Procs PROVE GoneEmpty(r)
      OBVIOUS
    <3>1. CASE KeepsRunning(r)
      BY <3>1, KeepsGoneEmpty
    <3>2. CASE ~KeepsRunning(r)
      BY <1>12, <3>2 DEF ExitBegins, ExitEnds, OpenFds, KeepsRunning, GoneEmpty
    <3> QED
      BY <3>1, <3>2
  <2>3. \A r \in Procs : StillCloses(r)
    BY <1>12 DEF ExitBegins, ExitEnds, StillCloses, Calls
  <2> QED
    BY <2>1, <2>2, <2>3, NobodyKept
<1>13. ASSUME NEW p \in Procs, ExitCut(p) \/ Killed(p) PROVE FALSE
  BY <1>13 DEF ExitCut, Killed
<1>14. CASE UNCHANGED vars
  BY <1>14 DEF vars, NobodyStopped
<1> QED
  BY <1>1, <1>2, <1>3, <1>4, <1>5, <1>6, <1>7, <1>8, <1>9, <1>10, <1>11, <1>12, <1>13, <1>14
     DEF Next, fs_dup2

-----------------------------------------------------------------------------
(* The theorems. *)

LEMMA RacedStays == [Next]_vars /\ Typed => (raced => raced') /\ (cut => cut')
<1> SUFFICES ASSUME [Next]_vars, Typed PROVE (raced => raced') /\ (cut => cut')
  OBVIOUS
<1> USE DEF Typed
<1>1. ASSUME NEW p \in Procs, fs_open(p) \/ fs_pipe(p) PROVE UNCHANGED <<raced, cut>>
  BY <1>1 DEF fs_open, fs_pipe
<1>2. ASSUME NEW p \in Procs, NEW child \in Procs, Fork(p, child) PROVE UNCHANGED <<raced, cut>>
  BY <1>2 DEF Fork
<1>3. ASSUME NEW p \in Procs, NEW l \in Fds, fs_close(p, l) PROVE UNCHANGED <<raced, cut>>
  BY <1>3 DEF fs_close
<1>4. ASSUME NEW p \in Procs, CloseTests(p) \/ CloseFrees(p) \/ CloseEnds(p)
      PROVE (raced => raced') /\ UNCHANGED cut
  BY <1>4 DEF CloseTests, CloseFrees, CloseEnds
<1>5. ASSUME NEW p \in Procs, NEW old \in Fds, NEW new \in Fds, fs_dup2(p, old, new)
      PROVE UNCHANGED <<raced, cut>>
  BY <1>5 DEF fs_dup2, Dup2Free, Dup2Over, Dup2Closes
<1>6. ASSUME NEW p \in Procs, Dup2Loads(p) \/ Dup2Stores(p) PROVE (raced => raced') /\ UNCHANGED cut
  BY <1>6 DEF Dup2Loads, Dup2Stores
<1>7. ASSUME NEW p \in Procs, ExitBegins(p) \/ ExitCloses(p) \/ ExitEnds(p) PROVE UNCHANGED <<raced, cut>>
  BY <1>7 DEF ExitBegins, ExitCloses, ExitEnds
<1>8. ASSUME NEW p \in Procs, ExitCut(p) \/ Killed(p) PROVE UNCHANGED raced /\ cut'
  BY <1>8 DEF ExitCut, Killed
<1>9. CASE UNCHANGED vars
  BY <1>9 DEF vars
<1> QED
  BY <1>1, <1>2, <1>3, <1>4, <1>5, <1>6, <1>7, <1>8, <1>9 DEF Next

LEMMA TableInvariant == Spec => []TableInv
<1>1. Init => TableInv
  BY TypedInit, SoundInit, NobodyInit DEF TableInv
<1>2. TableInv /\ [Next]_vars => TableInv'
  <2> SUFFICES ASSUME TableInv, [Next]_vars PROVE TableInv'
    OBVIOUS
  <2>1. Typed' /\ Placed'
    BY TypedStep, PlacedStep DEF TableInv
  <2>2. ~raced' => Sound'
    BY RacedStays, SoundStep DEF TableInv
  <2>3. ~raced' /\ ~cut' => NobodyStopped'
    BY RacedStays, NobodyStep DEF TableInv
  <2> QED
    BY <2>1, <2>2, <2>3 DEF TableInv
<1> QED
  BY <1>1, <1>2, PTL DEF Spec

\* Every variable stays within its type; without a race no count is negative,
\* and no pipe counts an end twice.
THEOREM TypeCorrect == Spec => []TypeOK
<1>1. TableInv => TypeOK
  <2> SUFFICES ASSUME TableInv PROVE TypeOK
    OBVIOUS
  <2>1. Typed
    BY DEF TableInv
  <2>2. ~raced => /\ \A g \in Gfds : refcount[g] >= 0
                  /\ \A q \in Pipes : readers[q] \in 0 .. 1 /\ writers[q] \in 0 .. 1
    <3> SUFFICES ASSUME ~raced
                 PROVE  /\ \A g \in Gfds : refcount[g] >= 0
                        /\ \A q \in Pipes : readers[q] \in 0 .. 1 /\ writers[q] \in 0 .. 1
      OBVIOUS
    <3>1. \A g \in Gfds : refcount[g] >= 0
      BY <2>1, CountsAreNat DEF TableInv, Sound
    <3>2. \A q \in Pipes : EndOpen(q, 1) /\ EndOpen(q, 2)
      BY DEF TableInv, Sound, EndsCounted
    <3>3. \A q \in Pipes : readers[q] \in 0 .. 1 /\ writers[q] \in 0 .. 1
      BY <3>2 DEF EndOpen, Open
    <3> QED
      BY <3>1, <3>3
  <2> QED
    BY <2>1, <2>2 DEF Typed, Tables, TypeOK
<1> QED
  BY <1>1, TableInvariant, PTL

\* What a descriptor of a running process names is open, unless one of the two
\* races happened: fs_close, fs_dup2, forks and exits in any order.
THEOREM DescriptorsOpen == Spec => []OpenUnlessRaced
<1>1. TableInv => OpenUnlessRaced
  <2> SUFFICES ASSUME TableInv, ~raced, NEW p \in Alive, NEW l \in Fds, fd[p][l] # None
               PROVE  LET g == fd[p][l] IN
                      /\ used[g] /\ refcount[g] > 0
                      /\ pipe[g] # NoPipe =>
                            /\ pipe[g] \in allocated
                            /\ (IF mode[g] = 1 THEN readers ELSE writers)[pipe[g]] > 0
    BY DEF OpenUnlessRaced, DescriptorsStayOpen
  <2> DEFINE g == fd[p][l]
  <2>1. p \in Procs /\ g \in Gfds /\ Typed /\ Sound
    BY DEF Alive, TableInv, Typed, Tables
  <2>2. used[g] /\ refcount[g] > 0
    BY <2>1, CountsAreNat DEF Positive, Sound, SlotsInUse, UsedFor
  <2> HIDE DEF g
  <2>3. ASSUME pipe[g] # NoPipe
        PROVE  pipe[g] \in allocated /\ (IF mode[g] = 1 THEN readers ELSE writers)[pipe[g]] > 0
    <3>1. mode[g] \in {1, 2} /\ pipe[g] \in allocated /\ pipe[g] \in Pipes
      BY <2>1, <2>2, <2>3 DEF Sound, EndsCounted, EndOf, Typed
    <3>2. EndOpen(pipe[g], mode[g]) /\ Live(g, pipe[g], mode[g])
      BY <2>1, <2>2, <3>1 DEF Sound, EndsCounted, Live
    <3>3. Open(mode[g])[pipe[g]] = 1
      BY <2>1, <3>2 DEF EndOpen
    <3> QED
      BY <3>1, <3>3 DEF Open
  <2> QED
    BY <2>2, <2>3 DEF g
<1> QED
  BY <1>1, TableInvariant, PTL

\* A counted slot is named by a running process, when nobody was stopped.
LEMMA CountedIsNamed ==
    ASSUME TableInv, ~raced, ~cut, NEW g \in Gfds
    PROVE  refcount[g] > 0 <=> Named(g)
<1>1. refcount[g] > 0 <=> Positive(g)
  BY CountsAreNat DEF TableInv, Sound
<1>2. g # None
  BY NoneAssumption DEF NoneAssumption, Gfds
<1>3. \A p \in Procs, l \in Fds : fd[p][l] = g => p \in Alive
  BY <1>2 DEF TableInv, NobodyStopped, Placed, PlacedAt, Alive
<1> QED
  BY <1>1, <1>3 DEF Positive, Named, Alive

\* Slots and pipes come back: whatever is in use is named or being closed,
\* unless a process was stopped with open files.
THEOREM SlotsComeBack == Spec => []NothingLeaks
<1>1. TableInv => NothingLeaks
  <2> SUFFICES ASSUME TableInv, ~raced, ~cut
               PROVE  /\ \A g \in Gfds : used[g] => Named(g) \/ \E p \in Procs : cur[p] = g
                      /\ \A q \in allocated : \E g \in Gfds : used[g] /\ pipe[g] = q
    BY DEF NothingLeaks
  <2>1. Typed /\ Placed /\ SlotsInUse /\ EndsCounted /\ NobodyStopped
    BY DEF TableInv, Sound
  <2>2. ASSUME NEW g \in Gfds, used[g] PROVE Named(g) \/ \E p \in Procs : cur[p] = g
    BY <2>1, <2>2, CountedIsNamed DEF SlotsInUse, UsedFor
  <2>3. ASSUME NEW q \in allocated PROVE \E g \in Gfds : used[g] /\ pipe[g] = q
    <3>1. q \in Pipes
      BY <2>1 DEF Typed
    <3>2. CASE readers[q] = 0 /\ writers[q] = 0
      <4>1. PICK p \in Procs : pc[p] \in {"tests", "frees"} /\ object[p] = q
        BY <2>1, <3>2 DEF NobodyStopped
      <4>2. cur[p] # None /\ cur[p] \in Gfds
        BY <2>1, <4>1 DEF Placed, PlacedAt, Closing, Typed
      <4> QED
        BY <2>1, <4>1, <4>2 DEF SlotsInUse, ClosedBy
    <3>3. ASSUME NEW m \in {1, 2}, Open(m)[q] # 0 PROVE \E g \in Gfds : used[g] /\ pipe[g] = q
      <4>1. PICK g \in Gfds : Live(g, q, m)
        BY <2>1, <3>1, <3>3 DEF EndsCounted, EndOpen
      <4> QED
        BY <2>1, <4>1 DEF Live, SlotsInUse, UsedFor
    <3> QED
      BY <3>2, <3>3 DEF Open
  <2> QED
    BY <2>2, <2>3
<1> QED
  BY <1>1, TableInvariant, PTL

\* A pipe counts an end exactly as long as a running process has it open.
THEOREM EndsAreDescriptors == Spec => []EndsFollowDescriptors
<1>1. TableInv => EndsFollowDescriptors
  <2> SUFFICES ASSUME TableInv, ~raced, ~cut, NEW q \in allocated, NEW m \in {1, 2}
               PROVE  (IF m = 1 THEN readers ELSE writers)[q] > 0
                         <=> \E g \in Gfds : Named(g) /\ pipe[g] = q /\ mode[g] = m
    BY DEF EndsFollowDescriptors
  <2>1. q \in Pipes /\ EndOpen(q, m)
    BY DEF TableInv, Typed, Sound, EndsCounted
  <2>2. Open(m)[q] > 0 <=> \E g \in Gfds : Live(g, q, m)
    BY <2>1 DEF EndOpen
  <2>3. \A g \in Gfds : Live(g, q, m) <=> Named(g) /\ pipe[g] = q /\ mode[g] = m
    BY CountedIsNamed DEF Live
  <2> QED
    BY <2>2, <2>3 DEF Open
<1> QED
  BY <1>1, TableInvariant, PTL

=============================================================================
