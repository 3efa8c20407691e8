------------------------------ MODULE KernelHeap ------------------------------
(***************************************************************************)
(* Page frames and the kernel heap, src/src/memory/memory.c.               *)
(*                                                                         *)
(* The state is a record m of the bitmap, as the set of frames that are    *)
(* marked, used_memory in frames, and the list of blocks of the heap, each *)
(* with the address of its header.  Sizes are in units of which a frame    *)
(* has PAGE_SIZE; all is called with interrupts off.                       *)
(***************************************************************************)
EXTENDS Integers, FiniteSets, SequencesExt

CONSTANTS Frames,    \* the numbers of those after the kernel, up to bitmap_size
          PAGE_SIZE, \* units of a frame
          HEADER,    \* those of a struct block_header
          SLACK      \* the 16 bytes a split must leave

ASSUME FramesAssumption == Frames \subseteq Nat \ {0} /\ IsFiniteSet(Frames)
ASSUME UnitAssumption == PAGE_SIZE \in Nat /\ HEADER \in 1 .. PAGE_SIZE /\ SLACK \in Nat

memory_init == [bitmap |-> {}, used |-> 0, heap |-> <<>>]

Unmarked(m) == Frames \ m.bitmap
Marked(m, frames) ==
    [m EXCEPT !.bitmap = @ \cup frames, !.used = @ + Cardinality(frames)]

\* The lowest frame, or 0.
pmm_alloc_page(m) ==
    IF Unmarked(m) = {} THEN [m |-> m, frame |-> 0]
    ELSE [m |-> Marked(m, {Min(Unmarked(m))}), frame |-> Min(Unmarked(m))]

\* It does not look whether the frame is marked.
pmm_free_page(m, frame) ==
    IF frame \in Frames THEN [m EXCEPT !.bitmap = @ \ {frame}, !.used = @ - 1] ELSE m

-----------------------------------------------------------------------------

Block(at, size, free) == [at |-> at, size |-> size, is_free |-> free]
After(b) == b.at + HEADER + b.size

\* A block that holds size units, and what is left of it if that is enough.
Split(b, size) ==
    IF b.size > size + HEADER + SLACK
    THEN <<Block(b.at, size, FALSE),
           Block(b.at + HEADER + size, b.size - size - HEADER, TRUE)>>
    ELSE <<Block(b.at, b.size, FALSE)>>

\* Faulty variant: a row may go on past the last frame.
RowsBeyond(m, n) == {f \in Frames : (f .. f + n - 1) \cap m.bitmap = {}}

\* The frames in a row that the loop over the bitmap finds first.
Rows(m, n) == {f \in Frames : f .. f + n - 1 \subseteq Unmarked(m)}

\* The first block that fits, or new frames at the end of the list.  The
\* address of the header, 0 when there is no memory.
kmalloc(m, size) ==
    LET fits == {i \in DOMAIN m.heap : m.heap[i].is_free /\ m.heap[i].size >= size}
        i == Min(fits)
        n == (size + HEADER + PAGE_SIZE - 1) \div PAGE_SIZE
        start == Min(Rows(m, n))
        new == Split(Block(start * PAGE_SIZE, (n * PAGE_SIZE) - HEADER, FALSE), size)
    IN  IF fits # {}
        THEN [m |-> [m EXCEPT !.heap = SubSeq(@, 1, i - 1) \o Split(@[i], size)
                                           \o SubSeq(@, i + 1, Len(@))],
              at |-> m.heap[i].at]
        ELSE IF Rows(m, n) = {} THEN [m |-> m, at |-> 0]
        ELSE [m |-> [Marked(m, start .. start + n - 1) EXCEPT !.heap = @ \o new],
              at |-> start * PAGE_SIZE]

\* Faulty variant: neighbours in the list are joined wherever they are.
JoinAnyway(done, b) ==
    IF done # <<>> /\ Last(done).is_free /\ b.is_free
    THEN Append(Front(done), Block(Last(done).at, Last(done).size + HEADER + b.size, TRUE))
    ELSE Append(done, b)

\* One turn of the loop that joins free blocks: the list up to b, then b.
Join(done, b) ==
    IF done # <<>> /\ Last(done).is_free /\ b.is_free /\ After(Last(done)) = b.at
    THEN Append(Front(done), Block(Last(done).at, Last(done).size + HEADER + b.size, TRUE))
    ELSE Append(done, b)

kfree(m, at) ==
    [m EXCEPT !.heap = FoldLeft(Join, <<>>,
        [i \in DOMAIN @ |-> IF @[i].at = at THEN [@[i] EXCEPT !.is_free = TRUE] ELSE @[i]])]

-----------------------------------------------------------------------------

FrameOf(address) == address \div PAGE_SIZE
HeapFrames(m) == UNION {FrameOf(b.at) .. FrameOf(After(b) - 1) : b \in ToSet(m.heap)}

\* The blocks cover the frames of the heap, each unit once, and each is of some
\* size; two neighbours in the list that could be one are not both free.
Tiled(m) ==
    /\ \A i, j \in DOMAIN m.heap :
          i # j => After(m.heap[i]) <= m.heap[j].at \/ After(m.heap[j]) <= m.heap[i].at
    /\ FoldLeft(LAMBDA sum, b : sum + HEADER + b.size, 0, m.heap)
          = PAGE_SIZE * Cardinality(HeapFrames(m))
    /\ \A i \in DOMAIN m.heap :
          /\ m.heap[i].size > 0
          /\ i > 1 /\ After(m.heap[i - 1]) = m.heap[i].at =>
                ~(m.heap[i - 1].is_free /\ m.heap[i].is_free)

=============================================================================
