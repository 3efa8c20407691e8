----------------------------- MODULE PipeProofs -----------------------------
(***************************************************************************)
(* Theorems about Pipe, for every set of processes, every size of the      *)
(* buffer and every size of a call.                                        *)
(***************************************************************************)
EXTENDS Pipe, SequenceLemmas

-----------------------------------------------------------------------------
(* Positions in the ring buffer.                                           *)

\* The position i places after x, for positions x and i <= PIPE_BUF_SIZE.
Wrap(x) == IF x < PIPE_BUF_SIZE THEN x ELSE x - PIPE_BUF_SIZE

\* What % does with the sums of two positions the pipe computes.
LEMMA ModIsWrap ==
    ASSUME NEW x \in 0 .. 2 * PIPE_BUF_SIZE - 1
    PROVE  /\ x % PIPE_BUF_SIZE = Wrap(x)
           /\ Wrap(x) \in Positions
<1>1. CASE x < PIPE_BUF_SIZE
  BY <1>1, ModSmall, SizeAssumption DEF SizeAssumption, Wrap, Positions
<1>2. CASE x >= PIPE_BUF_SIZE
  BY <1>2, ModBig, SizeAssumption DEF SizeAssumption, Wrap, Positions
<1> QED
  BY <1>1, <1>2, SizeAssumption DEF SizeAssumption

\* The position after i.
LEMMA AfterIsWrap ==
    ASSUME NEW i \in Positions
    PROVE  /\ After(i) = Wrap(i + 1)
           /\ After(i) \in Positions
BY ModIsWrap, SizeAssumption DEF SizeAssumption, After, Positions

-----------------------------------------------------------------------------
(* The inductive invariant.                                                *)

\* The count and the two positions agree.
PositionsAgree == write_pos = Wrap(read_pos + bytes_available)

\* The pipe counts an end as open while somebody has a descriptor of it, and
\* only such a process is in a call on that end.
EndsAgree ==
    /\ readers = (IF readEnd = {} THEN 0 ELSE 1)
    /\ writers = (IF writeEnd = {} THEN 0 ELSE 1)
    /\ \A p \in Procs :
          /\ op[p] \in {"read", "readWait"} => p \in readEnd /\ left[p] > 0
          /\ op[p] \in {"write", "writeWait"} => p \in writeEnd /\ left[p] > 0

\* A pipe is freed after both ends are closed; without overlapping closes there
\* is one closer at a time, and the one that frees the pipe is the last.
FreesAgree ==
    /\ frees > 0 => readEnd = {} /\ writeEnd = {}
    /\ ~overlap => /\ \A p, q \in Closing : p = q
                   /\ frees > 0 => Closing = {}
                   /\ frees <= 1

PipeInv == TypeOK /\ PositionsAgree /\ EndsAgree /\ FreesAgree /\ AsleepForAReason

\* A wakeup moves processes out of their waits and changes nothing else.
LEMMA WakeupMoves ==
    ASSUME NEW o \in [Procs -> Ops]
    PROVE  /\ Wakeup(o) \in [Procs -> Ops]
           /\ \A p \in Procs :
                 Wakeup(o)[p] = IF o[p] = "readWait" THEN "read"
                                ELSE IF o[p] = "writeWait" THEN "write" ELSE o[p]
BY DEF Wakeup, Ops

\* The initial state satisfies the invariant.
LEMMA InitInv == Init => PipeInv
<1> SUFFICES ASSUME Init PROVE PipeInv
  OBVIOUS
<1> USE DEF Init
<1>1. 0 \in Positions /\ 0 \in 0 .. PIPE_BUF_SIZE /\ 0 \in 0 .. MaxSize
  BY SizeAssumption, MaxSizeAssumption DEF SizeAssumption, MaxSizeAssumption, Positions
<1>2. TypeOK
  <2>1. op \in [Procs -> Ops]
    BY DEF Ops
  <2>2. readEnd \in SUBSET Procs /\ writeEnd \in SUBSET Procs
    BY CreatorAssumption DEF CreatorAssumption
  <2>3. left \in [Procs -> 0 .. MaxSize]
    BY <1>1
  <2>4. /\ buffer \in [Positions -> Bytes \cup {NoByte}]
        /\ answer \in [Procs -> Bytes \cup {NoByte, "none", "eof", "broken"}]
    OBVIOUS
  <2>5. /\ read_pos \in Positions /\ write_pos \in Positions
        /\ bytes_available \in 0 .. PIPE_BUF_SIZE
        /\ readers \in 0 .. 1 /\ writers \in 0 .. 1 /\ frees \in Nat
    BY <1>1
  <2> HIDE DEF Init
  <2>6. overlap \in BOOLEAN
    BY DEF Init
  <2> QED
    BY <2>1, <2>2, <2>3, <2>4, <2>5, <2>6 DEF TypeOK
<1>3. PositionsAgree
  BY SizeAssumption DEF PositionsAgree, Wrap, SizeAssumption
<1>4. EndsAgree /\ FreesAgree /\ AsleepForAReason
  BY DEF EndsAgree, FreesAgree, AsleepForAReason, Closing
<1> QED
  BY <1>2, <1>3, <1>4 DEF PipeInv

-----------------------------------------------------------------------------
(* One lemma per group of actions.                                         *)

\* A byte read keeps the invariant.
LEMMA ReadByteKeeps ==
    ASSUME PipeInv, NEW p \in Procs, ReadByte(p)
    PROVE  PipeInv'
<1> USE DEF ReadByte, data, ends
<1>1. PICK n \in 1 .. PIPE_BUF_SIZE, r \in Positions :
         n = bytes_available /\ r = read_pos /\ After(r) = read_pos'
  BY SizeAssumption DEF PipeInv, TypeOK, SizeAssumption
<1>2. /\ bytes_available' = n - 1 /\ bytes_available' \in 0 .. PIPE_BUF_SIZE - 1
      /\ read_pos' = Wrap(r + 1) /\ read_pos' \in Positions
  BY <1>1, AfterIsWrap, SizeAssumption DEF SizeAssumption
<1>3. left[p] \in 1 .. MaxSize
  BY MaxSizeAssumption DEF PipeInv, EndsAgree, TypeOK, MaxSizeAssumption
<1>4. PICK o \in [Procs -> Ops] :
         /\ o = [op EXCEPT ![p] = IF left[p] = 1 THEN "idle" ELSE "read"]
         /\ op' = Wakeup(o)
  BY DEF PipeInv, TypeOK, Ops
<1>5. /\ op' \in [Procs -> Ops]
      /\ \A q \in Procs : op'[q] = IF o[q] = "readWait" THEN "read"
                                   ELSE IF o[q] = "writeWait" THEN "write" ELSE o[q]
  BY <1>4, WakeupMoves, ZenonT(30)
<1>6. \A q \in Procs : o[q] = IF q = p THEN IF left[p] = 1 THEN "idle" ELSE "read"
                                       ELSE op[q]
  BY <1>4 DEF PipeInv, TypeOK
<1>7. left' \in [Procs -> 0 .. MaxSize] /\ left'[p] = left[p] - 1
      /\ \A q \in Procs \ {p} : left'[q] = left[q]
  BY <1>3, MaxSizeAssumption DEF PipeInv, TypeOK, MaxSizeAssumption
<1>8. answer' \in [Procs -> Bytes \cup {NoByte, "none", "eof", "broken"}]
  <2>1. PICK b \in Bytes \cup {NoByte} : b = buffer[read_pos]
    BY DEF PipeInv, TypeOK
  <2> QED
    BY <2>1 DEF PipeInv, TypeOK
<1>9. TypeOK'
  <2>1. bytes_available' \in 0 .. PIPE_BUF_SIZE
    BY <1>2, SizeAssumption DEF SizeAssumption
  <2> QED
    BY <1>2, <1>5, <1>7, <1>8, <2>1 DEF PipeInv, TypeOK
<1>10. PositionsAgree'
  <2>1. write_pos' = Wrap(r + n)
    BY <1>1 DEF PipeInv, PositionsAgree
  <2>2. Wrap(r + n) = Wrap(Wrap(r + 1) + (n - 1))
    BY SizeAssumption DEF Wrap, Positions, SizeAssumption
  <2> QED
    BY <1>2, <2>1, <2>2 DEF PositionsAgree, Wrap
<1>11. EndsAgree'
  <2>1. ASSUME NEW q \in Procs
        PROVE  /\ op'[q] \in {"read", "readWait"} => q \in readEnd /\ left'[q] > 0
               /\ op'[q] \in {"write", "writeWait"} => q \in writeEnd /\ left'[q] > 0
    <3>1. CASE q = p
      <4>1. PICK m \in 1 .. MaxSize : m = left[p] /\ left'[p] = m - 1
        BY <1>3, <1>7
      <4>2. m = 1 \/ left'[p] > 0
        BY <4>1, MaxSizeAssumption DEF MaxSizeAssumption
      <4>3. op'[p] = IF m = 1 THEN "idle" ELSE "read"
        BY <1>5, <1>6, <4>1
      <4>4. p \in readEnd
        BY DEF PipeInv, EndsAgree
      <4> QED
        BY <3>1, <4>2, <4>3, <4>4
    <3>2. CASE q # p
      BY <1>5, <1>6, <1>7, <3>2 DEF PipeInv, EndsAgree
    <3> QED
      BY <3>1, <3>2
  <2> QED
    BY <2>1 DEF PipeInv, EndsAgree
<1>12. FreesAgree'
  <2>1. Closing' = Closing
    BY <1>5, <1>6 DEF Closing
  <2> QED
    BY <2>1 DEF PipeInv, FreesAgree
<1>13. AsleepForAReason'
  BY <1>5, <1>6 DEF AsleepForAReason
<1> QED
  BY <1>9, <1>10, <1>11, <1>12, <1>13 DEF PipeInv

\* A byte written keeps the invariant.
LEMMA WriteByteKeeps ==
    ASSUME PipeInv, NEW p \in Procs, WriteByte(p)
    PROVE  PipeInv'
<1> USE DEF WriteByte, data, ends
<1>1. PICK n \in 0 .. PIPE_BUF_SIZE - 1, r \in Positions, w \in Positions :
         /\ n = bytes_available /\ r = read_pos
         /\ w = write_pos /\ After(w) = write_pos'
  BY SizeAssumption DEF PipeInv, TypeOK, SizeAssumption
<1>2. /\ bytes_available' = n + 1 /\ bytes_available' \in 1 .. PIPE_BUF_SIZE
      /\ write_pos' = Wrap(w + 1) /\ write_pos' \in Positions
  BY <1>1, AfterIsWrap, SizeAssumption DEF SizeAssumption
<1>3. left[p] \in 1 .. MaxSize
  BY MaxSizeAssumption DEF PipeInv, EndsAgree, TypeOK, MaxSizeAssumption
<1>4. PICK o \in [Procs -> Ops] :
         /\ o = [op EXCEPT ![p] = IF left[p] = 1 THEN "idle" ELSE "write"]
         /\ op' = Wakeup(o)
  BY DEF PipeInv, TypeOK, Ops
<1>5. /\ op' \in [Procs -> Ops]
      /\ \A q \in Procs : op'[q] = IF o[q] = "readWait" THEN "read"
                                   ELSE IF o[q] = "writeWait" THEN "write" ELSE o[q]
  BY <1>4, WakeupMoves, ZenonT(30)
<1>6. \A q \in Procs : o[q] = IF q = p THEN IF left[p] = 1 THEN "idle" ELSE "write"
                                       ELSE op[q]
  BY <1>4 DEF PipeInv, TypeOK
<1>7. left' \in [Procs -> 0 .. MaxSize] /\ left'[p] = left[p] - 1
      /\ \A q \in Procs \ {p} : left'[q] = left[q]
  BY <1>3, MaxSizeAssumption DEF PipeInv, TypeOK, MaxSizeAssumption
<1>8. buffer' \in [Positions -> Bytes \cup {NoByte}]
  BY DEF PipeInv, TypeOK
<1>9. TypeOK'
  <2>1. bytes_available' \in 0 .. PIPE_BUF_SIZE
    BY <1>2, SizeAssumption DEF SizeAssumption
  <2> QED
    BY <1>2, <1>5, <1>7, <1>8, <2>1 DEF PipeInv, TypeOK
<1>10. PositionsAgree'
  <2>1. w = Wrap(r + n) /\ read_pos' = r
    BY <1>1 DEF PipeInv, PositionsAgree
  <2>2. Wrap(Wrap(r + n) + 1) = Wrap(r + (n + 1))
    BY SizeAssumption DEF Wrap, Positions, SizeAssumption
  <2> QED
    BY <1>2, <2>1, <2>2 DEF PositionsAgree, Wrap
<1>11. EndsAgree'
  <2>1. ASSUME NEW q \in Procs
        PROVE  /\ op'[q] \in {"read", "readWait"} => q \in readEnd /\ left'[q] > 0
               /\ op'[q] \in {"write", "writeWait"} => q \in writeEnd /\ left'[q] > 0
    <3>1. CASE q = p
      <4>1. PICK m \in 1 .. MaxSize : m = left[p] /\ left'[p] = m - 1
        BY <1>3, <1>7
      <4>2. m = 1 \/ left'[p] > 0
        BY <4>1, MaxSizeAssumption DEF MaxSizeAssumption
      <4>3. op'[p] = IF m = 1 THEN "idle" ELSE "write"
        BY <1>5, <1>6, <4>1
      <4>4. p \in writeEnd
        BY DEF PipeInv, EndsAgree
      <4> QED
        BY <3>1, <4>2, <4>3, <4>4
    <3>2. CASE q # p
      BY <1>5, <1>6, <1>7, <3>2 DEF PipeInv, EndsAgree
    <3> QED
      BY <3>1, <3>2
  <2> QED
    BY <2>1 DEF PipeInv, EndsAgree
<1>12. FreesAgree'
  <2>1. Closing' = Closing
    BY <1>5, <1>6 DEF Closing
  <2> QED
    BY <2>1 DEF PipeInv, FreesAgree
<1>13. AsleepForAReason'
  BY <1>5, <1>6 DEF AsleepForAReason
<1> QED
  BY <1>9, <1>10, <1>11, <1>12, <1>13 DEF PipeInv

\* Every action that moves one process and leaves the buffer, the counts and
\* the descriptors alone: it only has to put the process where it may be.
LEMMA MoveKeeps ==
    ASSUME PipeInv, NEW p \in Procs, NEW place \in Ops \ {"closing"},
           NEW l \in 0 .. MaxSize,
           op' = [op EXCEPT ![p] = place],
           left' = [left EXCEPT ![p] = l],
           answer' \in [Procs -> Bytes \cup {NoByte, "none", "eof", "broken"}],
           UNCHANGED <<data, ends, frees, overlap>>,
           place \in {"read", "readWait"} => p \in readEnd /\ l > 0,
           place \in {"write", "writeWait"} => p \in writeEnd /\ l > 0,
           place = "readWait" => bytes_available = 0 /\ writers # 0,
           place = "writeWait" => bytes_available = PIPE_BUF_SIZE /\ readers # 0
    PROVE  PipeInv'
<1> USE DEF data, ends
<1>1. /\ op' \in [Procs -> Ops] /\ op'[p] = place
      /\ \A q \in Procs \ {p} : op'[q] = op[q]
  BY DEF PipeInv, TypeOK
<1>2. /\ left' \in [Procs -> 0 .. MaxSize] /\ left'[p] = l
      /\ \A q \in Procs \ {p} : left'[q] = left[q]
  BY DEF PipeInv, TypeOK
<1>3. TypeOK'
  BY <1>1, <1>2 DEF PipeInv, TypeOK
<1>4. PositionsAgree'
  BY DEF PipeInv, PositionsAgree, Wrap
<1>5. EndsAgree'
  BY <1>1, <1>2 DEF PipeInv, EndsAgree
<1>6. FreesAgree'
  BY <1>1 DEF PipeInv, FreesAgree, Closing
<1>7. AsleepForAReason'
  BY <1>1 DEF PipeInv, AsleepForAReason
<1> QED
  BY <1>3, <1>4, <1>5, <1>6, <1>7 DEF PipeInv

\* Giving up a descriptor keeps the invariant.
LEMMA CloseReadKeeps ==
    ASSUME PipeInv, NEW p \in Procs, CloseRead(p)
    PROVE  PipeInv'
<1> USE DEF CloseRead, data
<1>1. /\ p \in readEnd /\ op[p] = "idle" /\ readers = 1 /\ writers' = writers
      /\ frees = 0 /\ frees' = 0 /\ writeEnd' = writeEnd /\ left' = left
  BY DEF PipeInv, EndsAgree, FreesAgree, TypeOK
<1>2. /\ readEnd' \in SUBSET Procs /\ p \notin readEnd'
      /\ \A q \in Procs \ {p} : q \in readEnd' <=> q \in readEnd
  BY DEF PipeInv, TypeOK
<1>3. PositionsAgree'
  BY DEF PipeInv, PositionsAgree, Wrap
<1>4. CASE readEnd' = {}
  <2>1. readers' = 0
    BY <1>1, <1>4
  <2>2. PICK o \in [Procs -> Ops] :
           o = [op EXCEPT ![p] = "closing"] /\ op' = Wakeup(o)
    BY <1>4 DEF PipeInv, TypeOK, Ops
  <2>3. /\ op' \in [Procs -> Ops]
        /\ \A q \in Procs : op'[q] = IF o[q] = "readWait" THEN "read"
                                     ELSE IF o[q] = "writeWait" THEN "write" ELSE o[q]
    BY <2>2, WakeupMoves
  <2>4. o[p] = "closing" /\ \A q \in Procs \ {p} : o[q] = op[q]
    BY <2>2 DEF PipeInv, TypeOK
  <2>5. overlap' = (overlap \/ Closing # {}) /\ overlap' \in BOOLEAN
    BY <1>4 DEF PipeInv, TypeOK
  <2>6. TypeOK'
    BY <1>1, <1>2, <2>1, <2>3, <2>5 DEF PipeInv, TypeOK
  <2>7. EndsAgree'
    <3>1. \A q \in Procs :
             /\ op'[q] \in {"read", "readWait"} => q \in readEnd' /\ left'[q] > 0
             /\ op'[q] \in {"write", "writeWait"} => q \in writeEnd' /\ left'[q] > 0
      BY <1>1, <1>2, <2>3, <2>4 DEF PipeInv, EndsAgree
    <3> QED
      BY <1>1, <1>4, <2>1, <3>1 DEF PipeInv, EndsAgree
  <2>8. FreesAgree'
    <3>1. ~overlap' => Closing' = {p}
      BY <2>3, <2>4, <2>5 DEF Closing
    <3> QED
      BY <1>1, <3>1 DEF FreesAgree
  <2>9. AsleepForAReason'
    BY <2>3, <2>4 DEF AsleepForAReason
  <2> QED
    BY <1>3, <2>6, <2>7, <2>8, <2>9 DEF PipeInv
<1>5. CASE readEnd' # {}
  <2>1. op' = op /\ readers' = readers /\ overlap' = overlap
    BY <1>5
  <2>2. TypeOK'
    BY <1>1, <1>2, <2>1 DEF PipeInv, TypeOK
  <2>3. EndsAgree'
    BY <1>1, <1>2, <1>5, <2>1 DEF PipeInv, EndsAgree
  <2>4. FreesAgree'
    BY <1>1, <2>1 DEF PipeInv, FreesAgree, Closing
  <2>5. AsleepForAReason'
    BY <1>1, <2>1 DEF PipeInv, AsleepForAReason
  <2> QED
    BY <1>3, <2>2, <2>3, <2>4, <2>5 DEF PipeInv
<1> QED
  BY <1>4, <1>5

\* Giving up a descriptor keeps the invariant.
LEMMA CloseWriteKeeps ==
    ASSUME PipeInv, NEW p \in Procs, CloseWrite(p)
    PROVE  PipeInv'
<1> USE DEF CloseWrite, data
<1>1. /\ p \in writeEnd /\ op[p] = "idle" /\ writers = 1 /\ readers' = readers
      /\ frees = 0 /\ frees' = 0 /\ readEnd' = readEnd /\ left' = left
  BY DEF PipeInv, EndsAgree, FreesAgree, TypeOK
<1>2. /\ writeEnd' \in SUBSET Procs /\ p \notin writeEnd'
      /\ \A q \in Procs \ {p} : q \in writeEnd' <=> q \in writeEnd
  BY DEF PipeInv, TypeOK
<1>3. PositionsAgree'
  BY DEF PipeInv, PositionsAgree, Wrap
<1>4. CASE writeEnd' = {}
  <2>1. writers' = 0
    BY <1>1, <1>4
  <2>2. PICK o \in [Procs -> Ops] :
           o = [op EXCEPT ![p] = "closing"] /\ op' = Wakeup(o)
    BY <1>4 DEF PipeInv, TypeOK, Ops
  <2>3. /\ op' \in [Procs -> Ops]
        /\ \A q \in Procs : op'[q] = IF o[q] = "readWait" THEN "read"
                                     ELSE IF o[q] = "writeWait" THEN "write" ELSE o[q]
    BY <2>2, WakeupMoves
  <2>4. o[p] = "closing" /\ \A q \in Procs \ {p} : o[q] = op[q]
    BY <2>2 DEF PipeInv, TypeOK
  <2>5. overlap' = (overlap \/ Closing # {}) /\ overlap' \in BOOLEAN
    BY <1>4 DEF PipeInv, TypeOK
  <2>6. TypeOK'
    BY <1>1, <1>2, <2>1, <2>3, <2>5 DEF PipeInv, TypeOK
  <2>7. EndsAgree'
    <3>1. \A q \in Procs :
             /\ op'[q] \in {"read", "readWait"} => q \in readEnd' /\ left'[q] > 0
             /\ op'[q] \in {"write", "writeWait"} => q \in writeEnd' /\ left'[q] > 0
      BY <1>1, <1>2, <2>3, <2>4 DEF PipeInv, EndsAgree
    <3> QED
      BY <1>1, <1>4, <2>1, <3>1 DEF PipeInv, EndsAgree
  <2>8. FreesAgree'
    <3>1. ~overlap' => Closing' = {p}
      BY <2>3, <2>4, <2>5 DEF Closing
    <3> QED
      BY <1>1, <3>1 DEF FreesAgree
  <2>9. AsleepForAReason'
    BY <2>3, <2>4 DEF AsleepForAReason
  <2> QED
    BY <1>3, <2>6, <2>7, <2>8, <2>9 DEF PipeInv
<1>5. CASE writeEnd' # {}
  <2>1. op' = op /\ writers' = writers /\ overlap' = overlap
    BY <1>5
  <2>2. TypeOK'
    BY <1>1, <1>2, <2>1 DEF PipeInv, TypeOK
  <2>3. EndsAgree'
    BY <1>1, <1>2, <1>5, <2>1 DEF PipeInv, EndsAgree
  <2>4. FreesAgree'
    BY <1>1, <2>1 DEF PipeInv, FreesAgree, Closing
  <2>5. AsleepForAReason'
    BY <1>1, <2>1 DEF PipeInv, AsleepForAReason
  <2> QED
    BY <1>3, <2>2, <2>3, <2>4, <2>5 DEF PipeInv
<1> QED
  BY <1>4, <1>5

\* The end of pipe_close keeps the invariant: without overlapping closes its
\* caller is the only process in pipe_close, and nothing was freed before.
LEMMA CloseFreesKeeps ==
    ASSUME PipeInv, NEW p \in Procs, CloseFrees(p)
    PROVE  PipeInv'
<1> USE DEF CloseFrees, data, ends
<1>1. /\ op' \in [Procs -> Ops] /\ op'[p] = "idle"
      /\ \A q \in Procs \ {p} : op'[q] = op[q]
  BY DEF PipeInv, TypeOK, Ops
<1>2. frees' \in Nat /\ (frees' > 0 => frees > 0 \/ (readers = 0 /\ writers = 0))
  BY DEF PipeInv, TypeOK
<1>3. TypeOK'
  BY <1>1, <1>2 DEF PipeInv, TypeOK
<1>4. PositionsAgree'
  BY DEF PipeInv, PositionsAgree, Wrap
<1>5. EndsAgree'
  BY <1>1 DEF PipeInv, EndsAgree
<1>6. FreesAgree'
  <2>1. p \in Closing /\ Closing' = Closing \ {p}
    BY <1>1 DEF Closing
  <2>2. frees' > 0 => readEnd' = {} /\ writeEnd' = {}
    BY <1>2 DEF PipeInv, EndsAgree, FreesAgree
  <2>3. ASSUME ~overlap'
        PROVE  (\A q, r \in Closing' : q = r) /\ Closing' = {} /\ frees' <= 1
    <3>1. ~overlap
      BY <2>3
    <3>2. Closing = {p} /\ frees = 0
      BY <2>1, <3>1 DEF PipeInv, FreesAgree, TypeOK, Closing
    <3> QED
      BY <2>1, <3>2
  <2> QED
    BY <2>2, <2>3 DEF FreesAgree
<1>7. AsleepForAReason'
  BY <1>1 DEF PipeInv, AsleepForAReason
<1> QED
  BY <1>3, <1>4, <1>5, <1>6, <1>7 DEF PipeInv

\* A fork gives the child descriptors of ends that were open already.
LEMMA ForkKeeps ==
    ASSUME PipeInv, NEW p \in Procs, NEW child \in Procs, Fork(p, child)
    PROVE  PipeInv'
<1> USE DEF Fork, data
<1>1. /\ op' \in [Procs -> Ops] /\ op'[child] = "idle"
      /\ op[child] = "unborn"
      /\ \A q \in Procs \ {child} : op'[q] = op[q]
  BY DEF PipeInv, TypeOK, Ops
<1>2. /\ readEnd' \in SUBSET Procs /\ writeEnd' \in SUBSET Procs
      /\ readEnd \subseteq readEnd' /\ writeEnd \subseteq writeEnd'
      /\ readEnd' = {} <=> readEnd = {}
      /\ writeEnd' = {} <=> writeEnd = {}
  BY DEF PipeInv, TypeOK
<1>3. TypeOK'
  BY <1>1, <1>2 DEF PipeInv, TypeOK
<1>4. PositionsAgree'
  BY DEF PipeInv, PositionsAgree, Wrap
<1>5. EndsAgree'
  BY <1>1, <1>2 DEF PipeInv, EndsAgree
<1>6. FreesAgree'
  <2>1. Closing' = Closing
    BY <1>1 DEF Closing
  <2> QED
    BY <1>2, <2>1 DEF PipeInv, FreesAgree
<1>7. AsleepForAReason'
  BY <1>1 DEF PipeInv, AsleepForAReason
<1> QED
  BY <1>3, <1>4, <1>5, <1>6, <1>7 DEF PipeInv

\* The invariant is inductive.
LEMMA StepInv == PipeInv /\ [Next]_vars => PipeInv'
<1> SUFFICES ASSUME PipeInv, [Next]_vars PROVE PipeInv'
  OBVIOUS
<1>1. CASE UNCHANGED vars
  BY <1>1 DEF vars, PipeInv, TypeOK, PositionsAgree, EndsAgree, FreesAgree,
              Closing, AsleepForAReason, Wrap
<1>2. CASE Next
  <2>1. PICK p \in Procs :
           \/ \E child \in Procs : Fork(p, child)
           \/ pipe_read(p) \/ ReadStep(p)
           \/ pipe_write(p) \/ WriteStep(p)
           \/ CloseRead(p) \/ CloseWrite(p) \/ CloseFrees(p)
           \/ TimerWakes(p) \/ Vanish(p)
    BY <1>2 DEF Next
  <2>2. /\ answer \in [Procs -> Bytes \cup {NoByte, "none", "eof", "broken"}]
        /\ left[p] \in 0 .. MaxSize
        /\ left = [left EXCEPT ![p] = left[p]]
        /\ 0 \in 0 .. MaxSize
    BY MaxSizeAssumption DEF PipeInv, TypeOK, MaxSizeAssumption
  <2>3. /\ [answer EXCEPT ![p] = "eof"]
              \in [Procs -> Bytes \cup {NoByte, "none", "eof", "broken"}]
        /\ [answer EXCEPT ![p] = "broken"]
              \in [Procs -> Bytes \cup {NoByte, "none", "eof", "broken"}]
    BY <2>2
  <2>4. {"idle", "read", "write", "readWait", "writeWait", "gone"} \subseteq Ops \ {"closing"}
    BY DEF Ops
  <2>5. /\ op[p] \in {"read", "readWait"} => p \in readEnd /\ left[p] > 0
        /\ op[p] \in {"write", "writeWait"} => p \in writeEnd /\ left[p] > 0
    BY DEF PipeInv, EndsAgree
  <2>6. CASE \E child \in Procs : Fork(p, child)
    BY <2>6, ForkKeeps
  <2>7. CASE pipe_read(p)
    <3>1. PICK size \in 1 .. MaxSize : left' = [left EXCEPT ![p] = size]
      BY <2>7 DEF pipe_read
    <3>2. size \in 0 .. MaxSize /\ size > 0
      BY MaxSizeAssumption DEF MaxSizeAssumption
    <3> QED
      BY <2>2, <2>4, <2>7, <3>1, <3>2, MoveKeeps DEF pipe_read
  <2>8. CASE ReadStep(p)
    <3>1. CASE ReadByte(p)
      BY <3>1, ReadByteKeeps
    <3>2. CASE ReadSleeps(p)
      BY <2>2, <2>4, <2>5, <3>2, MoveKeeps DEF ReadSleeps
    <3>3. CASE ReadEof(p)
      BY <2>2, <2>3, <2>4, <3>3, MoveKeeps DEF ReadEof
    <3> QED
      BY <2>8, <3>1, <3>2, <3>3 DEF ReadStep
  <2>9. CASE pipe_write(p)
    <3>1. PICK size \in 1 .. MaxSize : left' = [left EXCEPT ![p] = size]
      BY <2>9 DEF pipe_write
    <3>2. size \in 0 .. MaxSize /\ size > 0
      BY MaxSizeAssumption DEF MaxSizeAssumption
    <3> QED
      BY <2>2, <2>4, <2>9, <3>1, <3>2, MoveKeeps DEF pipe_write
  <2>10. CASE WriteStep(p)
    <3>1. CASE WriteByte(p)
      BY <3>1, WriteByteKeeps
    <3>2. CASE WriteSleeps(p)
      BY <2>2, <2>4, <2>5, <3>2, MoveKeeps DEF WriteSleeps
    <3>3. CASE WriteBroken(p)
      BY <2>2, <2>3, <2>4, <3>3, MoveKeeps DEF WriteBroken
    <3> QED
      BY <2>10, <3>1, <3>2, <3>3 DEF WriteStep
  <2>11. CASE CloseRead(p)
    BY <2>11, CloseReadKeeps
  <2>12. CASE CloseWrite(p)
    BY <2>12, CloseWriteKeeps
  <2>13. CASE CloseFrees(p)
    BY <2>13, CloseFreesKeeps
  <2>14. CASE TimerWakes(p)
    <3>1. CASE op[p] = "readWait"
      BY <2>2, <2>4, <2>5, <2>14, <3>1, MoveKeeps DEF TimerWakes
    <3>2. CASE op[p] = "writeWait"
      BY <2>2, <2>4, <2>5, <2>14, <3>2, MoveKeeps DEF TimerWakes
    <3> QED
      BY <2>14, <3>1, <3>2 DEF TimerWakes
  <2>15. CASE Vanish(p)
    BY <2>2, <2>4, <2>15, MoveKeeps DEF Vanish
  <2> QED
    BY <2>1, <2>6, <2>7, <2>8, <2>9, <2>10, <2>11, <2>12, <2>13, <2>14, <2>15
<1> QED
  BY <1>1, <1>2

\* What the invariant says of every behaviour.
LEMMA AlwaysPipeInv == Spec => []PipeInv
BY InitInv, StepInv, PTL DEF Spec

-----------------------------------------------------------------------------
(* The theorems.                                                           *)

\* Every variable keeps its type: in particular the count never leaves
\* 0 .. PIPE_BUF_SIZE and both positions stay inside the buffer.
THEOREM TypeCorrect == Spec => []TypeOK
<1>1. PipeInv => TypeOK
  BY DEF PipeInv
<1> QED
  BY <1>1, AlwaysPipeInv, PTL

\* No wakeup of a reader or a writer is missed, however many there are: a
\* sleeper in pipe_read has nothing to read, one in pipe_write no room.
THEOREM NoMissedWakeup == Spec => []AsleepForAReason
<1>1. PipeInv => AsleepForAReason
  BY DEF PipeInv
<1> QED
  BY <1>1, AlwaysPipeInv, PTL

\* A freed pipe has no descriptor left and no process inside its calls.
THEOREM FreedPipeIsUnused == Spec => []FreedIsUnused
<1>1. PipeInv => FreedIsUnused
  BY DEF PipeInv, EndsAgree, FreesAgree, FreedIsUnused
<1> QED
  BY <1>1, AlwaysPipeInv, PTL

\* Only overlapping closes of the two ends can free the pipe twice.
THEOREM FreedTwiceOnlyByOverlap == Spec => []FreedOnce
<1>1. PipeInv => FreedOnce
  BY DEF PipeInv, TypeOK, FreesAgree, FreedOnce
<1> QED
  BY <1>1, AlwaysPipeInv, PTL

-----------------------------------------------------------------------------
(* The pipe implements a first-in first-out channel.                       *)

\* What the buffer may hold
Contents == Bytes \cup {NoByte}

\* The n bytes of the buffer buf from position r on, oldest first
From(buf, r, n) == [i \in 1 .. n |-> buf[(r + i - 1) % PIPE_BUF_SIZE]]

\* They are a sequence of that length.
LEMMA FromIsSeq ==
    ASSUME NEW buf \in [Positions -> Contents], NEW r \in Positions,
           NEW n \in 0 .. PIPE_BUF_SIZE
    PROVE  /\ From(buf, r, n) \in Seq(Contents)
           /\ Len(From(buf, r, n)) = n
<1>1. From(buf, r, n) = Segment(buf, r, n, PIPE_BUF_SIZE)
  BY DEF From, Segment
<1>2. \A x \in 0 .. PIPE_BUF_SIZE - 1 : buf[x] \in Contents
  BY DEF Positions
<1>3. Lists(From(buf, r, n), Contents, buf, r, n, PIPE_BUF_SIZE)
  BY <1>1, <1>2, SegmentIsSeq, SizeAssumption DEF SizeAssumption, Positions
<1> QED
  BY <1>3 DEF Lists

\* Taking the oldest byte is Tail.
LEMMA FromTail ==
    ASSUME NEW buf \in [Positions -> Contents], NEW r \in Positions,
           NEW n \in 1 .. PIPE_BUF_SIZE
    PROVE  /\ From(buf, r, n) # <<>>
           /\ Head(From(buf, r, n)) = buf[r]
           /\ From(buf, After(r), n - 1) = Tail(From(buf, r, n))
<1>1. /\ From(buf, r, n) = Segment(buf, r, n, PIPE_BUF_SIZE)
      /\ From(buf, After(r), n - 1)
            = Segment(buf, (r + 1) % PIPE_BUF_SIZE, n - 1, PIPE_BUF_SIZE)
  BY DEF From, Segment, After
<1> QED
  BY <1>1, SegmentTail, SizeAssumption, ZenonT(30) DEF SizeAssumption, Positions

\* Writing behind the newest byte is Append.
LEMMA FromAppend ==
    ASSUME NEW buf \in [Positions -> Contents], NEW r \in Positions,
           NEW n \in 0 .. PIPE_BUF_SIZE - 1, NEW b \in Contents
    PROVE  From([buf EXCEPT ![Wrap(r + n)] = b], r, n + 1)
              = Append(From(buf, r, n), b)
<1> DEFINE w == Wrap(r + n)
           m == n + 1
           new == [buf EXCEPT ![w] = b]
<1>1. PIPE_BUF_SIZE \in Nat \ {0} /\ r \in 0 .. PIPE_BUF_SIZE - 1
  BY SizeAssumption DEF SizeAssumption, Positions
<1>2. /\ From(buf, r, n) = Segment(buf, r, n, PIPE_BUF_SIZE)
      /\ From(new, r, m) = Segment(new, r, m, PIPE_BUF_SIZE)
  BY DEF From, Segment
<1>3. w = Turn(r + n, PIPE_BUF_SIZE) /\ m = n + 1
  BY DEF Wrap, Turn
<1>4. Stored(new, buf, w, b, PIPE_BUF_SIZE)
  BY DEF Stored, Positions
<1> HIDE DEF w, m, new
<1>5. From(new, r, m) = Append(From(buf, r, n), b)
  BY <1>1, <1>2, <1>3, <1>4, SegmentAppend
<1> QED
  BY <1>5 DEF w, m, new

\* The initial state of the pipe is one of the channel.
LEMMA ChannelInit == Init => Channel!Init
<1> SUFFICES ASSUME Init PROVE Channel!Init
  OBVIOUS
<1>1. Queue = <<>>
  BY DEF Init, Queue
<1> QED
  BY <1>1 DEF Init, Channel!Init

\* Every step of the pipe is a step of the channel or changes nothing of it.
LEMMA ChannelStep ==
    PipeInv /\ [Next]_vars
        => [Channel!Next]_<<Queue, readers # 0, writers # 0, answer>>
<1> SUFFICES ASSUME PipeInv, [Next]_vars
             PROVE  [Channel!Next]_<<Queue, readers # 0, writers # 0, answer>>
  OBVIOUS
<1>1. /\ Queue = From(buffer, read_pos, bytes_available)
      /\ Queue' = From(buffer', read_pos', bytes_available')
  BY DEF Queue, From
<1>2. /\ buffer \in [Positions -> Contents] /\ read_pos \in Positions
      /\ bytes_available \in 0 .. PIPE_BUF_SIZE
  BY DEF PipeInv, TypeOK, Contents
<1>3. Queue \in Seq(Contents) /\ Len(Queue) = bytes_available
  BY <1>1, <1>2, FromIsSeq
<1>4. ASSUME UNCHANGED data, UNCHANGED <<readers, writers>>, UNCHANGED answer
      PROVE  [Channel!Next]_<<Queue, readers # 0, writers # 0, answer>>
  <2>1. Queue' = Queue
    BY <1>1, <1>4 DEF data
  <2> QED
    BY <1>4, <2>1
<1>5. CASE UNCHANGED vars
  BY <1>4, <1>5 DEF vars, data
<1>6. CASE Next
  <2>1. PICK p \in Procs :
           \/ \E child \in Procs : Fork(p, child)
           \/ pipe_read(p) \/ ReadStep(p)
           \/ pipe_write(p) \/ WriteStep(p)
           \/ CloseRead(p) \/ CloseWrite(p) \/ CloseFrees(p)
           \/ TimerWakes(p) \/ Vanish(p)
    BY <1>6 DEF Next
  <2>2. CASE \/ \E child \in Procs : Fork(p, child)
             \/ pipe_read(p) \/ ReadSleeps(p)
             \/ pipe_write(p) \/ WriteSleeps(p)
             \/ CloseFrees(p) \/ TimerWakes(p) \/ Vanish(p)
    BY <1>4, <2>2 DEF Fork, pipe_read, ReadSleeps, pipe_write, WriteSleeps,
                      CloseFrees, TimerWakes, Vanish, ends
  <2>3. CASE ReadByte(p)
    <3>1. /\ bytes_available \in 1 .. PIPE_BUF_SIZE
          /\ buffer' = buffer /\ read_pos' = After(read_pos)
          /\ bytes_available' = bytes_available - 1
          /\ answer' = [answer EXCEPT ![p] = buffer[read_pos]]
          /\ readers' = readers /\ writers' = writers
      BY <1>2, <2>3, SizeAssumption DEF SizeAssumption, ReadByte, ends
    <3>2. Queue # <<>> /\ Head(Queue) = buffer[read_pos] /\ Queue' = Tail(Queue)
      BY <1>1, <1>2, <3>1, FromTail
    <3>3. Channel!Receive(p)
      BY <3>1, <3>2 DEF Channel!Receive
    <3> QED
      BY <3>3 DEF Channel!Next
  <2>4. CASE ReadEof(p)
    <3>1. Queue' = Queue
      BY <1>1, <2>4 DEF ReadEof, data
    <3>2. Queue = <<>>
      BY <1>3, <2>4 DEF ReadEof
    <3>3. Channel!Eof(p)
      BY <2>4, <3>1, <3>2 DEF ReadEof, ends, Channel!Eof
    <3> QED
      BY <3>3 DEF Channel!Next
  <2>5. CASE WriteByte(p)
    <3>1. PICK b \in Bytes : buffer' = [buffer EXCEPT ![write_pos] = b]
      BY <2>5 DEF WriteByte
    <3>2. /\ bytes_available \in 0 .. PIPE_BUF_SIZE - 1
          /\ bytes_available' = bytes_available + 1
          /\ read_pos' = read_pos
          /\ readers' = readers /\ writers' = writers /\ answer' = answer
          /\ readers # 0
      BY <1>2, <2>5, SizeAssumption DEF SizeAssumption, WriteByte, ends
    <3>3. write_pos = Wrap(read_pos + bytes_available) /\ b \in Contents
      BY DEF PipeInv, PositionsAgree, Contents
    <3>4. Queue' = Append(Queue, b)
      BY <1>1, <1>2, <3>1, <3>2, <3>3, FromAppend
    <3>5. Len(Queue) < PIPE_BUF_SIZE
      BY <1>3, <3>2, SizeAssumption DEF SizeAssumption
    <3>6. Channel!Send(b)
      BY <3>2, <3>4, <3>5 DEF Channel!Send
    <3> QED
      BY <3>6 DEF Channel!Next
  <2>6. CASE WriteBroken(p)
    <3>1. Queue' = Queue
      BY <1>1, <2>6 DEF WriteBroken, data
    <3>2. Channel!Broken(p)
      BY <2>6, <3>1 DEF WriteBroken, ends, Channel!Broken
    <3> QED
      BY <3>2 DEF Channel!Next
  <2>7. CASE CloseRead(p)
    <3>1. Queue' = Queue /\ answer' = answer /\ writers' = writers
      BY <1>1, <2>7 DEF CloseRead, data
    <3>2. readers = 1 /\ readers' \in {0, 1}
      BY <2>7 DEF CloseRead, PipeInv, EndsAgree
    <3>3. CASE readers' = 1
      BY <3>1, <3>2, <3>3
    <3>4. CASE readers' = 0
      <4>1. Channel!Close
        BY <3>1, <3>2, <3>4 DEF Channel!Close
      <4> QED
        BY <4>1 DEF Channel!Next
    <3> QED
      BY <3>2, <3>3, <3>4
  <2>8. CASE CloseWrite(p)
    <3>1. Queue' = Queue /\ answer' = answer /\ readers' = readers
      BY <1>1, <2>8 DEF CloseWrite, data
    <3>2. writers = 1 /\ writers' \in {0, 1}
      BY <2>8 DEF CloseWrite, PipeInv, EndsAgree
    <3>3. CASE writers' = 1
      BY <3>1, <3>2, <3>3
    <3>4. CASE writers' = 0
      <4>1. Channel!Close
        BY <3>1, <3>2, <3>4 DEF Channel!Close
      <4> QED
        BY <4>1 DEF Channel!Next
    <3> QED
      BY <3>2, <3>3, <3>4
  <2> QED
    BY <2>1, <2>2, <2>3, <2>4, <2>5, <2>6, <2>7, <2>8 DEF ReadStep, WriteStep
<1> QED
  BY <1>5, <1>6

\* A pipe loses, repeats and reorders nothing, whatever its size, however many
\* processes use it and whenever they are stopped: the ring buffer implements
\* the first-in first-out channel.
THEOREM PipeImplementsChannel == Spec => ImplementsChannel
<1>1. Spec => Channel!Spec
  BY AlwaysPipeInv, ChannelInit, ChannelStep, PTL DEF Spec, Channel!Spec
<1> QED
  BY <1>1 DEF ImplementsChannel

=============================================================================
