-------------------------------- MODULE Pipe --------------------------------
(***************************************************************************)
(* One anonymous pipe of src/src/fs/pipe.c, used by processes that got its *)
(* descriptors from fs_pipe and fork.                                      *)
(*                                                                         *)
(* pipe_read and pipe_write move one byte per cli ... sti stretch, so any  *)
(* two bytes of a call may be separated by other processes: one action per *)
(* byte.  pipe_close is two actions, because wakeup_tasks_waiting_for_io   *)
(* turns interrupts on between the decrement and the test that frees the   *)
(* pipe.  Which processes hold a descriptor of an end is a set here; the   *)
(* reference counts behind it are those of module FdTable.                 *)
(***************************************************************************)
EXTENDS Integers, Sequences, FiniteSets

CONSTANTS Procs,          \* the processes
          Creator,        \* the one that calls fs_pipe
          Bytes,          \* the byte values
          NoByte,         \* what is in the buffer kmalloc returned
          PIPE_BUF_SIZE,
          MaxSize         \* bound on the size of a read or write

ASSUME CreatorAssumption == Creator \in Procs
ASSUME SizeAssumption == PIPE_BUF_SIZE \in Nat \ {0}
ASSUME MaxSizeAssumption == MaxSize \in Nat

VARIABLES buffer, read_pos, write_pos, bytes_available,
          readers, writers,
          readEnd, writeEnd,  \* the processes with a descriptor of the end
          op,                 \* what each process is doing
          left,               \* bytes its call has still to move
          answer,             \* the last byte or result it was given
          frees,              \* how often kfree(p) was executed
          overlap             \* two pipe_close calls ran at the same time

data == <<buffer, read_pos, write_pos, bytes_available>>
ends == <<readers, writers, readEnd, writeEnd>>
vars == <<buffer, read_pos, write_pos, bytes_available, readers, writers,
          readEnd, writeEnd, op, left, answer, frees, overlap>>

(***************************************************************************)
(* "unborn" not forked yet; "idle" in user mode; "read", "write" in a call *)
(* with interrupts on, between two bytes; "readWait", "writeWait" asleep   *)
(* in sleep_on_io; "closing" in pipe_close after the sti of the wakeup;    *)
(* "gone" never to run again.                                              *)
(***************************************************************************)
Ops == {"unborn", "idle", "read", "write", "readWait", "writeWait", "closing", "gone"}

Positions == 0 .. PIPE_BUF_SIZE - 1

\* fs_pipe: a new pipe with one descriptor for each end, both its creator's
Init ==
    /\ buffer = [i \in Positions |-> NoByte]
    /\ read_pos = 0 /\ write_pos = 0 /\ bytes_available = 0
    /\ readers = 1 /\ writers = 1
    /\ readEnd = {Creator} /\ writeEnd = {Creator}
    /\ op = [p \in Procs |-> IF p = Creator THEN "idle" ELSE "unborn"]
    /\ left = [p \in Procs |-> 0]
    /\ answer = [p \in Procs |-> "none"]
    /\ frees = 0
    /\ overlap = FALSE

\* task_fork: the child gets every descriptor of its parent.
Fork(p, child) ==
    /\ op[p] = "idle" /\ op[child] = "unborn"
    /\ op' = [op EXCEPT ![child] = "idle"]
    /\ readEnd' = IF p \in readEnd THEN readEnd \cup {child} ELSE readEnd
    /\ writeEnd' = IF p \in writeEnd THEN writeEnd \cup {child} ELSE writeEnd
    /\ UNCHANGED <<data, readers, writers, left, answer, frees, overlap>>

\* Faulty: the position of the buffer's end is never wrapped.
AfterUnwrapped(i) == i + 1

\* The position after i in the ring buffer
After(i) == (i + 1) % PIPE_BUF_SIZE

\* Faulty: only the readers are woken.
WakeupReaders(o) == [q \in Procs |-> IF o[q] = "readWait" THEN "read" ELSE o[q]]

\* wakeup_tasks_waiting_for_io(p), on the processes' places o
Wakeup(o) ==
    [q \in Procs |-> CASE o[q] = "readWait" -> "read"
                       [] o[q] = "writeWait" -> "write"
                       [] OTHER -> o[q]]

-----------------------------------------------------------------------------
(* pipe_read.                                                              *)

pipe_read(p) ==
    /\ op[p] = "idle" /\ p \in readEnd
    /\ \E size \in 1 .. MaxSize : left' = [left EXCEPT ![p] = size]
    /\ op' = [op EXCEPT ![p] = "read"]
    /\ UNCHANGED <<data, ends, answer, frees, overlap>>

ReadByte(p) ==
    /\ op[p] = "read" /\ bytes_available # 0
    /\ answer' = [answer EXCEPT ![p] = buffer[read_pos]]
    /\ read_pos' = After(read_pos)
    /\ bytes_available' = bytes_available - 1
    /\ left' = [left EXCEPT ![p] = @ - 1]
    /\ op' = Wakeup([op EXCEPT ![p] = IF left[p] = 1 THEN "idle" ELSE "read"])
    /\ UNCHANGED <<buffer, write_pos, ends, frees, overlap>>

\* Faulty: sleeps without looking at the write end.
ReadSleepsAnyway(p) ==
    /\ op[p] = "read" /\ bytes_available = 0
    /\ op' = [op EXCEPT ![p] = "readWait"]
    /\ UNCHANGED <<data, ends, left, answer, frees, overlap>>

ReadSleeps(p) ==
    /\ op[p] = "read" /\ bytes_available = 0 /\ writers # 0
    /\ op' = [op EXCEPT ![p] = "readWait"]
    /\ UNCHANGED <<data, ends, left, answer, frees, overlap>>

ReadEof(p) ==
    /\ op[p] = "read" /\ bytes_available = 0 /\ writers = 0
    /\ op' = [op EXCEPT ![p] = "idle"]
    /\ left' = [left EXCEPT ![p] = 0]
    /\ answer' = [answer EXCEPT ![p] = "eof"]
    /\ UNCHANGED <<data, ends, frees, overlap>>

-----------------------------------------------------------------------------
(* pipe_write.                                                             *)

pipe_write(p) ==
    /\ op[p] = "idle" /\ p \in writeEnd
    /\ \E size \in 1 .. MaxSize : left' = [left EXCEPT ![p] = size]
    /\ op' = [op EXCEPT ![p] = "write"]
    /\ UNCHANGED <<data, ends, answer, frees, overlap>>

\* Faulty: a full buffer takes one more byte.
WriteByteOverflows(p) ==
    /\ op[p] = "write" /\ readers # 0
    /\ \E b \in Bytes : buffer' = [buffer EXCEPT ![write_pos] = b]
    /\ write_pos' = After(write_pos)
    /\ bytes_available' =
          IF bytes_available = PIPE_BUF_SIZE THEN PIPE_BUF_SIZE ELSE bytes_available + 1
    /\ left' = [left EXCEPT ![p] = @ - 1]
    /\ op' = Wakeup([op EXCEPT ![p] = IF left[p] = 1 THEN "idle" ELSE "write"])
    /\ UNCHANGED <<read_pos, ends, answer, frees, overlap>>

WriteByte(p) ==
    /\ op[p] = "write" /\ readers # 0 /\ bytes_available # PIPE_BUF_SIZE
    /\ \E b \in Bytes : buffer' = [buffer EXCEPT ![write_pos] = b]
    /\ write_pos' = After(write_pos)
    /\ bytes_available' = bytes_available + 1
    /\ left' = [left EXCEPT ![p] = @ - 1]
    /\ op' = Wakeup([op EXCEPT ![p] = IF left[p] = 1 THEN "idle" ELSE "write"])
    /\ UNCHANGED <<read_pos, ends, answer, frees, overlap>>

WriteSleeps(p) ==
    /\ op[p] = "write" /\ readers # 0 /\ bytes_available = PIPE_BUF_SIZE
    /\ op' = [op EXCEPT ![p] = "writeWait"]
    /\ UNCHANGED <<data, ends, left, answer, frees, overlap>>

\* The call returns -1, whatever it had written before.
WriteBroken(p) ==
    /\ op[p] = "write" /\ readers = 0
    /\ op' = [op EXCEPT ![p] = "idle"]
    /\ left' = [left EXCEPT ![p] = 0]
    /\ answer' = [answer EXCEPT ![p] = "broken"]
    /\ UNCHANGED <<data, ends, frees, overlap>>

-----------------------------------------------------------------------------
(* fs_close and pipe_close; the timer.                                     *)

Closing == {q \in Procs : op[q] = "closing"}

\* Faulty: every close of a descriptor counts, not only the last one.
CloseReadEach(p) ==
    /\ op[p] = "idle" /\ p \in readEnd
    /\ readEnd' = readEnd \ {p}
    /\ readers' = IF readers = 0 THEN 0 ELSE readers - 1
    /\ op' = Wakeup([op EXCEPT ![p] = "closing"])
    /\ overlap' = (overlap \/ Closing # {})
    /\ UNCHANGED <<data, writers, writeEnd, left, answer, frees>>

\* The descriptor goes; the last one of an end calls pipe_close, up to the
\* sti of the wakeup.
CloseRead(p) ==
    /\ op[p] = "idle" /\ p \in readEnd
    /\ readEnd' = readEnd \ {p}
    /\ IF readEnd' = {}
       THEN /\ readers' = readers - 1
            /\ op' = Wakeup([op EXCEPT ![p] = "closing"])
            /\ overlap' = (overlap \/ Closing # {})
       ELSE UNCHANGED <<readers, op, overlap>>
    /\ UNCHANGED <<data, writers, writeEnd, left, answer, frees>>

CloseWrite(p) ==
    /\ op[p] = "idle" /\ p \in writeEnd
    /\ writeEnd' = writeEnd \ {p}
    /\ IF writeEnd' = {}
       THEN /\ writers' = writers - 1
            /\ op' = Wakeup([op EXCEPT ![p] = "closing"])
            /\ overlap' = (overlap \/ Closing # {})
       ELSE UNCHANGED <<writers, op, overlap>>
    /\ UNCHANGED <<data, readers, readEnd, left, answer, frees>>

\* Faulty: frees the pipe when either end is closed.
CloseFreesEither(p) ==
    /\ op[p] = "closing"
    /\ frees' = IF readers = 0 \/ writers = 0 THEN frees + 1 ELSE frees
    /\ op' = [op EXCEPT ![p] = "idle"]
    /\ UNCHANGED <<data, ends, left, answer, overlap>>

\* The rest of pipe_close.
CloseFrees(p) ==
    /\ op[p] = "closing"
    /\ frees' = IF readers = 0 /\ writers = 0 THEN frees + 1 ELSE frees
    /\ op' = [op EXCEPT ![p] = "idle"]
    /\ UNCHANGED <<data, ends, left, answer, overlap>>

\* The timer handler makes a task asleep on a pipe ready at every tick.
TimerWakes(p) ==
    /\ op[p] \in {"readWait", "writeWait"}
    /\ op' = [op EXCEPT ![p] = IF @ = "readWait" THEN "read" ELSE "write"]
    /\ UNCHANGED <<data, ends, left, answer, frees, overlap>>

\* A tick that finds SIGINT pending, or interrupts a process in the middle of
\* its exit: it never runs again, and its descriptors stay open.
Vanish(p) ==
    /\ op[p] \in {"idle", "read", "write", "closing"}
    /\ op' = [op EXCEPT ![p] = "gone"]
    /\ UNCHANGED <<data, ends, left, answer, frees, overlap>>

-----------------------------------------------------------------------------

ReadStep(p) == ReadByte(p) \/ ReadSleeps(p) \/ ReadEof(p)
WriteStep(p) == WriteByte(p) \/ WriteSleeps(p) \/ WriteBroken(p)

Next ==
    \E p \in Procs :
        \/ \E child \in Procs : Fork(p, child)
        \/ pipe_read(p) \/ ReadStep(p)
        \/ pipe_write(p) \/ WriteStep(p)
        \/ CloseRead(p) \/ CloseWrite(p) \/ CloseFrees(p)
        \/ TimerWakes(p) \/ Vanish(p)

Spec == Init /\ [][Next]_vars

\* A process inside a call gets the CPU again and again (Scheduler!ReadyRuns),
\* and the timer ticks for ever.  Calling is up to the process.
Fairness ==
    \A p \in Procs : /\ WF_vars(ReadStep(p)) /\ WF_vars(WriteStep(p))
                     /\ WF_vars(CloseFrees(p))
                     /\ WF_vars(TimerWakes(p))

FairSpec == Spec /\ Fairness

-----------------------------------------------------------------------------
(* Properties.                                                             *)

\* Every variable stays within its type.
TypeOK ==
    /\ buffer \in [Positions -> Bytes \cup {NoByte}]
    /\ read_pos \in Positions /\ write_pos \in Positions
    /\ bytes_available \in 0 .. PIPE_BUF_SIZE
    /\ readers \in 0 .. 1 /\ writers \in 0 .. 1
    /\ readEnd \in SUBSET Procs /\ writeEnd \in SUBSET Procs
    /\ op \in [Procs -> Ops]
    /\ left \in [Procs -> 0 .. MaxSize]
    /\ answer \in [Procs -> Bytes \cup {NoByte, "none", "eof", "broken"}]
    /\ frees \in Nat
    /\ overlap \in BOOLEAN

\* No wakeup is missed, ticks apart: a process asleep in pipe_read still has
\* nothing to read and may get something, one asleep in pipe_write still has
\* no room and somebody to read.
AsleepForAReason ==
    \A p \in Procs :
        /\ op[p] = "readWait" => bytes_available = 0 /\ writers # 0
        /\ op[p] = "writeWait" => bytes_available = PIPE_BUF_SIZE /\ readers # 0

\* The pipe is not freed under a process that can still use it.
FreedIsUnused ==
    frees > 0 => /\ readEnd = {} /\ writeEnd = {}
                 /\ \A p \in Procs :
                       op[p] \notin {"read", "write", "readWait", "writeWait"}

\* The pipe is freed once, unless the closes of its two ends overlapped: each
\* may then see both counts at zero (pipe.c:87-91).
FreedOnce == frees > 1 => overlap

\* No process waits in read() for ever once the write end is closed, nor in
\* write() once the read end is, unless it was killed.
ClosedEndsReleasePeers ==
    \A p \in Procs :
        /\ (op[p] \in {"read", "readWait"} /\ writers = 0)
              ~> op[p] \in {"idle", "gone"}
        /\ (op[p] \in {"write", "writeWait"} /\ readers = 0)
              ~> op[p] \in {"idle", "gone"}

\* The bytes in the pipe, oldest first.
Queue == [i \in 1 .. bytes_available |-> buffer[(read_pos + i - 1) % PIPE_BUF_SIZE]]

Channel ==
    INSTANCE ByteChannel WITH Capacity <- PIPE_BUF_SIZE, queue <- Queue,
        readOpen <- readers # 0, writeOpen <- writers # 0

\* The ring buffer implements a bounded first-in first-out channel: no byte is
\* lost, repeated or overtaken, end of file comes only after the last byte,
\* and a broken pipe only after the last reader.
ImplementsChannel == Channel!Spec

=============================================================================
