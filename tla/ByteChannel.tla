----------------------------- MODULE ByteChannel -----------------------------
(***************************************************************************)
(* What a pipe of src/src/fs/pipe.c promises its users: a first-in         *)
(* first-out queue of at most Capacity bytes between two ends that are     *)
(* open until they are closed for good.                                    *)
(***************************************************************************)
EXTENDS Naturals, Sequences

CONSTANTS Procs, Bytes, Capacity

VARIABLES queue,      \* the bytes written and not yet read, oldest first
          readOpen,   \* somebody can still read
          writeOpen,  \* somebody can still write
          answer      \* the last byte or result each process was given

Results == {"none", "eof", "broken"}

Init ==
    /\ queue = <<>>
    /\ readOpen = TRUE /\ writeOpen = TRUE
    /\ answer = [p \in Procs |-> "none"]

Send(b) ==
    /\ readOpen
    /\ Len(queue) < Capacity
    /\ queue' = Append(queue, b)
    /\ UNCHANGED <<readOpen, writeOpen, answer>>

Receive(p) ==
    /\ queue # <<>>
    /\ answer' = [answer EXCEPT ![p] = Head(queue)]
    /\ queue' = Tail(queue)
    /\ UNCHANGED <<readOpen, writeOpen>>

\* The end of the stream: every byte was read and no more can come.
Eof(p) ==
    /\ queue = <<>> /\ ~writeOpen
    /\ answer' = [answer EXCEPT ![p] = "eof"]
    /\ UNCHANGED <<queue, readOpen, writeOpen>>

Broken(p) ==
    /\ ~readOpen
    /\ answer' = [answer EXCEPT ![p] = "broken"]
    /\ UNCHANGED <<queue, readOpen, writeOpen>>

Close ==
    /\ \/ readOpen /\ readOpen' = FALSE /\ UNCHANGED writeOpen
       \/ writeOpen /\ writeOpen' = FALSE /\ UNCHANGED readOpen
    /\ UNCHANGED <<queue, answer>>

Next ==
    \/ \E b \in Bytes : Send(b)
    \/ \E p \in Procs : Receive(p) \/ Eof(p) \/ Broken(p)
    \/ Close

Spec == Init /\ [][Next]_<<queue, readOpen, writeOpen, answer>>

=============================================================================
