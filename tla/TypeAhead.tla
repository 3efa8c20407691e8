------------------------------ MODULE TypeAhead ------------------------------
(***************************************************************************)
(* What the keyboard driver of src/src/drivers/keyboard/keyboard.c does    *)
(* with the characters typed before anybody reads them: they come out in   *)
(* the order they went in, each to one reader, and the one that finds      *)
(* Capacity characters waiting erases them all, itself included.           *)
(***************************************************************************)
EXTENDS Naturals, Sequences

CONSTANTS Readers, Characters, Capacity, Nothing

VARIABLES queue,   \* the characters waiting
          given    \* the last character each reader was given

Init == queue = <<>> /\ given = [r \in Readers |-> Nothing]

Type(c) ==
    /\ queue' = IF Len(queue) < Capacity THEN Append(queue, c) ELSE <<>>
    /\ UNCHANGED given

Give(r) ==
    /\ queue # <<>>
    /\ given' = [given EXCEPT ![r] = Head(queue)]
    /\ queue' = Tail(queue)

Next ==
    \/ \E c \in Characters : Type(c)
    \/ \E r \in Readers : Give(r)

Spec == Init /\ [][Next]_<<queue, given>>

=============================================================================
