--------------------------- MODULE ProcessLifecycle ---------------------------
(***************************************************************************)
(* What the scheduler of src/src/kernel/task.c promises about a process:   *)
(* it is born, runs and blocks by turns, dies by its own action while it   *)
(* has the CPU, and is reaped once, later, when it no longer has it.  The  *)
(* CPU is given to runnable processes only.                                *)
(***************************************************************************)
EXTENDS Integers

CONSTANT Procs

VARIABLES phase,    \* where each process is in its life
          running   \* the process that has the CPU

Phases == {"none", "runnable", "blocked", "dead", "reaped"}

Init ==
    /\ running = 0
    /\ phase = [p \in Procs |-> IF p = 0 THEN "runnable" ELSE "none"]

Born(p) ==
    /\ phase[p] = "none"
    /\ phase' = [phase EXCEPT ![p] = "runnable"]
    /\ UNCHANGED running

\* The running process blocks, or dies.
Leave(to) ==
    /\ phase[running] = "runnable"
    /\ phase' = [phase EXCEPT ![running] = to]
    /\ UNCHANGED running

Unblock(S) ==
    /\ \A p \in S : phase[p] = "blocked"
    /\ phase' = [p \in Procs |-> IF p \in S THEN "runnable" ELSE phase[p]]
    /\ UNCHANGED running

\* A tick: sleepers S become runnable, the dead processes R, at most one and
\* not the one that had the CPU, are reaped, and a runnable process goes on.
Schedule(S, R) ==
    /\ \A p \in S : phase[p] = "blocked"
    /\ \A p \in R : phase[p] = "dead" /\ p # running
    /\ \A p, q \in R : p = q
    /\ phase' = [p \in Procs |-> IF p \in S THEN "runnable"
                                 ELSE IF p \in R THEN "reaped" ELSE phase[p]]
    /\ running' \in Procs
    /\ phase'[running'] = "runnable"

Next ==
    \/ \E p \in Procs : Born(p)
    \/ Leave("blocked") \/ Leave("dead")
    \/ \E S \in SUBSET Procs : Unblock(S)
    \/ \E S, R \in SUBSET Procs : Schedule(S, R)

Spec == Init /\ [][Next]_<<phase, running>>

=============================================================================
