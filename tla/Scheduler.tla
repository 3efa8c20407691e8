------------------------------ MODULE Scheduler ------------------------------
(***************************************************************************)
(* The task scheduler of the AURUX kernel, src/src/kernel/task.c, on its   *)
(* one CPU: the ring of tasks, the timer interrupt that walks it, sleep,   *)
(* wait, blocking on a pipe, exit, fork and signals.                       *)
(*                                                                         *)
(* The system call gate and the timer gate are interrupt gates, so kernel  *)
(* code runs with interrupts off until it executes sti.  One action is one *)
(* stretch of such code; a hardware tick may fall between two actions      *)
(* whenever irq is TRUE.  yield() is int $32: it runs the whole timer      *)
(* handler, and is the action SoftTick.                                    *)
(*                                                                         *)
(* A task is its id.  create_process and task_fork hand out increasing     *)
(* ids and link each new task just before ready_queue, which is always the *)
(* boot task, so walking the ring is going round the linked ids in         *)
(* increasing order: `ring` is the set of linked tasks and Distance the    *)
(* order of the walk.  kfree'd task structures keep their contents here.   *)
(***************************************************************************)
EXTENDS Integers, FiniteSets

CONSTANTS MaxTask,   \* bound on next_task_id: the ids are 0 .. MaxTask
          SleepMs,   \* the arguments sleep() is called with
          Pipes,     \* the objects a task can sleep on in sleep_on_io
          NoPipe,    \* waiting_for_io = NULL
          Signals    \* the signal numbers task_kill is called with

ASSUME MaxTaskAssumption == MaxTask \in Nat \ {0}
ASSUME SleepMsAssumption == SleepMs \subseteq Nat
ASSUME PipesAssumption == NoPipe \notin Pipes
ASSUME SignalsAssumption == Signals \subseteq 0 .. 31

VARIABLES ring,        \* the tasks linked through task->next
          current,     \* current_task
          state,       \* task->state, "UNUSED" for an id not handed out yet
          sleepTicks,  \* task->sleep_ticks
          waitPid,     \* task->waiting_for_pid, 0 when not waiting
          waitIo,      \* task->waiting_for_io
          pending,     \* task->pending_signals, as the set of its one bits
          taskToFree,  \* task_to_free
          freed,       \* the tasks whose struct and stack were freed
          nextId,      \* next_task_id
          pc,          \* where each task continues when it runs
          irq          \* the interrupt flag of the CPU

sched == <<ring, current, state, sleepTicks, waitPid, waitIo, pending>>
vars == <<ring, current, state, sleepTicks, waitPid, waitIo, pending,
          taskToFree, freed, nextId, pc, irq>>

Tasks == 0 .. MaxTask
Main == 0
NoTask == -1

States == {"UNUSED", "READY", "RUNNING", "SLEEPING", "DEAD"}
Alive == {"READY", "RUNNING", "SLEEPING"}
CanRun == {"READY", "RUNNING"}

(***************************************************************************)
(* "boot"     main() before it starts the first program                    *)
(* "hlt"      main() halted until an interrupt                             *)
(* "user"     in user mode, about to make any system call                  *)
(* "yield"    after sti, about to execute int $32                          *)
(* "spin"     in a loop of yields with interrupts off (keyboard_getchar)   *)
(* "closing"  in destroy_current_process, before the waiters are woken     *)
(* "waking"   in its loop over the waiters                                 *)
(* "exit"     unlinked, about to execute its int $32                       *)
(* "lost"     killed by a signal: its frame was not saved (task.c:274)     *)
(* "hung"     the kernel is in a loop that never ends, interrupts off      *)
(***************************************************************************)
Places == {"boot", "hlt", "user", "yield", "spin",
           "closing", "waking", "exit", "lost", "hung"}

\* pending_signals & 2, the only mask the kernel looks at, is bit number 1.
SIGINT == 1

-----------------------------------------------------------------------------

Init ==
    /\ ring = {Main}
    /\ current = Main
    /\ state = [t \in Tasks |-> IF t = Main THEN "RUNNING" ELSE "UNUSED"]
    /\ sleepTicks = [t \in Tasks |-> 0]
    /\ waitPid = [t \in Tasks |-> 0]
    /\ waitIo = [t \in Tasks |-> NoPipe]
    /\ pending = [t \in Tasks |-> {}]
    /\ taskToFree = NoTask
    /\ freed = {}
    /\ nextId = 1
    /\ pc = [t \in Tasks |-> IF t = Main THEN "boot" ELSE "user"]
    /\ irq = TRUE

-----------------------------------------------------------------------------
(* The timer interrupt.                                                    *)

\* Faulty variant: the search starts at ready_queue instead of current->next.
DistanceFromHead(t) == t

\* How many steps along the ring from current->next reach t.
Distance(t) == IF t > current THEN t - current ELSE t - current + MaxTask + 1

\* Faulty variant: the boot task is an idle task, run when nothing else can.
IsNextTaskIdleLast(t, st) ==
    /\ t \in ring /\ st[t] \in CanRun
    /\ \A u \in ring : st[u] \in CanRun =>
          \/ u = Main
          \/ t # Main /\ Distance(t) <= Distance(u)

\* t is where the walk of task.c:291-294 stops when the states are st.
IsNextTask(t, st) ==
    /\ t \in ring /\ st[t] \in CanRun
    /\ \A u \in ring : st[u] \in CanRun => Distance(t) <= Distance(u)

Killed == SIGINT \in pending[current]

\* Faulty variant: a killed task leaves its waiters asleep.
ReleasedByNoSignal == {}

\* The tasks the signal branch releases: it never looks at their state.
ReleasedBySignal ==
    IF Killed THEN {t \in ring \ {current} : waitPid[t] = current} ELSE {}

AfterSignal ==
    [t \in Tasks |-> IF Killed /\ t = current THEN "DEAD"
                     ELSE IF t \in ReleasedBySignal THEN "READY" ELSE state[t]]

\* Faulty variant: the countdown does not look at waiting_for_pid.
CountedAlways == {t \in ring : AfterSignal[t] = "SLEEPING"}

\* Sleepers that the tick counts down: every one that waits for no process,
\* those asleep on a pipe included.
Counted ==
    {t \in ring : /\ AfterSignal[t] = "SLEEPING"
                  /\ waitPid[t] = 0 \/ t \in ReleasedBySignal}

\* Faulty variant: no test for zero before the decrement.
TicksLeftUnguarded ==
    [t \in Tasks |-> IF t \in Counted THEN sleepTicks[t] - 1 ELSE sleepTicks[t]]

TicksLeft ==
    [t \in Tasks |-> IF t \in Counted /\ sleepTicks[t] > 0
                     THEN sleepTicks[t] - 1 ELSE sleepTicks[t]]

\* Faulty variant: only a decrement can make a task ready.
AfterCountdownNested ==
    [t \in Tasks |-> IF t \in Counted /\ sleepTicks[t] > 0 /\ TicksLeft[t] = 0
                     THEN "READY" ELSE AfterSignal[t]]

AfterCountdown ==
    [t \in Tasks |-> IF t \in Counted /\ TicksLeft[t] = 0
                     THEN "READY" ELSE AfterSignal[t]]

\* Faulty variant: the memory of the running task may go.
FreeDeadTaskAtOnce ==
    /\ freed' = IF taskToFree # NoTask THEN freed \cup {taskToFree} ELSE freed
    /\ taskToFree' = IF Killed THEN current ELSE NoTask

\* task.c:232-254, then the assignment of the signal branch
FreeDeadTask ==
    LET freeing == taskToFree # NoTask /\ taskToFree # current
    IN /\ freed' = IF freeing THEN freed \cup {taskToFree} ELSE freed
       /\ taskToFree' = IF Killed THEN current
                        ELSE IF freeing THEN NoTask ELSE taskToFree

\* timer_handler: the interrupted task will continue at `resume`.
TimerHandler(resume) ==
    /\ ~(Killed /\ current \notin ring)
    /\ FreeDeadTask
    /\ state' = AfterCountdown
    /\ sleepTicks' = TicksLeft
    /\ waitPid' = [t \in Tasks |-> IF t \in ReleasedBySignal THEN 0 ELSE waitPid[t]]
    /\ pc' = [pc EXCEPT ![current] = IF Killed THEN "lost" ELSE resume]
    /\ \E t \in Tasks : /\ IsNextTask(t, AfterCountdown)
                        /\ current' = t
                        /\ irq' = (pc'[t] # "spin")
    /\ UNCHANGED <<ring, waitIo, pending, nextId>>

\* The loop of task.c:266-273 waits to come back to current_task, which has
\* already left the ring: it never ends.
TimerHangs ==
    /\ Killed /\ current \notin ring
    /\ pc' = [pc EXCEPT ![current] = "hung"]
    /\ irq' = FALSE
    /\ UNCHANGED <<sched, taskToFree, freed, nextId>>

\* int $32
SoftTick ==
    /\ pc[current] \in {"yield", "spin", "exit"}
    /\ \/ TimerHandler(CASE pc[current] = "yield" ->
                              IF current = Main THEN "hlt" ELSE "user"
                         [] OTHER -> pc[current])
       \/ TimerHangs

\* IRQ 0 from the timer chip
HardwareTick ==
    /\ irq
    /\ \/ TimerHandler(IF pc[current] = "hlt" THEN "yield" ELSE pc[current])
       \/ TimerHangs

-----------------------------------------------------------------------------
(* What the running task does.                                             *)

\* create_process (the program main() starts, and system call 4) and
\* task_fork: the new task is linked in front of ready_queue.
Spawn ==
    /\ pc[current] \in {"boot", "user"}
    /\ nextId <= MaxTask
    /\ ring' = ring \cup {nextId}
    /\ state' = [state EXCEPT ![nextId] = "READY"]
    /\ sleepTicks' = [sleepTicks EXCEPT ![nextId] = 0]
    /\ waitPid' = [waitPid EXCEPT ![nextId] = 0]
    /\ waitIo' = [waitIo EXCEPT ![nextId] = NoPipe]
    /\ pending' = [pending EXCEPT ![nextId] = {}]
    /\ nextId' = nextId + 1
    /\ pc' = [pc EXCEPT ![nextId] = "user",
                        ![current] = IF current = Main THEN "yield" ELSE "user"]
    /\ irq' = TRUE
    /\ UNCHANGED <<current, taskToFree, freed>>

\* main() when elf_load fails: nothing was created
BootFails ==
    /\ pc[current] = "boot"
    /\ pc' = [pc EXCEPT ![current] = "yield"]
    /\ UNCHANGED <<sched, taskToFree, freed, nextId, irq>>

SleepTicksOf(ms) == IF ms \div 10 = 0 THEN 1 ELSE ms \div 10

sleep ==
    /\ pc[current] = "user"
    /\ \E ms \in SleepMs :
          sleepTicks' = [sleepTicks EXCEPT ![current] = SleepTicksOf(ms)]
    /\ state' = [state EXCEPT ![current] = "SLEEPING"]
    /\ pc' = [pc EXCEPT ![current] = "yield"]
    /\ irq' = TRUE
    /\ UNCHANGED <<ring, current, waitPid, waitIo, pending, taskToFree, freed, nextId>>

\* A pid that is not linked or is dead makes the call return -1 at once.
wait_for_task ==
    /\ pc[current] = "user"
    /\ \E pid \in ring :
          /\ state[pid] # "DEAD"
          /\ waitPid' = [waitPid EXCEPT ![current] = pid]
    /\ state' = [state EXCEPT ![current] = "SLEEPING"]
    /\ pc' = [pc EXCEPT ![current] = "yield"]
    /\ irq' = TRUE
    /\ UNCHANGED <<ring, current, sleepTicks, waitIo, pending, taskToFree, freed, nextId>>

sleep_on_io ==
    /\ pc[current] = "user"
    /\ \E p \in Pipes : waitIo' = [waitIo EXCEPT ![current] = p]
    /\ state' = [state EXCEPT ![current] = "SLEEPING"]
    /\ pc' = [pc EXCEPT ![current] = "yield"]
    /\ irq' = TRUE
    /\ UNCHANGED <<ring, current, sleepTicks, waitPid, pending, taskToFree, freed, nextId>>

\* Faulty variant: wakes whoever names the pipe, asleep or not.
WakeIoAnyState(p) ==
    LET woken == {t \in ring : waitIo[t] = p}
    IN /\ state' = [t \in Tasks |-> IF t \in woken THEN "READY" ELSE state[t]]
       /\ waitIo' = [t \in Tasks |-> IF t \in woken THEN NoPipe ELSE waitIo[t]]
       /\ irq' = TRUE

WakeIo(p) ==
    LET woken == {t \in ring : state[t] = "SLEEPING" /\ waitIo[t] = p}
    IN /\ state' = [t \in Tasks |-> IF t \in woken THEN "READY" ELSE state[t]]
       /\ waitIo' = [t \in Tasks |-> IF t \in woken THEN NoPipe ELSE waitIo[t]]
       /\ irq' = TRUE

\* A read, write or close of a pipe by a task in a system call; and the
\* closes of destroy_current_process, whose sti opens the rest of the exit
\* to interrupts.
wakeup_tasks_waiting_for_io ==
    /\ pc[current] \in {"user", "closing"}
    /\ \E p \in Pipes : WakeIo(p)
    /\ UNCHANGED <<ring, current, sleepTicks, waitPid, pending, taskToFree, freed, nextId, pc>>

\* read() of the terminal: yields with interrupts off until there is a key.
ReadTty ==
    /\ pc[current] = "user"
    /\ pc' = [pc EXCEPT ![current] = "spin"]
    /\ irq' = FALSE
    /\ UNCHANGED <<sched, taskToFree, freed, nextId>>

ReadTtyReturns ==
    /\ pc[current] = "spin"
    /\ pc' = [pc EXCEPT ![current] = "user"]
    /\ irq' = TRUE
    /\ UNCHANGED <<sched, taskToFree, freed, nextId>>

task_kill ==
    /\ pc[current] = "user"
    /\ \E pid \in ring \ {Main}, sig \in Signals :
          pending' = [pending EXCEPT ![pid] = @ \cup {sig}]
    /\ UNCHANGED <<ring, current, state, sleepTicks, waitPid, waitIo, taskToFree,
                   freed, nextId, pc, irq>>

\* Ctrl-C at the keyboard interrupt: the running program gets the signal.
CtrlC ==
    /\ irq /\ current # Main
    /\ SIGINT \in Signals
    /\ pending' = [pending EXCEPT ![current] = @ \cup {SIGINT}]
    /\ UNCHANGED <<ring, current, state, sleepTicks, waitPid, waitIo, taskToFree,
                   freed, nextId, pc, irq>>

-----------------------------------------------------------------------------
(* destroy_current_process: exit, and every system call that kills its     *)
(* caller for a bad pointer.                                               *)

DestroyBegin ==
    /\ pc[current] = "user"
    /\ state' = [state EXCEPT ![current] = "DEAD"]
    /\ taskToFree' = current
    /\ pc' = [pc EXCEPT ![current] = "closing"]
    /\ irq' = FALSE
    /\ UNCHANGED <<ring, current, sleepTicks, waitPid, waitIo, pending, freed, nextId>>

DestroyClosed ==
    /\ pc[current] = "closing"
    /\ pc' = [pc EXCEPT ![current] = "waking"]
    /\ UNCHANGED <<sched, taskToFree, freed, nextId, irq>>

\* Faulty variant: the exit wakes nobody.
NoWaiters == {}

Waiters == {t \in ring : state[t] = "SLEEPING" /\ waitPid[t] = current}

DestroyWakes ==
    /\ pc[current] = "waking"
    /\ \E t \in Waiters :
          /\ state' = [state EXCEPT ![t] = "READY"]
          /\ waitPid' = [waitPid EXCEPT ![t] = 0]
    /\ UNCHANGED <<ring, current, sleepTicks, waitIo, pending, taskToFree, freed,
                   nextId, pc, irq>>

DestroyUnlinks ==
    /\ pc[current] = "waking"
    /\ Waiters = {}
    /\ ring' = ring \ {current}
    /\ pc' = [pc EXCEPT ![current] = "exit"]
    /\ UNCHANGED <<current, state, sleepTicks, waitPid, waitIo, pending, taskToFree,
                   freed, nextId, irq>>

-----------------------------------------------------------------------------

Next ==
    \/ SoftTick \/ HardwareTick
    \/ Spawn \/ BootFails
    \/ sleep \/ wait_for_task \/ sleep_on_io \/ wakeup_tasks_waiting_for_io
    \/ ReadTty \/ ReadTtyReturns
    \/ task_kill \/ CtrlC
    \/ DestroyBegin \/ DestroyClosed \/ DestroyWakes \/ DestroyUnlinks

Spec == Init /\ [][Next]_vars

\* The CPU executes the kernel code it is in.  The timer chip ticks for ever
\* and the interrupt controller keeps a tick that arrives with interrupts off
\* until they are on again, so being enabled now and then is enough for it.
\* Programs owe nothing: no call of theirs is fair.
Fairness ==
    /\ WF_vars(SoftTick)
    /\ SF_vars(HardwareTick)
    /\ WF_vars(Spawn /\ pc[current] = "boot")
    /\ WF_vars(DestroyClosed) /\ WF_vars(DestroyWakes) /\ WF_vars(DestroyUnlinks)

FairSpec == Spec /\ Fairness

-----------------------------------------------------------------------------
(* Properties.                                                             *)

\* Every variable stays within its type.
TypeOK ==
    /\ ring \in SUBSET Tasks
    /\ current \in Tasks
    /\ state \in [Tasks -> States]
    /\ sleepTicks \in [Tasks -> Nat]
    /\ waitPid \in [Tasks -> Tasks]
    /\ waitIo \in [Tasks -> Pipes \cup {NoPipe}]
    /\ pending \in [Tasks -> SUBSET (Signals \cup {SIGINT})]
    /\ taskToFree \in Tasks \cup {NoTask}
    /\ freed \in SUBSET Tasks
    /\ nextId \in 1 .. MaxTask + 1
    /\ pc \in [Tasks -> Places]
    /\ irq \in BOOLEAN

\* The CPU never executes on the stack of a freed task, and no task is handed
\* to kfree twice (task.c:232-254 frees the task that exited before the tick).
NoUseAfterFree == current \notin freed /\ taskToFree \notin freed

\* No wakeup is lost between wait_for_task and destroy_current_process: a task
\* asleep in wait() waits for a task that is still alive, or for the running
\* one, which has not yet gone through its loop over the waiters.
WaitersHaveTarget ==
    \A t \in Tasks : state[t] = "SLEEPING" /\ waitPid[t] # 0 =>
        \/ state[waitPid[t]] \in Alive
        \/ waitPid[t] = current /\ pc[current] \in {"closing", "waking"}

\* docs/syscalls.md on wait: the caller is suspended until the process it
\* named has terminated, so it never runs while it still waits for one.
WaitSuspends == \A t \in Tasks : state[t] \in CanRun => waitPid[t] = 0

\* The comment of sleep() and docs/syscalls.md: sleep counts ticks of the
\* 100 Hz timer; nothing but a hardware tick shortens a sleep.
OnlyTheTimerCounts ==
    [][(\E t \in Tasks : sleepTicks'[t] < sleepTicks[t]) => HardwareTick]_vars

\* docs/syscalls.md on kill: the signal terminates the process, so a task that
\* has been sent one does not survive the next tick it is interrupted by.
KillTerminates ==
    [][(SoftTick \/ HardwareTick) /\ pending[current] # {}
          => state'[current] = "DEAD"]_vars

\* Round robin starves nobody: a ready task gets the CPU.
ReadyRuns == \A t \in Tasks : state[t] = "READY" ~> current = t

\* sleep() ends: a sleeping task that waits for no process is made ready.
SleepEnds ==
    \A t \in Tasks : (state[t] = "SLEEPING" /\ waitPid[t] = 0) ~> state[t] = "READY"

\* A task asleep in wait() for a task that has exited is released.
ExitReleasesWaiters ==
    \A t, u \in Tasks :
        (state[t] = "SLEEPING" /\ waitPid[t] = u /\ state[u] = "DEAD")
            ~> state[t] # "SLEEPING"

\* Interrupts are never off for good, however many tasks poll the terminal
\* with interrupts off: the boot task halts with them on.
InterruptsReturn == []<>irq

-----------------------------------------------------------------------------
\* Where a task is in the life ProcessLifecycle describes.
PhaseOf(t) ==
    IF t \in freed THEN "reaped"
    ELSE CASE state[t] = "UNUSED" -> "none"
           [] state[t] = "DEAD" -> "dead"
           [] state[t] = "SLEEPING" -> "blocked"
           [] OTHER -> "runnable"

Phase == [t \in Tasks |-> PhaseOf(t)]

Lifecycle ==
    INSTANCE ProcessLifecycle WITH Procs <- Tasks, phase <- Phase, running <- current

\* Without signals the scheduler implements the life of a process: it dies
\* only by its own exit, is reaped once and after it left the CPU, and nothing
\* brings it back.
RefinesLifecycle == Lifecycle!Spec

=============================================================================
