--------------------------- MODULE SchedulerProofs ---------------------------
(***************************************************************************)
(* Theorems about Scheduler, for every number of tasks, pipes, signals and *)
(* sleep times.                                                            *)
(***************************************************************************)
EXTENDS Scheduler, TLAPS

-----------------------------------------------------------------------------
(* The operators of the timer handler.                                     *)

\* The boot task is a task: 0 stands for "none" in waitPid.
LEMMA MainIsTask == 0 \in Tasks
BY MaxTaskAssumption DEF MaxTaskAssumption, Tasks

\* What timer_handler computes has the types of the variables it updates.
LEMMA TickTypes ==
    ASSUME TypeOK
    PROVE  /\ ReleasedBySignal \subseteq ring
           /\ AfterSignal \in [Tasks -> States]
           /\ Counted \subseteq ring
           /\ TicksLeft \in [Tasks -> Nat]
           /\ AfterCountdown \in [Tasks -> States]
<1>1. ReleasedBySignal \subseteq ring
  BY DEF ReleasedBySignal
<1>2. AfterSignal \in [Tasks -> States]
  BY DEF AfterSignal, TypeOK, States
<1>3. Counted \subseteq ring
  BY DEF Counted
<1>4. TicksLeft \in [Tasks -> Nat]
  <2> SUFFICES ASSUME NEW t \in Tasks
               PROVE  TicksLeft[t] \in Nat
    BY DEF TicksLeft
  <2>1. sleepTicks[t] \in Nat
    BY DEF TypeOK
  <2> QED
    BY <2>1 DEF TicksLeft
<1>5. AfterCountdown \in [Tasks -> States]
  BY <1>2 DEF AfterCountdown, States
<1> QED
  BY <1>1, <1>2, <1>3, <1>4, <1>5

\* The type invariant is kept by the timer handler, whatever legal place the
\* interrupted task continues at.
LEMMA TimerTypes ==
    ASSUME TypeOK, NEW resume \in Places, TimerHandler(resume)
    PROVE  TypeOK'
<1> USE DEF TimerHandler
<1>1. taskToFree' \in Tasks \cup {NoTask} /\ freed' \in SUBSET Tasks
  BY DEF FreeDeadTask, TypeOK
<1>2. state' \in [Tasks -> States] /\ sleepTicks' \in [Tasks -> Nat]
  BY TickTypes
<1>3. waitPid' \in [Tasks -> Tasks]
  BY MainIsTask DEF TypeOK
<1>4. pc' \in [Tasks -> Places]
  BY DEF TypeOK, Places
<1>5. current' \in Tasks /\ irq' \in BOOLEAN
  OBVIOUS
<1> QED
  BY <1>1, <1>2, <1>3, <1>4, <1>5 DEF TypeOK

\* The kernel that hangs in the timer handler stays well typed.
LEMMA HangTypes ==
    ASSUME TypeOK, TimerHangs
    PROVE  TypeOK'
BY DEF TimerHangs, TypeOK, Places, sched

\* The initial state is well typed.
LEMMA InitTypes == Init => TypeOK
BY MaxTaskAssumption
   DEF Init, TypeOK, Tasks, Main, States, Places, NoTask, MaxTaskAssumption

\* Type correctness: every variable of the scheduler keeps its type.
THEOREM TypeCorrect == Spec => []TypeOK
<1>1. Init => TypeOK
  BY InitTypes
<1>2. TypeOK /\ [Next]_vars => TypeOK'
  <2> SUFFICES ASSUME TypeOK, [Next]_vars
               PROVE  TypeOK'
    OBVIOUS
  <2> USE DEF TypeOK
  <2>1. CASE SoftTick
    <3>1. CASE TimerHangs
      BY <3>1, HangTypes
    <3>2. CASE \E r \in Places : TimerHandler(r)
      BY <3>2, TimerTypes
    <3> QED
      BY <2>1, <3>1, <3>2 DEF SoftTick, Places
  <2>2. CASE HardwareTick
    <3>1. CASE TimerHangs
      BY <3>1, HangTypes
    <3>2. CASE \E r \in Places : TimerHandler(r)
      BY <3>2, TimerTypes
    <3> QED
      BY <2>2, <3>1, <3>2 DEF HardwareTick, Places
  <2>3. CASE Spawn
    <3>1. nextId \in Tasks /\ nextId' \in 1 .. MaxTask + 1
      BY <2>3, MaxTaskAssumption DEF Spawn, Tasks, MaxTaskAssumption
    <3>2. waitPid' \in [Tasks -> Tasks]
      BY <2>3, <3>1, MainIsTask DEF Spawn
    <3>3. state' \in [Tasks -> States] /\ pc' \in [Tasks -> Places]
      BY <2>3, <3>1 DEF Spawn, States, Places
    <3>4. /\ ring' \in SUBSET Tasks
          /\ sleepTicks' \in [Tasks -> Nat]
          /\ waitIo' \in [Tasks -> Pipes \cup {NoPipe}]
          /\ pending' \in [Tasks -> SUBSET (Signals \cup {SIGINT})]
      BY <2>3, <3>1 DEF Spawn
    <3>5. /\ current' \in Tasks /\ taskToFree' \in Tasks \cup {NoTask}
          /\ freed' \in SUBSET Tasks /\ irq' \in BOOLEAN
      BY <2>3 DEF Spawn
    <3> QED
      BY <3>1, <3>2, <3>3, <3>4, <3>5
  <2>4. CASE BootFails
    BY <2>4 DEF BootFails, sched, Places
  <2>5. CASE sleep
    <3>1. \A ms \in SleepMs : SleepTicksOf(ms) \in Nat
      BY SleepMsAssumption DEF SleepTicksOf
    <3> QED
      BY <2>5, <3>1 DEF sleep, States, Places
  <2>6. CASE wait_for_task
    BY <2>6 DEF wait_for_task, States, Places
  <2>7. CASE sleep_on_io
    BY <2>7 DEF sleep_on_io, States, Places
  <2>8. CASE wakeup_tasks_waiting_for_io
    BY <2>8 DEF wakeup_tasks_waiting_for_io, WakeIo, States
  <2>9. CASE ReadTty \/ ReadTtyReturns
    BY <2>9 DEF ReadTty, ReadTtyReturns, sched, Places
  <2>10. CASE task_kill \/ CtrlC
    BY <2>10 DEF task_kill, CtrlC
  <2>11. CASE DestroyBegin
    BY <2>11 DEF DestroyBegin, States, Places
  <2>12. CASE DestroyClosed
    BY <2>12 DEF DestroyClosed, sched, Places
  <2>13. CASE DestroyWakes
    <3>1. state' \in [Tasks -> States] /\ waitPid' \in [Tasks -> Tasks]
      BY <2>13, MainIsTask DEF DestroyWakes, Waiters, States
    <3> QED
      BY <2>13, <3>1 DEF DestroyWakes
  <2>14. CASE DestroyUnlinks
    BY <2>14 DEF DestroyUnlinks, Places
  <2>15. CASE UNCHANGED vars
    BY <2>15 DEF vars
  <2> QED
    BY <2>1, <2>2, <2>3, <2>4, <2>5, <2>6, <2>7, <2>8, <2>9, <2>10, <2>11,
       <2>12, <2>13, <2>14, <2>15 DEF Next
<1> QED
  BY <1>1, <1>2, PTL DEF Spec

-----------------------------------------------------------------------------
(* No use after free, when no signal is ever sent.                         *)

Exiting == {"closing", "waking", "exit"}

\* The inductive invariant: a task that was freed, or is queued to be, is dead,
\* and it is dead exactly while its code is in destroy_current_process.
ReapInv ==
    /\ TypeOK
    /\ \A t \in Tasks : pending[t] = {}
    /\ \A t \in Tasks : state[t] = "DEAD" <=> pc[t] \in Exiting
    /\ \A t \in Tasks : t >= nextId => state[t] = "UNUSED"
    /\ \A t \in freed : state[t] = "DEAD"
    /\ taskToFree # NoTask => state[taskToFree] = "DEAD"
    /\ NoUseAfterFree
    /\ state[current] # "UNUSED"
    /\ state[current] = "SLEEPING" => pc[current] = "yield"

\* Without signals the timer handler changes no state but SLEEPING, to READY.
LEMMA QuietTick ==
    ASSUME ReapInv
    PROVE  /\ ~Killed
           /\ \A t \in Tasks : \/ AfterCountdown[t] = state[t]
                               \/ state[t] = "SLEEPING" /\ AfterCountdown[t] = "READY"
<1>1. ~Killed
  BY DEF Killed, ReapInv, TypeOK
<1>2. \A t \in Tasks : AfterSignal[t] = state[t]
  BY <1>1 DEF AfterSignal, ReleasedBySignal
<1> QED
  BY <1>1, <1>2 DEF AfterCountdown, Counted

\* The timer handler keeps the invariant if it leaves the task where it was,
\* or moves it from one place outside the exit code to another.
LEMMA ReapTick ==
    ASSUME ReapInv, NEW resume \in Places, TimerHandler(resume),
           resume \in Exiting <=> pc[current] \in Exiting
    PROVE  ReapInv'
<1> USE DEF TimerHandler
<1>1. TypeOK'
  BY TimerTypes DEF ReapInv
<1>2. \A t \in Tasks : \/ state'[t] = state[t]
                       \/ state[t] = "SLEEPING" /\ state'[t] = "READY"
  BY QuietTick
<1>3. \A t \in Tasks : state'[t] = "DEAD" <=> state[t] = "DEAD"
  BY <1>2
<1>4. \A t \in Tasks : pc'[t] \in Exiting <=> pc[t] \in Exiting
  BY QuietTick DEF ReapInv, TypeOK
<1>5. freed \subseteq Tasks /\ taskToFree \in Tasks \cup {NoTask}
  BY DEF ReapInv, TypeOK
<1>6. /\ \A t \in freed' : state[t] = "DEAD" /\ t \in Tasks
      /\ taskToFree' # NoTask => taskToFree' = taskToFree
      /\ taskToFree' \notin freed'
  BY <1>5, QuietTick DEF FreeDeadTask, ReapInv, NoUseAfterFree, NoTask, Tasks
<1>7. current' \in Tasks /\ state'[current'] \in CanRun
  BY DEF IsNextTask
<1>8. NoUseAfterFree'
  BY <1>3, <1>6, <1>7 DEF NoUseAfterFree, CanRun
<1>9. /\ \A t \in Tasks : pending'[t] = {}
      /\ \A t \in Tasks : t >= nextId' => state'[t] = "UNUSED"
  BY <1>2 DEF ReapInv
<1> QED
  BY <1>1, <1>3, <1>4, <1>5, <1>6, <1>7, <1>8, <1>9 DEF ReapInv, CanRun

\* The id the next task gets was never used.
LEMMA FreshId ==
    ASSUME ReapInv, nextId <= MaxTask
    PROVE  /\ nextId \in Tasks /\ nextId # current /\ nextId # taskToFree
           /\ nextId \notin freed
           /\ state[nextId] = "UNUSED"
<1>1. nextId \in Tasks /\ nextId >= nextId /\ nextId # NoTask
  BY MaxTaskAssumption DEF ReapInv, TypeOK, Tasks, NoTask, MaxTaskAssumption
<1>2. state[nextId] = "UNUSED"
  BY <1>1 DEF ReapInv
<1> QED
  BY <1>1, <1>2 DEF ReapInv

\* Every step keeps the invariant: each action but the two ticks changes the
\* state of the running task, which is not dead, or of a sleeping one.
LEMMA ReapStep ==
    ASSUME Signals = {}, ReapInv, [Next]_vars, TypeOK'
    PROVE  ReapInv'
<1> USE DEF ReapInv, NoUseAfterFree
<1>1. ASSUME TimerHangs PROVE FALSE
  BY <1>1, QuietTick DEF TimerHangs
<1>2. CASE SoftTick
  <2>1. PICK r \in Places : TimerHandler(r) /\ (r \in Exiting <=> pc[current] \in Exiting)
    BY <1>1, <1>2 DEF SoftTick, Places, Exiting
  <2> QED
    BY <2>1, ReapTick
<1>3. CASE HardwareTick
  <2>1. PICK r \in Places : TimerHandler(r) /\ (r \in Exiting <=> pc[current] \in Exiting)
    BY <1>1, <1>3 DEF HardwareTick, Places, Exiting, TypeOK
  <2> QED
    BY <2>1, ReapTick
<1>4. CASE Spawn
  <2>1. /\ nextId \in Tasks /\ nextId # current /\ nextId # taskToFree
        /\ nextId \notin freed /\ state[nextId] = "UNUSED"
    BY <1>4, FreshId DEF Spawn
  <2>3. \A t \in Tasks : t # nextId =>
           /\ state'[t] = state[t]
           /\ pc'[t] \in Exiting <=> pc[t] \in Exiting
    BY <1>4, <2>1 DEF Spawn, TypeOK, Exiting
  <2>4. state'[nextId] = "READY" /\ pc'[nextId] = "user" /\ pending'[nextId] = {}
    BY <1>4, <2>1 DEF Spawn, TypeOK
  <2>5. /\ UNCHANGED <<freed, taskToFree, current>> /\ nextId' = nextId + 1
        /\ \A t \in Tasks : pending'[t] = {}
    BY <1>4, <2>1 DEF Spawn, TypeOK
  <2>6. \A t \in Tasks : t >= nextId' => state'[t] = "UNUSED"
    BY <2>3, <2>5 DEF TypeOK, Tasks
  <2>7. /\ freed \subseteq Tasks /\ current \in Tasks
        /\ taskToFree \in Tasks \cup {NoTask} /\ state[current] # "SLEEPING"
    BY <1>4 DEF Spawn, TypeOK
  <2> QED
    BY <2>1, <2>3, <2>4, <2>5, <2>6, <2>7 DEF Exiting
<1>5. CASE sleep \/ wait_for_task \/ sleep_on_io
  <2>1. /\ state' = [state EXCEPT ![current] = "SLEEPING"]
        /\ pc' = [pc EXCEPT ![current] = "yield"]
        /\ pc[current] = "user"
        /\ UNCHANGED <<current, pending, taskToFree, freed, nextId>>
    BY <1>5 DEF sleep, wait_for_task, sleep_on_io
  <2> QED
    BY <2>1 DEF TypeOK, Exiting, Tasks
<1>6. CASE wakeup_tasks_waiting_for_io \/ DestroyWakes
  <2>1. /\ \A t \in Tasks : \/ state'[t] = state[t]
                            \/ state[t] = "SLEEPING" /\ state'[t] = "READY"
        /\ UNCHANGED <<current, pending, taskToFree, freed, nextId, pc>>
    BY <1>6 DEF wakeup_tasks_waiting_for_io, WakeIo, DestroyWakes, Waiters, TypeOK
  <2> QED
    BY <2>1 DEF TypeOK
<1>7. CASE \/ BootFails \/ ReadTty \/ ReadTtyReturns \/ DestroyClosed
           \/ DestroyUnlinks
  <2>1. /\ UNCHANGED <<current, state, pending, taskToFree, freed, nextId>>
        /\ \A t \in Tasks : pc'[t] \in Exiting <=> pc[t] \in Exiting
    BY <1>7 DEF BootFails, ReadTty, ReadTtyReturns, DestroyClosed,
                DestroyUnlinks, sched, Exiting, TypeOK
  <2>2. state[current] # "SLEEPING"
    BY <1>7 DEF BootFails, ReadTty, ReadTtyReturns, DestroyClosed, DestroyUnlinks
  <2> QED
    BY <2>1, <2>2
<1>8. CASE task_kill \/ CtrlC
  BY <1>8 DEF task_kill, CtrlC
<1>9. CASE DestroyBegin
  <2>1. current \in Tasks /\ state[current] # "DEAD" /\ current \notin freed
    BY <1>9 DEF DestroyBegin, TypeOK, Exiting
  <2>2. current < nextId
    BY <2>1 DEF TypeOK, Tasks
  <2> QED
    BY <1>9, <2>1, <2>2 DEF DestroyBegin, TypeOK, Exiting
<1>10. CASE UNCHANGED vars
  BY <1>10 DEF vars
<1> QED
  BY <1>2, <1>3, <1>4, <1>5, <1>6, <1>7, <1>8, <1>9, <1>10 DEF Next

\* The invariant holds at boot.
LEMMA ReapInit == Init => ReapInv
BY InitTypes, MainIsTask
   DEF Init, ReapInv, NoUseAfterFree, Tasks, Main, NoTask, Exiting

\* The memory of a task the CPU is running on is never freed, and no task is
\* freed twice, as long as no signal is sent.
THEOREM NoUseAfterFreeWithoutSignals ==
    ASSUME Signals = {}
    PROVE  Spec => []NoUseAfterFree
<1>1. Init => ReapInv
  BY ReapInit
<1>2. ReapInv /\ TypeOK' /\ [Next]_vars => ReapInv'
  BY ReapStep
<1>3. ReapInv => NoUseAfterFree
  BY DEF ReapInv
<1> QED
  BY <1>1, <1>2, <1>3, TypeCorrect, PTL DEF Spec

-----------------------------------------------------------------------------
(* The scheduler implements ProcessLifecycle, when no signal is ever sent. *)

\* What PhaseOf says of a task that was not freed.
LEMMA PhaseValues ==
    ASSUME ReapInv, NEW t \in Tasks
    PROVE  /\ Phase[t] = PhaseOf(t)
           /\ t \in freed <=> PhaseOf(t) = "reaped"
           /\ t \notin freed => /\ PhaseOf(t) = "none" <=> state[t] = "UNUSED"
                                /\ PhaseOf(t) = "dead" <=> state[t] = "DEAD"
                                /\ PhaseOf(t) = "blocked" <=> state[t] = "SLEEPING"
                                /\ PhaseOf(t) = "runnable" <=> state[t] \in CanRun
BY DEF Phase, PhaseOf, ReapInv, TypeOK, States, CanRun

\* A task keeps its phase when its state and the freed tasks do not change.
LEMMA PhaseSame ==
    ASSUME NEW t \in Tasks, state'[t] = state[t], t \in freed' <=> t \in freed
    PROVE  PhaseOf(t)' = PhaseOf(t)
BY DEF PhaseOf

\* The timer handler is a Schedule step: the sleepers it makes ready become
\* runnable, the dead task it frees is reaped.
LEMMA TickSchedules ==
    ASSUME ReapInv, ReapInv', NEW resume \in Places, TimerHandler(resume)
    PROVE  \E S, R \in SUBSET Tasks : Lifecycle!Schedule(S, R)
<1> DEFINE S == {t \in Tasks : state[t] = "SLEEPING" /\ state'[t] = "READY"}
           R == {t \in Tasks : t \in freed' /\ t \notin freed}
<1> USE DEF TimerHandler
<1>1. \A t \in Tasks : \/ state'[t] = state[t]
                       \/ state[t] = "SLEEPING" /\ state'[t] = "READY"
  BY QuietTick
<1>2. /\ freed \subseteq freed'
      /\ \A t \in R : t = taskToFree /\ t # current
  BY DEF FreeDeadTask
<1>3. \A t \in freed : state[t] = "DEAD"
  BY DEF ReapInv
<1>4. \A t \in S : PhaseOf(t) = "blocked" /\ PhaseOf(t)' = "runnable"
  <2> SUFFICES ASSUME NEW t \in S
               PROVE  PhaseOf(t) = "blocked" /\ PhaseOf(t)' = "runnable"
    OBVIOUS
  <2>1. t \notin freed /\ t \notin freed'
    BY <1>3 DEF ReapInv
  <2> QED
    BY <2>1 DEF PhaseOf
<1>5. \A t \in R : PhaseOf(t) = "dead" /\ PhaseOf(t)' = "reaped"
  <2> SUFFICES ASSUME NEW t \in R
               PROVE  PhaseOf(t) = "dead" /\ PhaseOf(t)' = "reaped"
    OBVIOUS
  <2>1. state[t] = "DEAD" /\ t \notin freed /\ t \in freed'
    BY <1>1, <1>2 DEF ReapInv, NoTask, Tasks
  <2> QED
    BY <2>1 DEF PhaseOf
<1>6. \A t \in Tasks : t \notin S /\ t \notin R => PhaseOf(t)' = PhaseOf(t)
  BY <1>1, <1>2, PhaseSame
<1>7. PICK c \in Tasks : current' = c /\ PhaseOf(c)' = "runnable"
  <2>1. PICK c \in Tasks : current' = c /\ state'[c] \in CanRun
    BY DEF IsNextTask
  <2>2. c \notin freed'
    BY <2>1 DEF ReapInv, NoUseAfterFree
  <2>3. PhaseOf(c)' = "runnable"
    BY <2>1, <2>2 DEF PhaseOf, CanRun
  <2> QED
    BY <2>1, <2>3
<1>8. Phase' = [p \in Tasks |-> IF p \in S THEN "runnable"
                                ELSE IF p \in R THEN "reaped" ELSE Phase[p]]
  BY <1>4, <1>5, <1>6 DEF Phase
<1>9. Phase'[current'] = "runnable"
  BY <1>7 DEF Phase
<1>10. Lifecycle!Schedule(S, R)
  BY <1>2, <1>4, <1>5, <1>7, <1>8, <1>9 DEF Lifecycle!Schedule, Phase
<1> QED
  BY <1>10

\* Every step of the scheduler is a step of ProcessLifecycle or changes
\* nothing there.
LEMMA StepRefines ==
    ASSUME Signals = {}, ReapInv, ReapInv', [Next]_vars
    PROVE  [Lifecycle!Next]_<<Phase, current>>
<1>1. ASSUME TimerHangs PROVE FALSE
  BY <1>1, QuietTick DEF TimerHangs
<1>2. CASE SoftTick \/ HardwareTick
  <2>1. PICK r \in Places : TimerHandler(r)
    BY <1>1, <1>2 DEF SoftTick, HardwareTick, Places, ReapInv, TypeOK
  <2> QED
    BY <2>1, TickSchedules DEF Lifecycle!Next
<1>3. CASE Spawn
  <2>1. PICK n \in Tasks : /\ n \notin freed /\ state[n] = "UNUSED"
                           /\ state' = [state EXCEPT ![n] = "READY"]
    BY <1>3, FreshId DEF Spawn
  <2>2. state'[n] = "READY" /\ UNCHANGED <<current, freed>>
    BY <1>3, <2>1 DEF ReapInv, TypeOK, Spawn
  <2>3. PhaseOf(n) = "none" /\ PhaseOf(n)' = "runnable"
    BY <2>1, <2>2 DEF PhaseOf
  <2>4. \A t \in Tasks : t # n => PhaseOf(t)' = PhaseOf(t)
    <3>1. \A t \in Tasks : t # n => state'[t] = state[t]
      BY <2>1 DEF ReapInv, TypeOK
    <3> QED
      BY <2>2, <3>1, PhaseSame
  <2>5. Phase' = [Phase EXCEPT ![n] = "runnable"] /\ Phase[n] = "none"
    BY <2>3, <2>4 DEF Phase
  <2>6. Lifecycle!Born(n)
    BY <2>2, <2>5 DEF Lifecycle!Born
  <2> QED
    BY <2>6 DEF Lifecycle!Next
<1>4. CASE sleep \/ wait_for_task \/ sleep_on_io \/ DestroyBegin
  <2>1. PICK st \in {"SLEEPING", "DEAD"} :
           /\ pc[current] = "user"
           /\ state' = [state EXCEPT ![current] = st]
           /\ UNCHANGED <<current, freed>>
    BY <1>4 DEF sleep, wait_for_task, sleep_on_io, DestroyBegin
  <2>2. PICK c \in Tasks : /\ c = current /\ c \notin freed
                           /\ state[c] \in CanRun
    <3>1. current \in Tasks /\ current \notin freed /\ state[current] \in States
      BY DEF ReapInv, TypeOK, NoUseAfterFree
    <3>2. state[current] \in CanRun
      BY <2>1, <3>1 DEF ReapInv, Exiting, States, CanRun
    <3> QED
      BY <3>1, <3>2
  <2>3. /\ state'[c] = st /\ c \notin freed'
        /\ \A t \in Tasks : t # c => state'[t] = state[t]
    BY <2>1, <2>2 DEF ReapInv, TypeOK
  <2>4. /\ PhaseOf(c) = "runnable"
        /\ PhaseOf(c)' = IF st = "DEAD" THEN "dead" ELSE "blocked"
    BY <2>2, <2>3 DEF PhaseOf, CanRun
  <2>5. \A t \in Tasks : t # c => PhaseOf(t)' = PhaseOf(t)
    BY <2>1, <2>3, PhaseSame
  <2>6. /\ Phase' = [Phase EXCEPT ![c] = IF st = "DEAD" THEN "dead" ELSE "blocked"]
        /\ Phase[c] = "runnable"
    BY <2>4, <2>5 DEF Phase
  <2> QED
    BY <2>1, <2>2, <2>6 DEF Lifecycle!Next, Lifecycle!Leave
<1>5. CASE wakeup_tasks_waiting_for_io \/ DestroyWakes
  <2> DEFINE S == {t \in Tasks : state[t] = "SLEEPING" /\ state'[t] = "READY"}
  <2>1. /\ \A t \in Tasks : t \notin S => state'[t] = state[t]
        /\ UNCHANGED <<current, freed>>
    BY <1>5 DEF wakeup_tasks_waiting_for_io, WakeIo, DestroyWakes, Waiters,
                ReapInv, TypeOK
  <2>2. \A t \in S : PhaseOf(t) = "blocked" /\ PhaseOf(t)' = "runnable"
    <3>1. \A t \in S : t \notin freed /\ t \notin freed'
      BY <2>1 DEF ReapInv
    <3> QED
      BY <3>1 DEF PhaseOf
  <2>3. \A t \in Tasks : t \notin S => PhaseOf(t)' = PhaseOf(t)
    BY <2>1, PhaseSame
  <2>4. Phase' = [p \in Tasks |-> IF p \in S THEN "runnable" ELSE Phase[p]]
    BY <2>2, <2>3 DEF Phase
  <2>5. Lifecycle!Unblock(S)
    BY <2>1, <2>2, <2>4 DEF Lifecycle!Unblock, Phase
  <2> QED
    BY <2>5 DEF Lifecycle!Next
<1>6. CASE \/ BootFails \/ ReadTty \/ ReadTtyReturns \/ DestroyClosed
           \/ DestroyUnlinks \/ task_kill \/ CtrlC \/ UNCHANGED vars
  <2>1. UNCHANGED <<state, current, freed>>
    BY <1>6 DEF BootFails, ReadTty, ReadTtyReturns, DestroyClosed,
                DestroyUnlinks, task_kill, CtrlC, sched, vars
  <2>2. \A t \in Tasks : PhaseOf(t)' = PhaseOf(t)
    BY <2>1, PhaseSame
  <2> QED
    BY <2>1, <2>2 DEF Phase
<1> QED
  BY <1>2, <1>3, <1>4, <1>5, <1>6 DEF Next

\* The boot task alone exists and runs in both initial states.
LEMMA InitRefines == Init => Lifecycle!Init
BY MainIsTask DEF Init, Lifecycle!Init, Phase, PhaseOf, Main

\* Without signals the scheduler implements the life of a process, for every
\* number of tasks, pipes and sleep times, pipe closes that let interrupts
\* into the middle of an exit included.
THEOREM ImplementsLifecycle ==
    ASSUME Signals = {}
    PROVE  Spec => RefinesLifecycle
<1>1. Spec => []ReapInv
  <2>1. Init => ReapInv
    BY ReapInit
  <2>2. ReapInv /\ TypeOK' /\ [Next]_vars => ReapInv'
    BY ReapStep
  <2> QED
    BY <2>1, <2>2, TypeCorrect, PTL DEF Spec
<1>2. ReapInv /\ ReapInv' /\ [Next]_vars => [Lifecycle!Next]_<<Phase, current>>
  BY StepRefines
<1> QED
  BY <1>1, <1>2, InitRefines, PTL DEF Spec, RefinesLifecycle, Lifecycle!Spec

-----------------------------------------------------------------------------
(* No lost wakeup in wait(), when no task ever sleeps on a pipe.           *)

DeadPlaces == {"closing", "waking", "exit", "lost", "hung"}

\* The inductive invariant.  Its heart is the third conjunct: without pipes
\* nothing turns interrupts on between the start of an exit and its unlinking,
\* so the exiting task keeps the CPU until it has woken every waiter.
JoinInv ==
    /\ TypeOK
    /\ \A t \in Tasks : (state[t] \in Alive => t \in ring)
                        /\ (t \in ring => state[t] # "UNUSED")
    /\ \A t \in Tasks : pc[t] \in {"closing", "waking"} =>
                           t = current /\ irq = FALSE /\ state[t] = "DEAD"
    /\ \A t \in Tasks : state[t] = "DEAD" => pc[t] \in DeadPlaces
    /\ state[current] = "SLEEPING" => pc[current] = "yield"
    /\ state[current] # "UNUSED"
    /\ WaitersHaveTarget
    /\ WaitSuspends

\* The invariant holds at boot.
LEMMA JoinInit == Init => JoinInv
BY InitTypes, MainIsTask
   DEF Init, JoinInv, WaitersHaveTarget, WaitSuspends, Tasks, Main, Alive, CanRun

\* What the timer handler can do to one task.
LEMMA TickCases ==
    ASSUME TypeOK, NEW resume, TimerHandler(resume), NEW t \in Tasks
    PROVE  /\ \/ (Killed /\ t = current) /\ state'[t] = "DEAD"
              \/ t \in ReleasedBySignal /\ state'[t] = "READY"
              \/ state[t] = "SLEEPING" /\ waitPid[t] = 0 /\ state'[t] = "READY"
              \/ /\ state'[t] = state[t] /\ t \notin ReleasedBySignal
                 /\ ~(Killed /\ t = current)
           /\ waitPid'[t] = IF t \in ReleasedBySignal THEN 0 ELSE waitPid[t]
<1>1. waitPid'[t] = IF t \in ReleasedBySignal THEN 0 ELSE waitPid[t]
  BY DEF TimerHandler
<1>2. state'[t] = IF t \in Counted /\ TicksLeft[t] = 0 THEN "READY" ELSE AfterSignal[t]
  BY DEF TimerHandler, AfterCountdown
<1>3. AfterSignal[t] = IF Killed /\ t = current THEN "DEAD"
                       ELSE IF t \in ReleasedBySignal THEN "READY" ELSE state[t]
  BY DEF AfterSignal
<1>4. t \in Counted => AfterSignal[t] = "SLEEPING" /\ (waitPid[t] = 0 \/ t \in ReleasedBySignal)
  BY DEF Counted
<1>5. t \in ReleasedBySignal => Killed /\ t # current
  BY DEF ReleasedBySignal
<1> QED
  BY <1>1, <1>2, <1>3, <1>4, <1>5

\* A tick, the signal branch included, keeps the invariant if it does not fall
\* into the first half of an exit.
LEMMA JoinTick ==
    ASSUME JoinInv, NEW resume \in Places, TimerHandler(resume),
           pc[current] \notin {"closing", "waking"},
           resume \notin {"closing", "waking"},
           pc[current] \in DeadPlaces => resume \in DeadPlaces
    PROVE  JoinInv'
<1> USE DEF TimerHandler
<1>1. TypeOK'
  BY TimerTypes DEF JoinInv
<1>2. \A t \in Tasks : pc[t] \notin {"closing", "waking"}
  BY DEF JoinInv
<1>3. \A t \in Tasks : pc'[t] \notin {"closing", "waking"}
  BY <1>2 DEF JoinInv, TypeOK
<1>4. PICK c \in Tasks : current' = c /\ state'[c] \in CanRun
  BY DEF IsNextTask
<1>5. ASSUME NEW t \in Tasks
      PROVE  /\ state'[t] = "DEAD" => state[t] = "DEAD" \/ (Killed /\ t = current)
             /\ state'[t] \in Alive => state[t] \in Alive \/ t \in ring
             /\ state'[t] = "UNUSED" => state[t] = "UNUSED"
             /\ state'[t] = "SLEEPING" => /\ state[t] = "SLEEPING"
                                          /\ waitPid'[t] = waitPid[t]
                                          /\ t \notin ReleasedBySignal
             /\ state[t] \in Alive => state'[t] \in Alive \/ (Killed /\ t = current)
             /\ state'[t] \in CanRun => state[t] \in CanRun \/ waitPid'[t] = 0
  <2>1. t \in ReleasedBySignal => t \in ring
    BY DEF ReleasedBySignal
  <2>2. state[t] \in States
    BY DEF JoinInv, TypeOK
  <2>3. /\ \/ (Killed /\ t = current) /\ state'[t] = "DEAD"
           \/ t \in ReleasedBySignal /\ state'[t] = "READY"
           \/ state[t] = "SLEEPING" /\ waitPid[t] = 0 /\ state'[t] = "READY"
           \/ /\ state'[t] = state[t] /\ t \notin ReleasedBySignal
              /\ ~(Killed /\ t = current)
        /\ waitPid'[t] = IF t \in ReleasedBySignal THEN 0 ELSE waitPid[t]
    BY TickCases DEF JoinInv
  <2>4. /\ state'[t] = "DEAD" => state[t] = "DEAD" \/ (Killed /\ t = current)
        /\ state'[t] \in Alive => state[t] \in Alive \/ t \in ring
        /\ state'[t] = "UNUSED" => state[t] = "UNUSED"
    BY <2>1, <2>3 DEF Alive
  <2>5. state'[t] = "SLEEPING" => /\ state[t] = "SLEEPING"
                                  /\ waitPid'[t] = waitPid[t]
                                  /\ t \notin ReleasedBySignal
    BY <2>3
  <2>6. state[t] \in Alive => state'[t] \in Alive \/ (Killed /\ t = current)
    BY <2>3 DEF Alive
  <2>7. state'[t] \in CanRun => state[t] \in CanRun \/ waitPid'[t] = 0
    BY <2>3 DEF CanRun
  <2> QED
    BY <2>4, <2>5, <2>6, <2>7
<1>6. \A t \in Tasks : (state'[t] \in Alive => t \in ring')
                       /\ (t \in ring' => state'[t] # "UNUSED")
  BY <1>5 DEF JoinInv
<1>7. \A t \in Tasks : state'[t] = "DEAD" => pc'[t] \in DeadPlaces
  BY <1>5 DEF JoinInv, TypeOK, DeadPlaces
<1>8. WaitSuspends'
  BY <1>5 DEF JoinInv, WaitSuspends
<1>9. WaitersHaveTarget'
  <2> SUFFICES ASSUME NEW t \in Tasks, state'[t] = "SLEEPING", waitPid'[t] # 0
               PROVE  state'[waitPid'[t]] \in Alive
    BY DEF WaitersHaveTarget
  <2>1. /\ state[t] = "SLEEPING" /\ waitPid'[t] = waitPid[t]
        /\ t \notin ReleasedBySignal /\ t \in ring /\ waitPid[t] \in Tasks
    BY <1>5 DEF JoinInv, TypeOK, Alive
  <2>2. state[waitPid[t]] \in Alive
    BY <1>2, <2>1 DEF JoinInv, WaitersHaveTarget, TypeOK
  <2>3. CASE Killed /\ waitPid[t] = current
    <3>1. state'[current] # "SLEEPING"
      BY <2>3, TickTypes DEF AfterCountdown, AfterSignal, JoinInv, TypeOK, Counted
    <3> QED
      BY <2>1, <2>3, <3>1 DEF ReleasedBySignal
  <2>4. CASE ~(Killed /\ waitPid[t] = current)
    BY <1>5, <2>1, <2>2, <2>4
  <2> QED
    BY <2>3, <2>4
<1> QED
  BY <1>1, <1>3, <1>4, <1>6, <1>7, <1>8, <1>9 DEF JoinInv, CanRun

\* Every step keeps the invariant.
LEMMA JoinStep ==
    ASSUME Pipes = {}, JoinInv, [Next]_vars, TypeOK'
    PROVE  JoinInv'
<1> USE DEF JoinInv
<1>1. CASE SoftTick \/ HardwareTick
  <2>1. pc[current] \notin {"closing", "waking"}
    BY <1>1 DEF SoftTick, HardwareTick, TypeOK
  <2>2. CASE TimerHangs
    BY <2>1, <2>2 DEF TimerHangs, sched, TypeOK, DeadPlaces, Alive, WaitersHaveTarget,
                      WaitSuspends
  <2>3. CASE ~TimerHangs
    <3>1. PICK r \in Places : /\ TimerHandler(r)
                              /\ r \notin {"closing", "waking"}
                              /\ pc[current] \in DeadPlaces => r \in DeadPlaces
      BY <1>1, <2>1, <2>3 DEF SoftTick, HardwareTick, Places, DeadPlaces, TypeOK
    <3> QED
      BY <2>1, <3>1, JoinTick
  <2> QED
    BY <2>2, <2>3
<1>2. CASE Spawn
  <2>1. PICK n \in Tasks : /\ n = nextId
                           /\ state' = [state EXCEPT ![n] = "READY"]
                           /\ waitPid' = [waitPid EXCEPT ![n] = 0]
                           /\ ring' = ring \cup {n}
    BY <1>2 DEF Spawn, TypeOK, Tasks
  <2>2. /\ pc[current] \in {"boot", "user"} /\ current' = current
        /\ \A t \in Tasks : pc'[t] \in {pc[t], "user", "yield"}
        /\ \A t \in Tasks : t # n => pc'[t] = pc[t] \/ t = current
    BY <1>2, <2>1, ZenonT(30) DEF Spawn, TypeOK
  <2>3. /\ state'[n] = "READY" /\ waitPid'[n] = 0
        /\ \A t \in Tasks : t # n => state'[t] = state[t] /\ waitPid'[t] = waitPid[t]
    BY <2>1 DEF TypeOK
  <2>4. current \in Tasks /\ state[current] \notin {"DEAD", "SLEEPING"}
    BY <2>2 DEF TypeOK, DeadPlaces
  <2>5. \A t \in Tasks : state[t] \in Alive => state'[t] \in Alive
    BY <2>3 DEF Alive
  <2>6. WaitersHaveTarget'
    BY <2>2, <2>3, <2>4, <2>5 DEF WaitersHaveTarget, TypeOK
  <2>7. WaitSuspends'
    BY <2>3 DEF WaitSuspends
  <2>8. \A t \in Tasks : pc'[t] \in {"closing", "waking"} => FALSE
    BY <2>2
  <2>9. \A t \in Tasks : state'[t] = "DEAD" => pc'[t] \in DeadPlaces
    BY <2>2, <2>3, <2>4
  <2>10. \A t \in Tasks : (state'[t] \in Alive => t \in ring')
                          /\ (t \in ring' => state'[t] # "UNUSED")
    BY <2>1, <2>3
  <2> QED
    BY <2>2, <2>3, <2>4, <2>6, <2>7, <2>8, <2>9, <2>10
<1>3. CASE sleep \/ wait_for_task
  <2>1. PICK c \in Tasks : /\ c = current /\ pc[c] = "user"
                           /\ state' = [state EXCEPT ![c] = "SLEEPING"]
                           /\ pc' = [pc EXCEPT ![c] = "yield"]
                           /\ UNCHANGED <<current, ring>>
    BY <1>3 DEF sleep, wait_for_task, TypeOK
  <2>2. state[c] \in CanRun /\ waitPid[c] = 0
    BY <2>1 DEF TypeOK, States, CanRun, DeadPlaces, WaitSuspends
  <2>3. /\ state'[c] = "SLEEPING" /\ pc'[c] = "yield"
        /\ \A t \in Tasks : t # c => state'[t] = state[t] /\ pc'[t] = pc[t]
    BY <2>1 DEF TypeOK
  <2>4. /\ \A t \in Tasks : t # c => waitPid'[t] = waitPid[t]
        /\ \/ waitPid'[c] = 0
           \/ waitPid'[c] \in Tasks /\ state[waitPid'[c]] \in Alive
    <3>1. CASE sleep
      BY <2>2, <3>1 DEF sleep
    <3>2. CASE wait_for_task
      <4>1. PICK pid \in Tasks : /\ pid \in ring /\ state[pid] # "DEAD"
                                 /\ waitPid' = [waitPid EXCEPT ![c] = pid]
        BY <2>1, <3>2 DEF wait_for_task, TypeOK
      <4>2. state[pid] \in Alive
        BY <4>1 DEF TypeOK, States, Alive
      <4> QED
        BY <2>1, <4>1, <4>2 DEF TypeOK
    <3> QED
      BY <1>3, <3>1, <3>2
  <2>5. \A t \in Tasks : state[t] \in Alive => state'[t] \in Alive
    BY <2>3 DEF Alive
  <2>6. WaitersHaveTarget'
    BY <2>1, <2>3, <2>4, <2>5 DEF WaitersHaveTarget, TypeOK
  <2>7. WaitSuspends'
    BY <2>3, <2>4 DEF WaitSuspends, CanRun
  <2>8. c \in ring
    BY <2>2 DEF CanRun, Alive
  <2> QED
    BY <2>1, <2>3, <2>6, <2>7, <2>8
<1>5. CASE sleep_on_io \/ wakeup_tasks_waiting_for_io
  BY <1>5 DEF sleep_on_io, wakeup_tasks_waiting_for_io
<1>6. CASE BootFails \/ ReadTty \/ ReadTtyReturns \/ task_kill \/ CtrlC
  <2>1. UNCHANGED <<current, state, waitPid, ring>>
    BY <1>6 DEF BootFails, ReadTty, ReadTtyReturns, task_kill, CtrlC, sched
  <2>2. WaitersHaveTarget' /\ WaitSuspends'
    <3>1. pc[current] \in {"closing", "waking"} => pc' = pc
      BY <1>6 DEF BootFails, ReadTty, ReadTtyReturns, task_kill, CtrlC
    <3> QED
      BY <2>1, <3>1 DEF WaitersHaveTarget, WaitSuspends
  <2>3. CASE UNCHANGED <<pc, irq>>
    BY <2>1, <2>2, <2>3
  <2>4. CASE \E r \in {"yield", "spin", "user"} :
                pc[current] \in {"boot", "user", "spin"} /\ pc' = [pc EXCEPT ![current] = r]
    <3>1. \A t \in Tasks : pc[t] \notin {"closing", "waking"}
      BY <2>4
    <3>2. state[current] \notin {"DEAD", "SLEEPING"} /\ current \in Tasks
      BY <2>4 DEF DeadPlaces, TypeOK
    <3>3. \A t \in Tasks : pc'[t] \in {pc[t], "yield", "spin", "user"}
                           /\ (t # current => pc'[t] = pc[t])
      BY <2>4 DEF TypeOK
    <3> QED
      BY <2>1, <2>2, <3>1, <3>2, <3>3
  <2> QED
    BY <1>6, <2>3, <2>4 DEF BootFails, ReadTty, ReadTtyReturns, task_kill, CtrlC
<1>7. CASE DestroyBegin
  <2>1. PICK c \in Tasks : /\ c = current /\ pc[c] = "user"
                           /\ state' = [state EXCEPT ![c] = "DEAD"]
                           /\ pc' = [pc EXCEPT ![c] = "closing"]
                           /\ UNCHANGED <<current, ring, waitPid>> /\ irq' = FALSE
    BY <1>7 DEF DestroyBegin, TypeOK
  <2>2. /\ state'[c] = "DEAD" /\ pc'[c] = "closing"
        /\ \A t \in Tasks : t # c => state'[t] = state[t] /\ pc'[t] = pc[t]
    BY <2>1 DEF TypeOK
  <2>3. \A t \in Tasks : pc[t] \notin {"closing", "waking"}
    BY <2>1
  <2>4. WaitersHaveTarget'
    BY <2>1, <2>2, <2>3 DEF WaitersHaveTarget, TypeOK
  <2>5. WaitSuspends'
    BY <2>1, <2>2 DEF WaitSuspends, CanRun
  <2> QED
    BY <2>1, <2>2, <2>3, <2>4, <2>5 DEF DeadPlaces, Alive
<1>8. CASE DestroyClosed
  <2>1. /\ UNCHANGED <<current, state, waitPid, ring, irq>>
        /\ pc[current] = "closing" /\ pc' = [pc EXCEPT ![current] = "waking"]
        /\ current \in Tasks
    BY <1>8 DEF DestroyClosed, sched, TypeOK
  <2>2. pc'[current] = "waking" /\ \A t \in Tasks : t # current => pc'[t] = pc[t]
    BY <2>1 DEF TypeOK
  <2>3. WaitersHaveTarget' /\ WaitSuspends'
    BY <2>1, <2>2 DEF WaitersHaveTarget, WaitSuspends
  <2> QED
    BY <2>1, <2>2, <2>3 DEF DeadPlaces
<1>9. CASE DestroyWakes
  <2>1. PICK w \in Tasks : /\ w \in ring /\ state[w] = "SLEEPING"
                           /\ state' = [state EXCEPT ![w] = "READY"]
                           /\ waitPid' = [waitPid EXCEPT ![w] = 0]
                           /\ UNCHANGED <<current, ring, pc, irq>>
    BY <1>9 DEF DestroyWakes, Waiters, TypeOK
  <2>2. /\ state'[w] = "READY" /\ waitPid'[w] = 0
        /\ \A t \in Tasks : t # w => state'[t] = state[t] /\ waitPid'[t] = waitPid[t]
    BY <2>1 DEF TypeOK
  <2>3. \A t \in Tasks : state[t] \in Alive => state'[t] \in Alive
    BY <2>2 DEF Alive
  <2>4. WaitersHaveTarget' /\ WaitSuspends'
    BY <2>1, <2>2, <2>3 DEF WaitersHaveTarget, WaitSuspends, TypeOK
  <2>5. state[current] = "DEAD" /\ current \in Tasks
    BY <1>9 DEF DestroyWakes, TypeOK
  <2> QED
    BY <2>1, <2>2, <2>4, <2>5
<1>10. CASE DestroyUnlinks
  <2>1. /\ UNCHANGED <<current, state, waitPid, irq>>
        /\ pc[current] = "waking" /\ pc' = [pc EXCEPT ![current] = "exit"]
        /\ ring' = ring \ {current} /\ Waiters = {} /\ current \in Tasks
    BY <1>10 DEF DestroyUnlinks, TypeOK
  <2>2. /\ pc'[current] = "exit" /\ state[current] = "DEAD"
        /\ \A t \in Tasks : t # current => pc'[t] = pc[t]
    BY <2>1 DEF TypeOK
  <2>3. \A t \in Tasks : state[t] = "SLEEPING" => waitPid[t] # current
    BY <2>1 DEF Waiters, Alive
  <2>4. WaitersHaveTarget' /\ WaitSuspends'
    BY <2>1, <2>3 DEF WaitersHaveTarget, WaitSuspends
  <2> QED
    BY <2>1, <2>2, <2>4 DEF DeadPlaces, Alive
<1>11. CASE UNCHANGED vars
  BY <1>11 DEF vars, WaitersHaveTarget, WaitSuspends
<1> QED
  BY <1>1, <1>2, <1>3, <1>5, <1>6, <1>7, <1>8, <1>9, <1>10, <1>11 DEF Next

\* No wakeup is lost in wait(), in a system whose programs use no pipes,
\* whatever signals are sent: the target of every waiter is alive or exiting.
THEOREM WaitersAreReleasedWithoutPipes ==
    ASSUME Pipes = {}
    PROVE  Spec => []WaitersHaveTarget
<1>1. JoinInv /\ TypeOK' /\ [Next]_vars => JoinInv'
  BY JoinStep
<1>2. JoinInv => WaitersHaveTarget
  BY DEF JoinInv
<1> QED
  BY <1>1, <1>2, JoinInit, TypeCorrect, PTL DEF Spec

\* wait() suspends: nobody runs while it still waits for its target, in a
\* system whose programs use no pipes, whatever signals are sent.
THEOREM WaitDoesNotReturnEarly ==
    ASSUME Pipes = {}
    PROVE  Spec => []WaitSuspends
<1>1. JoinInv /\ TypeOK' /\ [Next]_vars => JoinInv'
  BY JoinStep
<1>2. JoinInv => WaitSuspends
  BY DEF JoinInv
<1> QED
  BY <1>1, <1>2, JoinInit, TypeCorrect, PTL DEF Spec

=============================================================================
