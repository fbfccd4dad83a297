------------------------------ MODULE Scheduler ------------------------------
(***************************************************************************)
(* The task scheduler of the kernel (task.c with queue.c): the ready queue,*)
(* the bounded running queue that the timer rotates, the sleep list, the   *)
(* wait queues and the pool of all tasks.                                  *)
(*                                                                         *)
(* A task is the address of its TaskNode_t block, so an address is used    *)
(* again by a later task once its owner was killed.  The kernel never      *)
(* switches tasks while it serves a system call (the timer handler calls   *)
(* the scheduler for user-mode interrupts only), hence each handler is one *)
(* step; the steps of different tasks interleave at timer ticks.           *)
(***************************************************************************)
EXTENDS Queues

CONSTANTS
    Task,               \* blocks malloc may return for a TaskNode_t
    Idle,               \* pIdleTaskNode, in no queue and not in the pool
    WaitQueue,          \* every Queue_t a task can wait in; task.wait is named by its task
    Name,               \* names tasks are registered under
    InitName,           \* "InitInitTask"
    IdleName,           \* "IdleTask"
    NoName,             \* the name of a block that holds no task
    Priority,           \* priorities passed to RegisterApp
    InitPriority,       \* priority of the first task
    MAX_RUNNING_TASK,   \* 4u in the code
    MAX_RUNNING_TICK,   \* 255u + 5u in the code
    SleepMs,            \* arguments of Sleep
    jiffy               \* milliseconds per tick

ASSUME TaskAssumption == Idle \notin Task /\ Task \subseteq WaitQueue

ASSUME NameAssumption == InitName \in Name /\ NoName \notin Name

(* A priority is a uint8_t and MAX_RUNNING_TICK exceeds 255, so every task  *)
(* gets at least one tick.                                                  *)
ASSUME PriorityAssumption ==
    /\ MAX_RUNNING_TICK \in Nat
    /\ InitPriority \in Priority
    /\ \A p \in Priority : p \in Nat /\ p < MAX_RUNNING_TICK

ASSUME BoundAssumption ==
    /\ MAX_RUNNING_TASK \in Nat
    /\ jiffy \in Nat \ {0}
    /\ SleepMs \subseteq Nat

VARIABLES
    pool,       \* pTaskPool, the newest task first
    ready,      \* pReadyQueue
    running,    \* pRunningQueue
    sleeping,   \* pSleepList, the task that fell asleep last first
    waitQ,      \* the tasks in each wait queue
    name,       \* task.name
    total,      \* task.total: ticks per turn in the running queue
    slice,      \* task.current: ticks used of them
    ticks,      \* task.ticks: ticks left to sleep
    current     \* the owner of gCurrentTaskAddr

schedVars == <<pool, ready, running, sleeping, waitQ, name, total, slice,
               ticks, current>>

-----------------------------------------------------------------------------
(* Helpers.                                                                *)

Alive == ToSet(pool)

(* How many ready tasks the loop of ReadyToRunning moves: it goes on while  *)
(* Queue_Length(pRunningQueue) > MAX_RUNNING_TASK is false, so the queue    *)
(* ends with one task more than the macro says.                             *)
MovedOnce(rdy, run) == IF Len(run) > MAX_RUNNING_TASK \/ rdy = <<>> THEN 0 ELSE 1
Moved(rdy, run) ==
    LET room == IF Len(run) > MAX_RUNNING_TASK THEN 0
                ELSE MAX_RUNNING_TASK + 1 - Len(run)
    IN  IF Len(rdy) < room THEN Len(rdy) ELSE room

(* The ready tasks ReadyToRunning moves, and those it leaves behind. *)
Promoted(rdy, run) == SubSeq(rdy, 1, Moved(rdy, run))
LeftFromTail(rdy, run) == SubSeq(rdy, 1, Len(rdy) - Moved(rdy, run))
Left(rdy, run) == SubSeq(rdy, Moved(rdy, run) + 1, Len(rdy))

(* ReadyToRunning starts the turn of the tasks it moves. *)
KeepTurns(started, slc) == slc
StartTurns(started, slc) == [t \in Task |-> IF t \in started THEN 0 ELSE slc[t]]

(* The task to run: the front of the running queue, or the idle task. *)
TailTask(run) == IF run = <<>> THEN Idle ELSE Last(run)
FrontTask(run) == IF run = <<>> THEN Idle ELSE Head(run)

(* ScheduleNext, called with the ready queue, the running queue and the     *)
(* slices as its caller left them: fill the running queue, rotate it, and   *)
(* run its front.                                                           *)
ScheduleNext(rdy, run, slc) ==
    /\ ready'   = Left(rdy, run)
    /\ running' = Rotate(run \o Promoted(rdy, run))
    /\ slice'   = StartTurns(ToSet(Promoted(rdy, run)), slc)
    /\ current' = FrontTask(running')

(* FindTaskByName: the newest task of that name; the idle task's name is    *)
(* never looked up.                                                         *)
FindNobody(n) == {}
FindTaskByName(n) ==
    IF n = IdleName THEN {}
    ELSE {t \in Task : \E i \in DOMAIN pool :
            /\ pool[i] = t /\ name[t] = n
            /\ \A j \in 1 .. i - 1 : name[pool[j]] # n}

(* The sleepers whose --ticks reaches 0 at this tick. *)
WokenBelowZero == {t \in ToSet(sleeping) : ticks[t] = 0}
Woken == {t \in ToSet(sleeping) : ticks[t] = 1}

(* What the walk over the sleep list leaves in ticks. *)
TicksKept == ticks
TicksLeft == [t \in Task |-> IF t \in ToSet(sleeping) THEN ticks[t] - 1 ELSE ticks[t]]

(* RunningToReady: ++current == total. *)
TurnOverLate == current # Idle /\ running # <<>> /\ slice[current] = total[current]
TurnOver == current # Idle /\ running # <<>> /\ slice[current] + 1 = total[current]

(* The ready queue after RunningToReady. *)
RequeuedFirst(awake) == IF TurnOver THEN <<Head(running)>> \o awake ELSE awake
Requeued(awake) == IF TurnOver THEN Append(awake, Head(running)) ELSE awake

(* The tasks a death makes ready, and the wait queues it leaves. *)
NotWokenBy(victim) == <<>>
WokenBy(victim) == waitQ[victim]
WaitQCleared(victim) == [q \in WaitQueue |-> <<>>]
WaitQWithout(victim) == [waitQ EXCEPT ![victim] = <<>>]

-----------------------------------------------------------------------------
(* TaskModuleInit and LaunchTask: the first task runs, nothing else exists. *)
Init ==
    \E t \in Task :
        /\ pool = <<t>>
        /\ ready = <<>>
        /\ running = <<t>>
        /\ sleeping = <<>>
        /\ waitQ = [q \in WaitQueue |-> <<>>]
        /\ name = [u \in Task |-> IF u = t THEN InitName ELSE NoName]
        /\ total = [u \in Task |-> IF u = t THEN MAX_RUNNING_TICK - InitPriority ELSE 0]
        /\ slice = [u \in Task |-> 0]
        /\ ticks = [u \in Task |-> 0]
        /\ current = t

(* Schedule, called by the timer handler when the interrupt hit user mode:  *)
(* SleepToReady, then RunningToReady, then ScheduleNext.                    *)
Tick ==
    /\ sleeping' = SelectIn(sleeping, Task \ Woken)
    /\ ticks' = TicksLeft
    /\ ScheduleNext(
          Requeued(ready \o SelectIn(sleeping, Woken)),
          IF TurnOver THEN Tail(running) ELSE running,
          [t \in Task |-> IF t = current THEN slice[t] + 1 ELSE slice[t]])
    /\ UNCHANGED <<pool, waitQ, name, total>>

(* KillTask: the victim is the front of the running queue.  Its waiters     *)
(* become ready, it leaves the pool and its blocks are freed (a freed       *)
(* block's fields are reset here: nobody reads them before they are set).   *)
KillTask ==
    LET victim == Head(running)
    IN  /\ current # Idle /\ running # <<>>
        /\ pool' = SelectIn(pool, Task \ {victim})
        /\ waitQ' = WaitQWithout(victim)
        /\ name' = [name EXCEPT ![victim] = NoName]
        /\ total' = [total EXCEPT ![victim] = 0]
        /\ ScheduleNext(ready \o WokenBy(victim), Tail(running),
                        [slice EXCEPT ![victim] = 0])
        /\ UNCHANGED <<sleeping, ticks>>

(* CreateTaskToReady: a new block, at the head of the pool and at the tail  *)
(* of the ready queue; no task switch.  Bound: Task is finite, the step     *)
(* needs a free block.                                                      *)
Register(n, p) ==
    /\ current # Idle
    /\ \E t \in Task \ Alive :
        /\ pool' = <<t>> \o pool
        /\ ready' = Append(ready, t)
        /\ name' = [name EXCEPT ![t] = n]
        /\ total' = [total EXCEPT ![t] = MAX_RUNNING_TICK - p]
        /\ waitQ' = [waitQ EXCEPT ![t] = <<>>]
    /\ UNCHANGED <<running, sleeping, slice, ticks, current>>

(* WaitToReady for the queue of a mutex (KillTask does it for task.wait). *)
WaitToReady(q) ==
    /\ ready' = ready \o waitQ[q]
    /\ waitQ' = [waitQ EXCEPT ![q] = <<>>]
    /\ UNCHANGED <<pool, running, sleeping, name, total, slice, ticks, current>>

(* RunningToWait and the ScheduleNext that always follows it: the front of  *)
(* the running queue moves only if it is the current task.                  *)
Block(q) ==
    LET isFront == running # <<>> /\ Head(running) = current
    IN  /\ waitQ' = IF isFront THEN [waitQ EXCEPT ![q] = Append(@, current)] ELSE waitQ
        /\ ScheduleNext(ready, IF isFront THEN Tail(running) ELSE running, slice)
        /\ UNCHANGED <<pool, sleeping, name, total, ticks>>

(* WaitTask; an unknown name changes nothing. *)
WaitTask(n) ==
    /\ current # Idle
    /\ \E target \in FindTaskByName(n) : Block(target)

(* SleepTask and RunningToSleep: List_Add puts the task at the head. *)
SleepTask(ms) ==
    /\ current # Idle /\ running # <<>>
    /\ ticks' = [ticks EXCEPT ![current] = IF ms \div jiffy > 0 THEN ms \div jiffy ELSE 1]
    /\ sleeping' = <<Head(running)>> \o sleeping
    /\ ScheduleNext(ready, Tail(running), slice)
    /\ UNCHANGED <<pool, waitQ, name, total>>

Next ==
    \/ Tick
    \/ KillTask
    \/ \E n \in Name, p \in Priority : Register(n, p)
    \/ \E n \in Name : WaitTask(n)
    \/ \E ms \in SleepMs : SleepTask(ms)

Spec == Init /\ [][Next]_schedVars

(* The timer interrupts user mode again and again. *)
FairSpec == Spec /\ WF_schedVars(Tick)

-----------------------------------------------------------------------------
(* Type invariant: every variable of task.c holds a value of its type. *)
TypeOK ==
    /\ pool \in Seq(Task)
    /\ ready \in Seq(Task)
    /\ running \in Seq(Task)
    /\ sleeping \in Seq(Task)
    /\ waitQ \in [WaitQueue -> Seq(Task)]
    /\ name \in [Task -> Name \cup {NoName}]
    /\ total \in [Task -> Nat]
    /\ slice \in [Task -> Nat]
    /\ ticks \in [Task -> Nat]
    /\ current \in Task \cup {Idle}

(* The current task is the front of the running queue, and the idle task    *)
(* runs exactly when that queue is empty.  KillTask, RunningToReady and     *)
(* RunningToSleep remove the front although they mean the current task.     *)
CurrentIsFront == current = IF running = <<>> THEN Idle ELSE Head(running)

Waiting == UNION {ToSet(waitQ[q]) : q \in WaitQueue}

(* No queue holds a task twice. *)
NoDuplicates ==
    /\ IsInjective(pool) /\ IsInjective(ready)
    /\ IsInjective(running) /\ IsInjective(sleeping)
    /\ \A q \in WaitQueue : IsInjective(waitQ[q])

(* No task is in two of the queues. *)
Disjoint ==
    /\ ToSet(ready) \cap ToSet(running) = {}
    /\ ToSet(sleeping) \cap (ToSet(ready) \cup ToSet(running)) = {}
    /\ Waiting \cap (ToSet(ready) \cup ToSet(running) \cup ToSet(sleeping)) = {}
    /\ \A p, q \in WaitQueue : p # q => ToSet(waitQ[p]) \cap ToSet(waitQ[q]) = {}

(* Every task of the pool is linked into exactly one queue, once, and a     *)
(* freed TaskNode_t into none: the node has one link (head.qHead), so a     *)
(* second queue would corrupt the first.                                    *)
OnePlace ==
    /\ NoDuplicates
    /\ Disjoint
    /\ Alive = ToSet(ready) \cup ToSet(running) \cup ToSet(sleeping) \cup Waiting

(* Nobody waits in the queue of a task that is gone: KillTask frees that    *)
(* queue, and only the death of its owner would wake the waiter.            *)
NoOrphanWaiter == \A t \in Task \ Alive : waitQ[t] = <<>>

(* The two counters are compared for equality, so neither may pass its      *)
(* limit: a running task has ticks left in its turn and a sleeping task     *)
(* ticks left to sleep (else it would run 2^16 or sleep 2^32 ticks).        *)
CountersInRange ==
    /\ \A t \in ToSet(running) : slice[t] < total[t]
    /\ \A t \in ToSet(sleeping) : ticks[t] > 0

(* A task leaves the running queue for the ready queue only when it is the  *)
(* current task and has used up its turn.                                   *)
TurnIsUsedUp ==
    [][\A t \in ToSet(running) : t \in ToSet(ready') =>
            t = current /\ slice[t] + 1 = total[t]]_schedVars

(* Whenever the running queue changes, ready tasks are left behind only if  *)
(* it is full, which is at MAX_RUNNING_TASK + 1 tasks.                      *)
WorkConserving ==
    [][running' # running =>
            \/ ready' = <<>>
            \/ Len(running') = MAX_RUNNING_TASK + 1]_schedVars

(* No task overtakes another in the ready queue. *)
ReadyIsFIFO ==
    [][\A i, j \in DOMAIN ready : i < j /\ ready[j] \notin ToSet(ready')
            => ready[i] \notin ToSet(ready')]_schedVars

(* A task that waits for another leaves the queue only when that one dies.  *)
WaitEndsWithTarget ==
    [][\A t \in Task : ToSet(waitQ[t]) \ ToSet(waitQ'[t]) # {} => t \notin Alive']_schedVars

-----------------------------------------------------------------------------
(* Every sleeper is woken. *)
SleeperWakes == \A t \in Task : t \in ToSet(sleeping) ~> t \notin ToSet(sleeping)

Runnable(t) == t \in ToSet(ready) \cup ToSet(running)

(* Once no task blocks or dies any more, each runnable task gets the        *)
(* processor again and again.  The premise is needed: a task that blocks is *)
(* taken from the front, and ScheduleNext then rotates over the next one.   *)
RoundRobin ==
    <>[][ToSet(running) \subseteq ToSet(running') \cup ToSet(ready')]_schedVars
        => \A t \in Task : Runnable(t) ~> current = t
=============================================================================
