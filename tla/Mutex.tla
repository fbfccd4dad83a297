-------------------------------- MODULE Mutex --------------------------------
(***************************************************************************)
(* The mutex system calls (mutex.c) on top of the scheduler, and the return*)
(* path of every system call (SysCallHandlerEntry in ihandler.asm).        *)
(*                                                                         *)
(* A mutex is the address of its Mutex_t block; its wait queue is named by *)
(* that address.  Each handler runs for the current task and, like those   *)
(* of task.c, is one step.                                                 *)
(***************************************************************************)
EXTENDS Scheduler

CONSTANTS
    MutexAddr,      \* blocks malloc may return for a Mutex_t
    Unlocked        \* the value 0 of mutex.lock

ASSUME MutexAssumption ==
    /\ MutexAddr \subseteq WaitQueue \ Task
    /\ 0 \notin MutexAddr
    /\ Unlocked \notin Task

VARIABLES
    valid,      \* the mutexes in gMutexList
    lock,       \* mutex.lock: a task address or Unlocked
    mtype,      \* mutex.type
    eax         \* task.rv.eax: the result its next return to user mode delivers

mutexVars == <<valid, lock, mtype>>

MutexType == {"Normal", "Strict"}

(* After MutexModuleInit no mutex exists (gMutexList is null nevertheless;   *)
(* what that makes of the list is in Rings).  A register holds 0 where its  *)
(* value is read by nobody.                                                 *)
MutexInit ==
    /\ Init
    /\ valid = {}
    /\ lock = [m \in MutexAddr |-> Unlocked]
    /\ mtype = [m \in MutexAddr |-> "Normal"]
    /\ eax = [t \in Task |-> 0]

-----------------------------------------------------------------------------
(* SysCallHandlerEntry stores the handler's result in the frame that        *)
(* gCurrentTaskAddr names when the handler is done: the frame of the next   *)
(* task if the handler switched.                                            *)
Return(value) == eax' = [t \in Task |-> IF t = current' THEN value ELSE eax[t]]

(* Who may take the lock: anyone if it is free, and its owner again if the  *)
(* mutex is strict.                                                         *)
MayEnterStrict(m) == lock[m] = Unlocked \/ mtype[m] = "Strict"
MayEnterFree(m) == lock[m] = Unlocked
MayEnter(m) == lock[m] = Unlocked \/ (mtype[m] = "Strict" /\ lock[m] = current)

(* Sys_EnterCritical of an address that is not in the list reports success. *)
(* So does that of 0, a result that was overwritten: should the cell behind *)
(* the list at address 0 make 0 a mutex, its type, the word at address 4,   *)
(* is the next pointer of the list, neither Normal nor Strict.              *)
EnterInvalid(m) ==
    /\ m \notin valid
    /\ UNCHANGED <<schedVars, mutexVars>>
    /\ Return(1)

EnterTaken(m) ==
    /\ m \in valid /\ MayEnter(m)
    /\ lock' = [lock EXCEPT ![m] = current]
    /\ UNCHANGED <<schedVars, valid, mtype>>
    /\ Return(1)

(* MutexSchedule: the caller's result is 0, it waits, and RunTask leaves    *)
(* for the next task without the return path.                               *)
EnterBlocked(m) ==
    /\ m \in valid /\ ~MayEnter(m)
    /\ Block(m)
    /\ eax' = [eax EXCEPT ![current] = 0]
    /\ UNCHANGED mutexVars

EnterCritical(m) ==
    /\ current # Idle
    /\ EnterInvalid(m) \/ EnterTaken(m) \/ EnterBlocked(m)

(* MutexStrictExit lets only the owner pass to MutexNormalExit. *)
MayExitAlways(m) == TRUE
MayExit(m) == mtype[m] = "Normal" \/ lock[m] = current

(* WaitToReady(pMutex->queue): every waiter becomes ready and tries again. *)
WakeFirst(m) ==
    IF waitQ[m] = <<>> THEN WaitToReady(m)
    ELSE /\ ready' = Append(ready, Head(waitQ[m]))
         /\ waitQ' = [waitQ EXCEPT ![m] = Tail(@)]
         /\ UNCHANGED <<pool, running, sleeping, name, total, slice, ticks, current>>
WakeAll(m) == WaitToReady(m)

ExitInvalid(m) ==
    /\ m \notin valid
    /\ UNCHANGED <<schedVars, mutexVars>>
    /\ Return(0)

ExitUnlocked(m) ==
    /\ m \in valid /\ MayExit(m)
    /\ lock' = [lock EXCEPT ![m] = Unlocked]
    /\ IF lock[m] = Unlocked THEN UNCHANGED schedVars ELSE WakeAll(m)
    /\ UNCHANGED <<valid, mtype>>
    /\ Return(0)

(* MutexStrictExit by a task that does not own the lock kills that task. *)
ExitKilled(m) ==
    /\ m \in valid /\ ~MayExit(m)
    /\ KillTask
    /\ UNCHANGED <<mutexVars, eax>>

ExitCritical(m) ==
    /\ current # Idle
    /\ ExitInvalid(m) \/ ExitUnlocked(m) \/ ExitKilled(m)

(* Sys_CreateMutex returns the address of the block, which is not 0. *)
CreateMutex(m, type) ==
    /\ current # Idle
    /\ m \notin valid
    /\ valid' = valid \cup {m}
    /\ lock' = [lock EXCEPT ![m] = Unlocked]
    /\ mtype' = [mtype EXCEPT ![m] = type]
    /\ waitQ' = [waitQ EXCEPT ![m] = <<>>]
    /\ UNCHANGED <<pool, ready, running, sleeping, name, total, slice, ticks, current>>
    /\ Return(m)

(* Sys_DestroyMutex destroys a mutex that is free and has no waiters. *)
MayDestroyLocked(m) == m \in valid /\ waitQ[m] = <<>>
MayDestroy(m) == m \in valid /\ lock[m] = Unlocked /\ waitQ[m] = <<>>

DestroyMutex(m) ==
    /\ current # Idle
    /\ valid' = IF MayDestroy(m) THEN valid \ {m} ELSE valid
    /\ UNCHANGED <<schedVars, lock, mtype>>
    /\ Return(IF MayDestroy(m) THEN 1 ELSE 0)

-----------------------------------------------------------------------------
(* The system calls of task.c with their return path. *)
SysRegister(n, p) == Register(n, p) /\ Return(1) /\ UNCHANGED mutexVars
SysSleep(ms) == SleepTask(ms) /\ Return(0) /\ UNCHANGED mutexVars
SysKill == KillTask /\ Return(0) /\ UNCHANGED mutexVars

SysWait(n) ==
    /\ current # Idle
    /\ IF FindTaskByName(n) = {} THEN UNCHANGED schedVars ELSE WaitTask(n)
    /\ UNCHANGED mutexVars
    /\ Return(0)

(* The timer interrupt saves and restores every register of the task. *)
SysTick == Tick /\ UNCHANGED <<mutexVars, eax>>
=============================================================================
