---------------------------- MODULE MutexClients -----------------------------
(***************************************************************************)
(* Tasks that use mutexes and the other system calls in any order, through *)
(* the wrappers of syscall.c.  EnterCritical of syscall.c repeats the      *)
(* system call while its result, read from the saved eax of the current    *)
(* task after the return to user mode, is 0; between the return and the    *)
(* read the task can be preempted.                                         *)
(*                                                                         *)
(* What programs do not do: exit a normal mutex they have not entered,      *)
(* destroy a normal mutex, and enter, create or destroy while they are in a *)
(* section: not the same mutex again (mutex.c lets the owner of a strict    *)
(* one in, but the first exit unlocks), nor a second one.                   *)
(***************************************************************************)
EXTENDS Mutex

CONSTANTS
    UsedType,       \* mutex types the programs create
    NoMutex         \* the value 0 a program has where it has no mutex

ASSUME ClientAssumption == UsedType \subseteq MutexType /\ NoMutex \notin MutexAddr

(* What a program may pass to the calls. *)
Handle == MutexAddr \cup {NoMutex}

VARIABLES
    phase,     \* "out": no section; "returned": result of Enter not read yet; "in"
    at,     \* the mutex of the section
    stray   \* history: the last Enter named no mutex of the list

clientVars == <<phase, at, stray>>

sysVars == <<schedVars, mutexVars, eax, clientVars>>

ClientInit ==
    /\ MutexInit
    /\ phase = [t \in Task |-> "out"]
    /\ at = [t \in Task |-> NoMutex]
    /\ stray = [t \in Task |-> FALSE]

Forget(t) ==
    /\ phase' = [phase EXCEPT ![t] = "out"]
    /\ at' = [at EXCEPT ![t] = NoMutex]
    /\ stray' = [stray EXCEPT ![t] = FALSE]

(* SysCall(Enter), at first and again after a result of 0. *)
CallEnter(m) ==
    /\ EnterCritical(m)
    /\ phase' = [phase EXCEPT ![current] = "returned"]
    /\ at' = [at EXCEPT ![current] = m]
    /\ stray' = [stray EXCEPT ![current] = m \notin valid]

Enter(m) == current # Idle /\ phase[current] = "out" /\ CallEnter(m)

Retry ==
    /\ current # Idle /\ phase[current] = "returned" /\ eax[current] = 0
    /\ CallEnter(at[current])

(* The result read is not 0: the section begins. *)
Granted ==
    /\ current # Idle /\ phase[current] = "returned" /\ eax[current] # 0
    /\ phase' = [phase EXCEPT ![current] = "in"]
    /\ UNCHANGED <<schedVars, mutexVars, eax, at, stray>>

(* ExitCritical: from the section, or of a strict mutex by anyone.  A task  *)
(* that exits a normal mutex it has not entered breaks the protocol of that *)
(* type, so programs here do not.                                           *)
Exit(m) ==
    /\ current # Idle
    /\ \/ phase[current] = "in" /\ at[current] = m
       \/ phase[current] = "out" /\ m \in valid /\ mtype[m] = "Strict"
    /\ ExitCritical(m)
    /\ Forget(current)

(* A task still in a section it entered without a lock would later unlock  *)
(* a normal mutex created at the same address, so no program has that.      *)
Create(m, type) ==
    /\ current # Idle /\ phase[current] = "out"
    /\ type = "Normal" => \A t \in Task : at[t] # m
    /\ CreateMutex(m, type)
    /\ UNCHANGED clientVars

(* For the same reason programs keep the normal mutexes they create. *)
Destroy(m) ==
    /\ current # Idle /\ phase[current] = "out"
    /\ m \in MutexAddr => mtype[m] = "Strict"
    /\ DestroyMutex(m)
    /\ UNCHANGED clientVars

Timer == SysTick /\ UNCHANGED clientVars

(* A task may end inside a section; it then never unlocks. *)
Die == current # Idle /\ phase[current] # "returned" /\ SysKill /\ Forget(current)

Sleep(ms) ==
    /\ current # Idle /\ phase[current] # "returned"
    /\ SysSleep(ms)
    /\ UNCHANGED clientVars

Wait(n) ==
    /\ current # Idle /\ phase[current] # "returned"
    /\ SysWait(n)
    /\ UNCHANGED clientVars

RegisterApp(n, p) ==
    /\ current # Idle /\ phase[current] # "returned"
    /\ SysRegister(n, p)
    /\ UNCHANGED clientVars

ClientNext ==
    \/ Timer \/ Retry \/ Granted \/ Die
    \/ \E m \in MutexAddr, type \in UsedType : Create(m, type)
    \/ \E m \in Handle : Enter(m) \/ Exit(m) \/ Destroy(m)
    \/ \E ms \in SleepMs : Sleep(ms)
    \/ \E n \in Name : Wait(n) \/ \E p \in Priority : RegisterApp(n, p)

ClientSpec == ClientInit /\ [][ClientNext]_sysVars

-----------------------------------------------------------------------------
(* A task in a section that began while the mutex existed owns the lock:    *)
(* the mutex is still there and its lock names the task until it exits.     *)
SectionIsLocked ==
    \A t \in Task : phase[t] = "in" /\ ~stray[t] => at[t] \in valid /\ lock[at[t]] = t

(* No lost wake-up: only a locked mutex that still exists has waiters. *)
WaitersOnlyIfLocked ==
    \A m \in MutexAddr : waitQ[m] # <<>> => m \in valid /\ lock[m] # Unlocked

(* A task that enters a strict mutex again never waits for itself, although *)
(* another task's system call may have overwritten the result of its Enter  *)
(* and made it repeat the call.  (The owner of a normal mutex can.)         *)
StrictOwnerNeverWaits ==
    \A m \in valid : mtype[m] = "Strict" => lock[m] \notin ToSet(waitQ[m])

(* The sections implement the lock of module Lock. *)
Sections == [m \in MutexAddr |-> {t \in Task : phase[t] = "in" /\ ~stray[t] /\ at[t] = m}]

AbstractLock == INSTANCE Lock WITH holders <- Sections

(* Entering and leaving a section are Acquire and Release of an abstract lock. *)
ImplementsLock == AbstractLock!Spec
=============================================================================
