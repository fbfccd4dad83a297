--------------------------------- MODULE App ---------------------------------
(***************************************************************************)
(* The application the kernel starts (app.c): AMain registers a task that  *)
(* creates a strict mutex and waits for it, then registers the workers and *)
(* waits for them, then a task that destroys the mutex.  Each worker adds 1 *)
(* to the shared counter i, inside the mutex, a number of times.           *)
(*                                                                         *)
(* What a task runs follows from the name it is registered under.  It is   *)
(* one of the programs of MutexClients: each call is a step of that module *)
(* that this one takes in a certain order.                                 *)
(***************************************************************************)
EXTENDS MutexClients

CONSTANTS
    Creator, Destroyer, \* "create task", "destroy task"
    Workers,            \* the sequence "TaskA" .. "TaskD"
    Rounds,             \* 1000000u in the code
    AppMutex            \* the block CreateMutex returns

ASSUME AppAssumption ==
    /\ Workers \in Seq(Name) /\ {Creator, Destroyer} \subseteq Name
    /\ IsInjective(Workers \o <<InitName, Creator, Destroyer>>)
    /\ IdleName \notin ToSet(Workers) \cup {Creator, Destroyer}
    /\ Rounds \in Nat \ {0}
    /\ AppMutex \in MutexAddr

VARIABLES
    mutex,      \* the shared variable mutex, 0 at first
    i,          \* the shared variable i
    pc,         \* where each task is
    round,      \* j of a worker, and the number of calls AMain has made
    printed     \* AMain has printed i

appVars == <<mutex, i, pc, round, printed>>

vars == <<sysVars, appVars>>

(* The system calls of AMain, in order. *)
Call(op, n) == [op |-> op, name |-> n]

Script ==
    <<Call("register", Creator), Call("wait", Creator)>>
    \o [k \in DOMAIN Workers |-> Call("register", Workers[k])]
    \o [k \in DOMAIN Workers |-> Call("wait", Workers[k])]
    \o <<Call("register", Destroyer), Call("wait", Destroyer)>>

AppInit ==
    /\ ClientInit
    /\ mutex = NoMutex
    /\ i = 0
    /\ pc = [t \in Task |-> "entry"]
    /\ round = [t \in Task |-> 0]
    /\ printed = FALSE

Runs(n) == current # Idle /\ name[current] = n
Worker == current # Idle /\ name[current] \in ToSet(Workers)

At(label) == pc[current] = label
Goto(label) == pc' = [pc EXCEPT ![current] = label]

-----------------------------------------------------------------------------
(* AMain: RegisterApp and Wait as the script says (RegisterApp's malloc and *)
(* free of the AppInfo block leave no trace), then printf.                  *)
MainCall ==
    /\ Runs(InitName) /\ round[current] < Len(Script)
    /\ LET call == Script[round[current] + 1]
       IN  CASE call.op = "register" -> RegisterApp(call.name, InitPriority)
             [] call.op = "wait"     -> Wait(call.name)
    /\ round' = [round EXCEPT ![current] = @ + 1]
    /\ UNCHANGED <<mutex, i, pc, printed>>

MainPrint ==
    /\ Runs(InitName) /\ At("entry") /\ round[current] = Len(Script)
    /\ printed' = TRUE
    /\ Goto("end")
    /\ UNCHANGED <<sysVars, mutex, i, round>>

(* createTask: mutex = CreateMutex(Strict).  The result is read from the    *)
(* saved eax after the return to user mode. *)
CreatorCalls ==
    /\ Runs(Creator) /\ At("entry")
    /\ Create(AppMutex, "Strict")
    /\ Goto("returned")
    /\ UNCHANGED <<mutex, i, round, printed>>

CreatorStores ==
    /\ Runs(Creator) /\ At("returned")
    /\ mutex' = IF eax[current] = 0 THEN NoMutex ELSE eax[current]
    /\ Goto("end")
    /\ UNCHANGED <<sysVars, i, round, printed>>

(* destroyTask *)
DestroyerCalls ==
    /\ Runs(Destroyer) /\ At("entry")
    /\ Destroy(mutex)
    /\ Goto("end")
    /\ UNCHANGED <<mutex, i, round, printed>>

(* Task: EnterCritical, and again while the result is 0. *)
WorkerEnters ==
    /\ Worker /\ At("entry")
    /\ Enter(mutex)
    /\ Goto("returned")
    /\ UNCHANGED <<mutex, i, round, printed>>

WorkerRetries == Worker /\ At("returned") /\ Retry /\ UNCHANGED appVars

WorkerGranted ==
    /\ Worker /\ At("returned") /\ Granted
    /\ Goto("load")
    /\ UNCHANGED <<mutex, i, round, printed>>

(* i++ of a volatile: load into eax, then add and store. *)
WorkerLoads ==
    /\ Worker /\ At("load")
    /\ eax' = [eax EXCEPT ![current] = i]
    /\ Goto("store")
    /\ UNCHANGED <<schedVars, mutexVars, clientVars, mutex, i, round, printed>>

WorkerStores ==
    /\ Worker /\ At("store")
    /\ i' = eax[current] + 1
    /\ Goto("leave")
    /\ UNCHANGED <<sysVars, mutex, round, printed>>

(* ExitCritical and the test of the loop. *)
WorkerLeaves ==
    /\ Worker /\ At("leave")
    /\ Exit(mutex)
    /\ round' = [round EXCEPT ![current] = @ + 1]
    /\ Goto(IF round[current] + 1 = Rounds THEN "end" ELSE "entry")
    /\ UNCHANGED <<mutex, i, printed>>

(* TaskEntry: Exit after the task's function returned. *)
TaskExit ==
    /\ current # Idle /\ At("end")
    /\ Die
    /\ pc' = [pc EXCEPT ![current] = "entry"]
    /\ round' = [round EXCEPT ![current] = 0]
    /\ UNCHANGED <<mutex, i, printed>>

AppTimer == Timer /\ UNCHANGED appVars

Step ==
    \/ MainCall \/ MainPrint
    \/ CreatorCalls \/ CreatorStores \/ DestroyerCalls
    \/ WorkerEnters \/ WorkerRetries \/ WorkerGranted
    \/ WorkerLoads \/ WorkerStores \/ WorkerLeaves
    \/ TaskExit

AppNext == AppTimer \/ Step

(* The timer never stops, and a task that is given the processor again and  *)
(* again executes: a tick is 10 ms, thousands of instructions.              *)
AppSpec ==
    /\ AppInit /\ [][AppNext]_vars
    /\ WF_vars(AppTimer)
    /\ \A t \in Task : SF_vars(current = t /\ Step)

-----------------------------------------------------------------------------
WorkerTasks == {t \in Alive : name[t] \in ToSet(Workers)}

(* A worker that is about to leave its section owns the mutex, so           *)
(* MutexStrictExit kills no worker before it has done all its rounds.       *)
LeavesAsOwner ==
    \A t \in WorkerTasks : pc[t] = "leave" /\ mutex \in valid => lock[mutex] = t

(* The mutex exists as long as a worker may use it: destroyTask starts only *)
(* after AMain's waits for all workers are over.                            *)
MutexOutlivesWorkers ==
    mutex # NoMutex /\ WorkerTasks # {} => mutex \in valid

(* No worker's increment is lost while there is a mutex: what a worker has  *)
(* loaded of i is still what i holds when it stores, or it is the 0 with    *)
(* which another task's system call has overwritten the worker's eax.       *)
IncrementsCount ==
    \A t \in WorkerTasks : pc[t] = "store" /\ mutex # NoMutex => eax[t] \in {i, 0}

(* The application ends: every task runs to its end, nobody waits for ever  *)
(* for the mutex or for another task, and only the idle task is left.       *)
Terminates == <>(printed /\ pool = <<>> /\ current = Idle)

(* ihandler.asm, line 47: "save system call return value".  A system call   *)
(* saves its result for the task that called it, so no other task's saved   *)
(* eax changes.                                                             *)
ResultIsSavedForCaller ==
    [][\A t \in Task : eax'[t] # eax[t] => t = current]_vars
=============================================================================
