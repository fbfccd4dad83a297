----------------------------- MODULE MutexProofs -----------------------------
(***************************************************************************)
(* Proofs about the mutexes and the tasks that use them, for any number of *)
(* tasks and of mutexes, and on top of the scheduler's invariant.          *)
(***************************************************************************)
EXTENDS App, SchedulerProofs

(* What a register holds: a number or an address. *)
Result == Nat \cup MutexAddr

(* Every variable of mutex.c and of the clients holds a value of its type. *)
ClientTypes ==
    /\ valid \subseteq MutexAddr
    /\ lock \in [MutexAddr -> Task \cup {Unlocked}]
    /\ mtype \in [MutexAddr -> MutexType]
    /\ eax \in [Task -> Result]
    /\ phase \in [Task -> {"out", "returned", "in"}]
    /\ at \in [Task -> Handle]
    /\ stray \in [Task -> BOOLEAN]

(* The task owns the mutex it named. *)
Held(t) == at[t] \in valid /\ lock[at[t]] = t

(* A result of Enter that still waits to be read, and is not 0, is true. *)
GrantIsHeld ==
    \A t \in Task : phase[t] = "returned" /\ eax[t] # 0 /\ ~stray[t] => Held(t)

(* A mutex created where a task entered no mutex of the list is strict. *)
StraysAreStrict ==
    \A t \in Task : stray[t] /\ at[t] \in valid => mtype[at[t]] = "Strict"

(* The inductive invariant.  SectionIsLocked needs GrantIsHeld, since the   *)
(* section begins when the result is read; that only the owner unlocks      *)
(* needs StraysAreStrict; and StrictOwnerNeverWaits needs the scheduler's   *)
(* OnePlace: a task that runs is in no wait queue.                          *)
MInv ==
    /\ IInv
    /\ ClientTypes
    /\ GrantIsHeld
    /\ StraysAreStrict
    /\ SectionIsLocked
    /\ WaitersOnlyIfLocked
    /\ StrictOwnerNeverWaits

-----------------------------------------------------------------------------
(* What programs pass and what they get. *)
LEMMA Values ==
    /\ {0, 1} \cup MutexAddr \subseteq Result
    /\ MutexAddr \subseteq Handle /\ NoMutex \in Handle /\ NoMutex \notin MutexAddr
BY ClientAssumption DEF Result, Handle

(* A mutex is no task, and its wait queue is one of the wait queues. *)
LEMMA MutexIsNoTask ==
    ASSUME NEW m \in MutexAddr
    PROVE  m \in WaitQueue /\ m \notin Task /\ m # 0
BY MutexAssumption

(* The calls of task.c and the timer leave the queues of the mutexes alone. *)
LEMMA ScheduleStep ==
    ASSUME IInv, [Next]_schedVars
    PROVE  IInv' /\ \A m \in MutexAddr : waitQ'[m] = waitQ[m]
<1>1. IInv'
  BY NextKeeps
<1>2. ASSUME NEW m \in MutexAddr  PROVE  waitQ'[m] = waitQ[m]
  <2>1. m \in WaitQueue /\ m \notin Task /\ waitQ \in [WaitQueue -> Seq(Task)]
    BY MutexIsNoTask DEF IInv, TypeOK
  <2>2. CASE Tick \/ \E ms \in SleepMs : SleepTask(ms)
    BY <2>2 DEF Tick, SleepTask
  <2>3. CASE KillTask
    <3>1. Head(running) \in Task
      BY <2>3, CurrentLeaves DEF KillTask
    <3> QED  BY <2>1, <2>3, <3>1 DEF KillTask, WaitQWithout
  <2>4. ASSUME NEW n \in Name, NEW p \in Priority, Register(n, p)
        PROVE  waitQ'[m] = waitQ[m]
    BY <2>1, <2>4 DEF Register
  <2>5. ASSUME NEW n \in Name, WaitTask(n)  PROVE  waitQ'[m] = waitQ[m]
    <3>1. PICK target \in FindTaskByName(n) : Block(target)
      BY <2>5 DEF WaitTask
    <3>2. target \in Task
      BY <3>1 DEF FindTaskByName
    <3> QED  BY <2>1, <3>1, <3>2 DEF Block
  <2>6. CASE UNCHANGED schedVars
    BY <2>6 DEF schedVars
  <2> QED  BY <2>2, <2>3, <2>4, <2>5, <2>6 DEF Next
<1> QED  BY <1>1, <1>2

(* The current task is not in the queue of any mutex. *)
LEMMA CurrentWaitsNowhere ==
    ASSUME IInv, current # Idle
    PROVE  /\ current \in Task /\ running # <<>> /\ Head(running) = current
           /\ \A m \in MutexAddr : current \notin ToSet(waitQ[m])
<1>1. running # <<>>
  BY DEF IInv, CurrentIsFront
<1>2. current = Head(running) /\ current \in Task /\ current \notin Waiting
  BY <1>1, CurrentLeaves
<1> QED  BY <1>1, <1>2, MutexIsNoTask DEF Waiting

(* WaitToReady for a mutex: the waiters move to the ready queue. *)
LEMMA WakeAllKeeps ==
    ASSUME IInv, NEW m \in MutexAddr, WaitToReady(m)
    PROVE  /\ IInv' /\ waitQ'[m] = <<>>
           /\ \A p \in MutexAddr \ {m} : waitQ'[p] = waitQ[p]
<1> DEFINE waiters == waitQ[m]
           rest == UNION {ToSet(waitQ[p]) : p \in WaitQueue \ {m}}
<1>1. TypeOK /\ CurrentIsFront /\ RunningBounded /\ OnePlace /\ NoOrphanWaiter
      /\ CountersInRange /\ TurnsPositive
  BY DEF IInv
<1>2. m \in WaitQueue /\ m \notin Task
  BY MutexIsNoTask
<1>3. /\ waiters \in Seq(Task) /\ IsInjective(waiters)
      /\ ToSet(waiters) \subseteq Waiting
  BY <1>1, <1>2 DEF TypeOK, OnePlace, NoDuplicates, Waiting
<1>4. /\ ready' = ready \o waiters
      /\ waitQ' = [waitQ EXCEPT ![m] = <<>>]
      /\ UNCHANGED <<pool, running, sleeping, name, total, slice, ticks, current>>
  BY DEF WaitToReady
<1>5. /\ waitQ' \in [WaitQueue -> Seq(Task)]
      /\ waitQ'[m] = <<>>
      /\ \A p \in WaitQueue \ {m} : waitQ'[p] = waitQ[p]
      /\ Waiting = Waiting' \cup ToSet(waiters)
      /\ Waiting' \cap ToSet(waiters) = {}
  <2>1. <<>> \in Seq(Task) /\ ToSet(<<>>) = {}
    BY EmptySet
  <2>2. /\ waitQ' \in [WaitQueue -> Seq(Task)]
        /\ waitQ'[m] = <<>>
        /\ \A p \in WaitQueue \ {m} : waitQ'[p] = waitQ[p]
        /\ Waiting' = ToSet(<<>>) \cup rest
        /\ Waiting = ToSet(waitQ[m]) \cup rest
    BY <1>1, <1>2, <1>4, <2>1, WaitingAfter
  <2>3. ASSUME NEW p \in WaitQueue \ {m}
        PROVE  ToSet(waitQ[p]) \cap ToSet(waiters) = {}
    BY <1>1, <1>2 DEF OnePlace, Disjoint
  <2>4. rest \cap ToSet(waiters) = {}
    BY <2>3
  <2> HIDE DEF rest
  <2> QED  BY <2>1, <2>2, <2>4
<1> HIDE DEF waiters
<1>6. /\ ready \in Seq(Task) /\ IsInjective(ready)
      /\ ToSet(ready) \cap ToSet(waiters) = {}
      /\ ToSet(ready) \cap ToSet(running) = {}
      /\ ToSet(running) \cap ToSet(waiters) = {}
      /\ ToSet(sleeping) \cap (ToSet(ready) \cup ToSet(waiters)) = {}
  BY <1>1, <1>3 DEF TypeOK, OnePlace, NoDuplicates, Disjoint
<1>7. /\ ready' \in Seq(Task) /\ ToSet(ready') = ToSet(ready) \cup ToSet(waiters)
      /\ IsInjective(ready')
  BY <1>3, <1>4, <1>6, ConcatSet, ConcatInjective
<1>8. TypeOK'
  BY <1>1, <1>4, <1>5, <1>7 DEF TypeOK
<1>9. OnePlace'
  <2>1. NoDuplicates'
    <3>1. \A p \in WaitQueue : IsInjective(waitQ'[p])
      BY <1>1, <1>5, EmptySet DEF OnePlace, NoDuplicates
    <3> QED  BY <1>1, <1>4, <1>7, <3>1 DEF OnePlace, NoDuplicates
  <2>2. Disjoint'
    <3>1. ToSet(ready') \cap ToSet(running') = {}
      BY <1>4, <1>6, <1>7
    <3>2. ToSet(sleeping') \cap (ToSet(ready') \cup ToSet(running')) = {}
      BY <1>1, <1>4, <1>6, <1>7 DEF OnePlace, Disjoint
    <3>3. Waiting' \cap (ToSet(ready') \cup ToSet(running') \cup ToSet(sleeping')) = {}
      BY <1>1, <1>4, <1>5, <1>7 DEF OnePlace, Disjoint
    <3>4. ASSUME NEW a \in WaitQueue, NEW b \in WaitQueue, a # b
          PROVE  ToSet(waitQ'[a]) \cap ToSet(waitQ'[b]) = {}
      <4>1. ToSet(waitQ[a]) \cap ToSet(waitQ[b]) = {}
        BY <1>1, <3>4 DEF OnePlace, Disjoint
      <4>2. CASE a = m \/ b = m
        BY <1>5, <4>2, EmptySet
      <4>3. CASE a # m /\ b # m
        BY <1>5, <4>1, <4>3
      <4> QED  BY <4>2, <4>3
    <3> QED  BY <3>1, <3>2, <3>3, <3>4 DEF Disjoint
  <2>3. Alive' = ToSet(ready') \cup ToSet(running') \cup ToSet(sleeping') \cup Waiting'
    BY <1>1, <1>4, <1>5, <1>7 DEF OnePlace, Alive
  <2> QED  BY <2>1, <2>2, <2>3 DEF OnePlace
<1>10. NoOrphanWaiter'
  <2>1. \A t \in Task : waitQ'[t] = waitQ[t]
    BY <1>2, <1>5, TaskAssumption
  <2> QED  BY <1>1, <1>4, <2>1 DEF NoOrphanWaiter, Alive
<1>11. CurrentIsFront' /\ RunningBounded' /\ CountersInRange' /\ TurnsPositive'
  BY <1>1, <1>4 DEF CurrentIsFront, RunningBounded, CountersInRange, TurnsPositive, Alive
<1>12. \A p \in MutexAddr \ {m} : p \in WaitQueue \ {m}
  BY MutexIsNoTask
<1> QED  BY <1>5, <1>8, <1>9, <1>10, <1>11, <1>12 DEF IInv

-----------------------------------------------------------------------------
(* The return path of a system call changes the result of one task. *)
LEMMA ReturnChangesOne ==
    ASSUME ClientTypes, NEW v \in Result, Return(v)
    PROVE  /\ eax' \in [Task -> Result]
           /\ \A t \in Task : eax'[t] = IF t = current' THEN v ELSE eax[t]
BY DEF ClientTypes, Return

(* A call or an exit changes what the client remembers of the current task. *)
LEMMA ClientChangesOne ==
    ASSUME ClientTypes, current \in Task,
           NEW p \in {"out", "returned", "in"}, NEW a \in Handle,
           NEW s \in BOOLEAN,
           phase' = [phase EXCEPT ![current] = p],
           at' = [at EXCEPT ![current] = a],
           stray' = [stray EXCEPT ![current] = s]
    PROVE  /\ phase' \in [Task -> {"out", "returned", "in"}]
           /\ at' \in [Task -> Handle]
           /\ stray' \in [Task -> BOOLEAN]
           /\ phase'[current] = p /\ at'[current] = a /\ stray'[current] = s
           /\ \A t \in Task \ {current} :
                phase'[t] = phase[t] /\ at'[t] = at[t] /\ stray'[t] = stray[t]
BY DEF ClientTypes

(* A step that changes no mutex and no wait queue of one keeps the          *)
(* invariant if each task keeps its place and no result of Enter becomes    *)
(* true, or the task is out of its section, or it named no mutex.           *)
LEMMA QuietKeeps ==
    ASSUME MInv, IInv', ClientTypes',
           \A m \in MutexAddr : waitQ'[m] = waitQ[m],
           UNCHANGED mutexVars,
           \A t \in Task :
               \/ /\ phase'[t] = phase[t] /\ at'[t] = at[t] /\ stray'[t] = stray[t]
                  /\ phase[t] = "returned" /\ eax'[t] # 0 => eax[t] # 0
               \/ phase'[t] = "out" /\ stray'[t] = FALSE
               \/ stray'[t] = TRUE /\ at'[t] \notin valid
    PROVE  MInv'
<1>1. valid' = valid /\ lock' = lock /\ mtype' = mtype
  BY DEF mutexVars
<1>2. GrantIsHeld' /\ SectionIsLocked'
  BY <1>1 DEF MInv, GrantIsHeld, SectionIsLocked, Held
<1>3. StraysAreStrict'
  BY <1>1 DEF MInv, StraysAreStrict
<1>4. WaitersOnlyIfLocked' /\ StrictOwnerNeverWaits'
  BY <1>1 DEF MInv, ClientTypes, WaitersOnlyIfLocked, StrictOwnerNeverWaits
<1> QED  BY <1>2, <1>3, <1>4 DEF MInv

(* The first state. *)
LEMMA ClientInitEstablishes == ClientInit => MInv
<1> SUFFICES ASSUME ClientInit  PROVE  MInv
  OBVIOUS
<1>1. Init /\ IInv
  BY InitEstablishes DEF ClientInit, MutexInit
<1>2. /\ valid = {} /\ lock = [m \in MutexAddr |-> Unlocked]
      /\ mtype = [m \in MutexAddr |-> "Normal"] /\ eax = [t \in Task |-> 0]
      /\ phase = [t \in Task |-> "out"] /\ at = [t \in Task |-> NoMutex]
      /\ stray = [t \in Task |-> FALSE]
  BY DEF ClientInit, MutexInit
<1>3. ClientTypes
  BY <1>2, Values DEF ClientTypes, MutexType
<1>4. \A m \in MutexAddr : waitQ[m] = <<>>
  BY <1>1, MutexIsNoTask DEF Init
<1>5. GrantIsHeld /\ StraysAreStrict /\ SectionIsLocked
  BY <1>2 DEF GrantIsHeld, StraysAreStrict, SectionIsLocked
<1>6. WaitersOnlyIfLocked /\ StrictOwnerNeverWaits
  BY <1>2, <1>4 DEF WaitersOnlyIfLocked, StrictOwnerNeverWaits
<1> QED  BY <1>1, <1>3, <1>5, <1>6 DEF MInv

(* EnterCritical of syscall.c, whichever way the handler goes. *)
LEMMA CallEnterKeeps ==
    ASSUME MInv, NEW m \in Handle, CallEnter(m)
    PROVE  MInv'
<1>1. /\ IInv /\ ClientTypes /\ GrantIsHeld /\ StraysAreStrict
      /\ SectionIsLocked /\ WaitersOnlyIfLocked /\ StrictOwnerNeverWaits
  BY DEF MInv
<1>2. /\ current # Idle /\ current \in Task
      /\ running # <<>> /\ Head(running) = current
      /\ \A q \in MutexAddr : current \notin ToSet(waitQ[q])
  BY <1>1, CurrentWaitsNowhere DEF CallEnter, EnterCritical
<1>3. /\ phase' \in [Task -> {"out", "returned", "in"}]
      /\ at' \in [Task -> Handle]
      /\ stray' \in [Task -> BOOLEAN]
      /\ phase'[current] = "returned" /\ at'[current] = m
      /\ stray'[current] = (m \notin valid)
      /\ \A t \in Task \ {current} :
           phase'[t] = phase[t] /\ at'[t] = at[t] /\ stray'[t] = stray[t]
  BY <1>1, <1>2, ClientChangesOne DEF CallEnter
<1>4. CASE EnterInvalid(m)
  <2>1. m \notin valid /\ UNCHANGED schedVars /\ UNCHANGED mutexVars /\ Return(1)
    BY <1>4 DEF EnterInvalid
  <2>2. IInv' /\ \A q \in MutexAddr : waitQ'[q] = waitQ[q]
    BY <1>1, <2>1, ScheduleStep
  <2>3. /\ eax' \in [Task -> Result]
        /\ \A t \in Task \ {current} : eax'[t] = eax[t]
    <3>1. current' = current
      BY <2>1 DEF schedVars
    <3> QED  BY <1>1, <2>1, <3>1, Values, ReturnChangesOne
  <2>4. ClientTypes'
    BY <1>1, <1>3, <2>1, <2>3 DEF ClientTypes, mutexVars
  <2>5. ASSUME NEW t \in Task
        PROVE  \/ /\ phase'[t] = phase[t] /\ at'[t] = at[t] /\ stray'[t] = stray[t]
                  /\ phase[t] = "returned" /\ eax'[t] # 0 => eax[t] # 0
               \/ phase'[t] = "out" /\ stray'[t] = FALSE
               \/ stray'[t] = TRUE /\ at'[t] \notin valid
    <3>1. CASE t = current
      BY <1>3, <2>1, <3>1
    <3>2. CASE t # current
      BY <1>3, <2>3, <3>2
    <3> QED  BY <3>1, <3>2
  <2> QED  BY <2>1, <2>2, <2>4, <2>5, QuietKeeps
<1>5. CASE EnterTaken(m)
  <2>1. /\ m \in valid /\ MayEnter(m) /\ lock' = [lock EXCEPT ![m] = current]
        /\ UNCHANGED schedVars /\ valid' = valid /\ mtype' = mtype /\ Return(1)
        /\ m \in MutexAddr
    BY <1>1, <1>5 DEF EnterTaken, ClientTypes
  <2>2. IInv' /\ \A q \in MutexAddr : waitQ'[q] = waitQ[q]
    BY <1>1, <2>1, ScheduleStep
  <2>3. /\ eax' \in [Task -> Result]
        /\ \A t \in Task \ {current} : eax'[t] = eax[t]
    <3>1. current' = current
      BY <2>1 DEF schedVars
    <3> QED  BY <1>1, <2>1, <3>1, Values, ReturnChangesOne
  <2>4. /\ lock' \in [MutexAddr -> Task \cup {Unlocked}]
        /\ lock'[m] = current /\ \A q \in MutexAddr \ {m} : lock'[q] = lock[q]
    BY <1>1, <1>2, <2>1 DEF ClientTypes
  <2>5. ClientTypes'
    BY <1>1, <1>3, <2>1, <2>3, <2>4 DEF ClientTypes
  <2>6. lock[m] = Unlocked \/ lock[m] = current
    BY <2>1 DEF MayEnter
  <2>7. ASSUME NEW t \in Task \ {current}, Held(t)  PROVE  Held(t)'
    <3>1. lock[at[t]] = t /\ at[t] \in valid /\ at[t] \in MutexAddr
      BY <1>1, <2>7 DEF Held, ClientTypes
    <3>2. at[t] # m
      BY <2>6, <3>1, MutexAssumption
    <3> QED  BY <1>3, <2>1, <2>4, <3>1, <3>2 DEF Held
  <2>8. GrantIsHeld' /\ SectionIsLocked'
    <3>1. ASSUME NEW t \in Task, phase'[t] \in {"returned", "in"}, ~stray'[t],
                 phase'[t] = "returned" => eax'[t] # 0
          PROVE  Held(t)'
      <4>1. CASE t = current
        <5>1. lock'[at'[t]] = t /\ at'[t] \in valid'
          BY <1>3, <2>1, <2>4, <4>1
        <5> QED  BY <5>1 DEF Held
      <4>2. CASE t # current
        <5>1. Held(t)
          BY <1>1, <1>3, <2>3, <3>1, <4>2 DEF GrantIsHeld, SectionIsLocked, Held
        <5> QED  BY <2>7, <4>2, <5>1
      <4> QED  BY <4>1, <4>2
    <3> QED  BY <3>1 DEF GrantIsHeld, SectionIsLocked, Held
  <2>9. StraysAreStrict'
    BY <1>1, <1>3, <2>1 DEF StraysAreStrict
  <2>10. WaitersOnlyIfLocked'
    BY <1>1, <1>2, <2>1, <2>2, <2>4, MutexAssumption DEF WaitersOnlyIfLocked
  <2>11. StrictOwnerNeverWaits'
    BY <1>1, <1>2, <2>1, <2>2, <2>4 DEF StrictOwnerNeverWaits, ClientTypes
  <2> QED  BY <2>2, <2>5, <2>8, <2>9, <2>10, <2>11 DEF MInv
<1>6. CASE EnterBlocked(m)
  <2>1. /\ m \in valid /\ ~MayEnter(m) /\ Block(m)
        /\ eax' = [eax EXCEPT ![current] = 0]
        /\ valid' = valid /\ lock' = lock /\ mtype' = mtype
        /\ m \in MutexAddr
    BY <1>1, <1>6 DEF EnterBlocked, mutexVars, ClientTypes
  <2>2. IInv'
    BY <1>1, <1>2, <2>1, BlockKeeps, MutexIsNoTask
  <2>3. /\ waitQ[m] \in Seq(Task) /\ waitQ'[m] = Append(waitQ[m], current)
        /\ \A q \in MutexAddr \ {m} : waitQ'[q] = waitQ[q]
    BY <1>1, <1>2, <2>1, MutexIsNoTask DEF Block, IInv, TypeOK
  <2>4. ToSet(waitQ'[m]) = ToSet(waitQ[m]) \cup {current}
    BY <1>2, <2>3, AppendSet
  <2>5. /\ eax' \in [Task -> Result] /\ eax'[current] = 0
        /\ \A t \in Task \ {current} : eax'[t] = eax[t]
    BY <1>1, <1>2, <2>1, Values DEF ClientTypes
  <2>6. ClientTypes'
    BY <1>1, <1>3, <2>1, <2>5 DEF ClientTypes
  <2>7. GrantIsHeld' /\ SectionIsLocked' /\ StraysAreStrict'
    BY <1>1, <1>3, <2>1, <2>5
    DEF GrantIsHeld, SectionIsLocked, StraysAreStrict, Held
  <2>8. WaitersOnlyIfLocked'
    BY <1>1, <2>1, <2>3 DEF WaitersOnlyIfLocked, MayEnter
  <2>9. StrictOwnerNeverWaits'
    BY <1>1, <2>1, <2>3, <2>4 DEF StrictOwnerNeverWaits, ClientTypes, MayEnter
  <2> QED  BY <2>2, <2>6, <2>7, <2>8, <2>9 DEF MInv
<1> QED  BY <1>4, <1>5, <1>6 DEF CallEnter, EnterCritical

(* The result is read: the section begins. *)
LEMMA GrantedKeeps ==
    ASSUME MInv, Granted
    PROVE  MInv'
<1>1. /\ IInv /\ ClientTypes /\ GrantIsHeld /\ StraysAreStrict
      /\ SectionIsLocked /\ WaitersOnlyIfLocked /\ StrictOwnerNeverWaits
  BY DEF MInv
<1>2. /\ current \in Task /\ phase[current] = "returned" /\ eax[current] # 0
      /\ phase' = [phase EXCEPT ![current] = "in"]
      /\ UNCHANGED schedVars /\ UNCHANGED <<valid, lock, mtype, eax, at, stray>>
  BY <1>1, CurrentWaitsNowhere DEF Granted, mutexVars
<1>3. IInv' /\ \A q \in MutexAddr : waitQ'[q] = waitQ[q]
  BY <1>1, <1>2, ScheduleStep
<1>4. /\ phase' \in [Task -> {"out", "returned", "in"}] /\ phase'[current] = "in"
      /\ \A t \in Task \ {current} : phase'[t] = phase[t]
  BY <1>1, <1>2 DEF ClientTypes
<1>5. ClientTypes'
  BY <1>1, <1>2, <1>4 DEF ClientTypes
<1>6. GrantIsHeld' /\ SectionIsLocked' /\ StraysAreStrict'
  BY <1>1, <1>2, <1>4 DEF GrantIsHeld, SectionIsLocked, StraysAreStrict, Held
<1>7. WaitersOnlyIfLocked' /\ StrictOwnerNeverWaits'
  BY <1>1, <1>2, <1>3 DEF WaitersOnlyIfLocked, StrictOwnerNeverWaits, ClientTypes
<1> QED  BY <1>3, <1>5, <1>6, <1>7 DEF MInv

(* What Forget leaves. *)
LEMMA ForgetChangesOne ==
    ASSUME ClientTypes, current \in Task, Forget(current)
    PROVE  /\ phase' \in [Task -> {"out", "returned", "in"}]
           /\ at' \in [Task -> Handle]
           /\ stray' \in [Task -> BOOLEAN]
           /\ phase'[current] = "out" /\ stray'[current] = FALSE
           /\ \A t \in Task \ {current} :
                phase'[t] = phase[t] /\ at'[t] = at[t] /\ stray'[t] = stray[t]
BY Values, ClientChangesOne DEF Forget

(* ExitCritical of syscall.c.  Whoever unlocks a mutex owns it. *)
LEMMA ExitKeeps ==
    ASSUME MInv, NEW m \in Handle, Exit(m)
    PROVE  MInv'
<1>1. /\ IInv /\ ClientTypes /\ GrantIsHeld /\ StraysAreStrict
      /\ SectionIsLocked /\ WaitersOnlyIfLocked /\ StrictOwnerNeverWaits
  BY DEF MInv
<1>2. /\ current \in Task /\ Forget(current)
      /\ \/ phase[current] = "in" /\ at[current] = m
         \/ phase[current] = "out" /\ m \in valid /\ mtype[m] = "Strict"
  BY <1>1, CurrentWaitsNowhere DEF Exit
<1>3. /\ phase' \in [Task -> {"out", "returned", "in"}]
      /\ at' \in [Task -> Handle]
      /\ stray' \in [Task -> BOOLEAN]
      /\ phase'[current] = "out" /\ stray'[current] = FALSE
      /\ \A t \in Task \ {current} :
           phase'[t] = phase[t] /\ at'[t] = at[t] /\ stray'[t] = stray[t]
  BY <1>1, <1>2, ForgetChangesOne
<1>4. CASE ExitInvalid(m)
  <2>1. UNCHANGED schedVars /\ UNCHANGED mutexVars /\ Return(0)
    BY <1>4 DEF ExitInvalid
  <2>2. IInv' /\ \A q \in MutexAddr : waitQ'[q] = waitQ[q]
    BY <1>1, <2>1, ScheduleStep
  <2>3. /\ eax' \in [Task -> Result]
        /\ \A t \in Task : eax'[t] = IF t = current' THEN 0 ELSE eax[t]
    BY <1>1, <2>1, Values, ReturnChangesOne
  <2>4. ClientTypes'
    BY <1>1, <1>3, <2>1, <2>3 DEF ClientTypes, mutexVars
  <2> QED  BY <1>3, <2>1, <2>2, <2>3, <2>4, QuietKeeps
<1>5. CASE ExitKilled(m)
  <2>1. KillTask /\ UNCHANGED mutexVars /\ eax' = eax
    BY <1>5 DEF ExitKilled
  <2>2. IInv' /\ \A q \in MutexAddr : waitQ'[q] = waitQ[q]
    BY <1>1, <2>1, ScheduleStep DEF Next
  <2>3. ClientTypes'
    BY <1>1, <1>3, <2>1 DEF ClientTypes, mutexVars
  <2> QED  BY <1>3, <2>1, <2>2, <2>3, QuietKeeps
<1>6. CASE ExitUnlocked(m)
  <2>1. /\ m \in valid /\ MayExit(m)
        /\ lock' = [lock EXCEPT ![m] = Unlocked]
        /\ IF lock[m] = Unlocked THEN UNCHANGED schedVars ELSE WaitToReady(m)
        /\ valid' = valid /\ mtype' = mtype /\ Return(0)
        /\ m \in MutexAddr
    BY <1>1, <1>6 DEF ExitUnlocked, WakeAll, ClientTypes
  <2>2. lock[m] = current
    <3>1. CASE mtype[m] = "Normal"
      <4>1. phase[current] = "in" /\ at[current] = m
        BY <1>2, <3>1
      <4>2. ~stray[current]
        BY <1>1, <1>2, <2>1, <3>1, <4>1 DEF StraysAreStrict, ClientTypes
      <4> QED  BY <1>1, <1>2, <4>1, <4>2 DEF SectionIsLocked
    <3>2. CASE mtype[m] # "Normal"
      BY <2>1, <3>2 DEF MayExit
    <3> QED  BY <3>1, <3>2
  <2>3. WaitToReady(m)
    BY <1>2, <2>1, <2>2, MutexAssumption
  <2>4. /\ IInv' /\ waitQ'[m] = <<>>
        /\ \A q \in MutexAddr \ {m} : waitQ'[q] = waitQ[q]
    BY <1>1, <2>1, <2>3, WakeAllKeeps
  <2>5. /\ eax' \in [Task -> Result]
        /\ \A t \in Task : eax'[t] = IF t = current' THEN 0 ELSE eax[t]
    BY <1>1, <2>1, Values, ReturnChangesOne
  <2>6. /\ lock' \in [MutexAddr -> Task \cup {Unlocked}]
        /\ lock'[m] = Unlocked /\ \A q \in MutexAddr \ {m} : lock'[q] = lock[q]
    BY <1>1, <2>1 DEF ClientTypes
  <2>7. ClientTypes'
    BY <1>1, <1>3, <2>1, <2>5, <2>6 DEF ClientTypes
  <2>8. ASSUME NEW t \in Task \ {current}, Held(t)  PROVE  Held(t)'
    <3>1. lock[at[t]] = t /\ at[t] \in valid /\ at[t] \in MutexAddr /\ at[t] # m
      BY <1>1, <2>2, <2>8 DEF Held, ClientTypes
    <3> QED  BY <1>3, <2>1, <2>6, <3>1 DEF Held
  <2>9. GrantIsHeld' /\ SectionIsLocked'
    <3>1. ASSUME NEW t \in Task, phase'[t] \in {"returned", "in"}, ~stray'[t],
                 phase'[t] = "returned" => eax'[t] # 0
          PROVE  Held(t)'
      <4>1. t # current
        BY <1>3, <3>1
      <4>2. Held(t)
        BY <1>1, <1>3, <2>5, <3>1, <4>1 DEF GrantIsHeld, SectionIsLocked, Held
      <4> QED  BY <2>8, <4>1, <4>2
    <3> QED  BY <3>1 DEF GrantIsHeld, SectionIsLocked, Held
  <2>10. StraysAreStrict'
    BY <1>1, <1>3, <2>1 DEF StraysAreStrict
  <2>11. WaitersOnlyIfLocked'
    BY <1>1, <2>1, <2>4, <2>6 DEF WaitersOnlyIfLocked
  <2>12. StrictOwnerNeverWaits'
    BY <1>1, <2>1, <2>4, <2>6, EmptySet DEF StrictOwnerNeverWaits, ClientTypes
  <2> QED  BY <2>4, <2>7, <2>9, <2>10, <2>11, <2>12 DEF MInv
<1> QED  BY <1>4, <1>5, <1>6 DEF Exit, ExitCritical

(* CreateMutex: a block in no list has no owner, no waiters and no section *)
(* that counts on it.                                                      *)
LEMMA CreateKeeps ==
    ASSUME MInv, NEW m \in MutexAddr, NEW type \in MutexType, Create(m, type)
    PROVE  MInv'
<1>1. /\ IInv /\ ClientTypes /\ GrantIsHeld /\ StraysAreStrict
      /\ SectionIsLocked /\ WaitersOnlyIfLocked /\ StrictOwnerNeverWaits
  BY DEF MInv
<1>2. /\ type = "Normal" => \A t \in Task : at[t] # m
      /\ CreateMutex(m, type)
  BY DEF Create
<1>3. /\ current \in Task /\ phase[current] = "out"
      /\ phase' = phase /\ at' = at /\ stray' = stray
  BY <1>1, CurrentWaitsNowhere DEF Create, clientVars
<1>4. /\ m \notin valid /\ valid' = valid \cup {m}
      /\ lock' = [lock EXCEPT ![m] = Unlocked]
      /\ mtype' = [mtype EXCEPT ![m] = type]
      /\ waitQ' = [waitQ EXCEPT ![m] = <<>>]
      /\ UNCHANGED <<pool, ready, running, sleeping, name, total, slice, ticks, current>>
      /\ Return(m)
  BY <1>2 DEF CreateMutex
<1>5. waitQ[m] = <<>> /\ waitQ' = waitQ
  <2>1. waitQ[m] = <<>>
    BY <1>1, <1>4 DEF WaitersOnlyIfLocked
  <2>2. m \in WaitQueue /\ waitQ \in [WaitQueue -> Seq(Task)]
    BY <1>1, MutexIsNoTask DEF IInv, TypeOK
  <2> QED  BY <1>4, <2>1, <2>2
<1>6. IInv' /\ \A q \in MutexAddr : waitQ'[q] = waitQ[q]
  <2>1. UNCHANGED schedVars
    BY <1>4, <1>5 DEF schedVars
  <2> QED  BY <1>1, <2>1, ScheduleStep
<1>7. /\ eax' \in [Task -> Result]
      /\ \A t \in Task \ {current} : eax'[t] = eax[t]
  BY <1>1, <1>4, Values, ReturnChangesOne
<1>8. type \in MutexType /\ (type = "Normal" \/ type = "Strict")
  BY DEF MutexType
<1>9. /\ lock' \in [MutexAddr -> Task \cup {Unlocked}]
      /\ mtype' \in [MutexAddr -> MutexType]
      /\ lock'[m] = Unlocked /\ mtype'[m] = type
      /\ \A q \in MutexAddr \ {m} : lock'[q] = lock[q] /\ mtype'[q] = mtype[q]
  BY <1>1, <1>4, <1>8 DEF ClientTypes
<1>10. ClientTypes'
  BY <1>1, <1>3, <1>4, <1>7, <1>9 DEF ClientTypes
<1>11. ASSUME NEW t \in Task, Held(t)  PROVE  Held(t)'
  <2>1. at[t] \in valid /\ at[t] \in MutexAddr \ {m} /\ lock[at[t]] = t
    BY <1>1, <1>4, <1>11 DEF Held, ClientTypes
  <2> QED  BY <1>3, <1>4, <1>9, <2>1 DEF Held
<1>12. GrantIsHeld' /\ SectionIsLocked'
  <2>1. ASSUME NEW t \in Task, phase'[t] \in {"returned", "in"}, ~stray'[t],
               phase'[t] = "returned" => eax'[t] # 0
        PROVE  Held(t)'
    <3>1. t # current
      BY <1>3, <2>1
    <3>2. Held(t)
      BY <1>1, <1>3, <1>7, <2>1, <3>1 DEF GrantIsHeld, SectionIsLocked, Held
    <3> QED  BY <1>11, <3>2
  <2> QED  BY <2>1 DEF GrantIsHeld, SectionIsLocked, Held
<1>13. StraysAreStrict'
  <2>1. ASSUME NEW t \in Task, stray[t], at[t] \in valid \cup {m}
        PROVE  mtype'[at[t]] = "Strict"
    <3>1. CASE at[t] = m
      BY <1>2, <1>8, <1>9, <3>1
    <3>2. CASE at[t] # m
      BY <1>1, <1>9, <2>1, <3>2 DEF StraysAreStrict, ClientTypes
    <3> QED  BY <3>1, <3>2
  <2> QED  BY <1>3, <1>4, <2>1 DEF StraysAreStrict
<1>14. WaitersOnlyIfLocked'
  BY <1>1, <1>4, <1>5, <1>9 DEF WaitersOnlyIfLocked
<1>15. StrictOwnerNeverWaits'
  BY <1>1, <1>4, <1>5, <1>9, EmptySet DEF StrictOwnerNeverWaits, ClientTypes
<1> QED  BY <1>6, <1>10, <1>12, <1>13, <1>14, <1>15 DEF MInv

(* DestroyMutex removes only a mutex that nobody owns. *)
LEMMA DestroyKeeps ==
    ASSUME MInv, NEW m \in Handle, Destroy(m)
    PROVE  MInv'
<1>1. /\ IInv /\ ClientTypes /\ GrantIsHeld /\ StraysAreStrict
      /\ SectionIsLocked /\ WaitersOnlyIfLocked /\ StrictOwnerNeverWaits
  BY DEF MInv
<1> DEFINE result == IF MayDestroy(m) THEN 1 ELSE 0
<1>2. /\ current \in Task /\ phase[current] = "out"
      /\ phase' = phase /\ at' = at /\ stray' = stray
      /\ valid' = (IF MayDestroy(m) THEN valid \ {m} ELSE valid)
      /\ UNCHANGED schedVars /\ lock' = lock /\ mtype' = mtype /\ Return(result)
  BY <1>1, CurrentWaitsNowhere DEF Destroy, DestroyMutex, clientVars
<1>3. IInv' /\ \A q \in MutexAddr : waitQ'[q] = waitQ[q]
  BY <1>1, <1>2, ScheduleStep
<1>4. /\ eax' \in [Task -> Result]
      /\ \A t \in Task \ {current} : eax'[t] = eax[t]
  <2>1. current' = current /\ result \in Result
    BY <1>2, Values DEF schedVars
  <2> HIDE DEF result
  <2> QED  BY <1>1, <1>2, <2>1, Values, ReturnChangesOne
<1>5. /\ valid' \subseteq valid
      /\ \A q \in valid : q \notin valid' =>
            q \in MutexAddr /\ lock[q] = Unlocked /\ waitQ[q] = <<>>
  BY <1>1, <1>2 DEF MayDestroy, ClientTypes
<1>6. ClientTypes'
  BY <1>1, <1>2, <1>4, <1>5 DEF ClientTypes
<1>7. ASSUME NEW t \in Task, Held(t)  PROVE  Held(t)'
  <2>1. at[t] \in valid'
    BY <1>5, <1>7, MutexAssumption DEF Held
  <2> QED  BY <1>2, <1>7, <2>1 DEF Held
<1>8. GrantIsHeld' /\ SectionIsLocked'
  <2>1. ASSUME NEW t \in Task, phase'[t] \in {"returned", "in"}, ~stray'[t],
               phase'[t] = "returned" => eax'[t] # 0
        PROVE  Held(t)'
    <3>1. t # current
      BY <1>2, <2>1
    <3>2. Held(t)
      BY <1>1, <1>2, <1>4, <2>1, <3>1 DEF GrantIsHeld, SectionIsLocked, Held
    <3> QED  BY <1>7, <3>2
  <2> QED  BY <2>1 DEF GrantIsHeld, SectionIsLocked, Held
<1>9. StraysAreStrict' /\ StrictOwnerNeverWaits'
  BY <1>1, <1>2, <1>3, <1>5 DEF StraysAreStrict, StrictOwnerNeverWaits, ClientTypes
<1>10. WaitersOnlyIfLocked'
  BY <1>1, <1>2, <1>3, <1>5 DEF WaitersOnlyIfLocked
<1> QED  BY <1>3, <1>6, <1>8, <1>9, <1>10 DEF MInv

(* The timer, and the system calls of task.c. *)
LEMMA TaskCallKeeps ==
    ASSUME MInv,
           \/ Timer \/ Die
           \/ \E ms \in SleepMs : Sleep(ms)
           \/ \E n \in Name : Wait(n)
           \/ \E n \in Name, p \in Priority : RegisterApp(n, p)
    PROVE  MInv'
<1>1. IInv /\ ClientTypes
  BY DEF MInv
<1>2. CASE Timer
  <2>1. Tick /\ UNCHANGED mutexVars /\ eax' = eax /\ UNCHANGED clientVars
    BY <1>2 DEF Timer, SysTick
  <2>2. IInv' /\ \A m \in MutexAddr : waitQ'[m] = waitQ[m]
    BY <1>1, <2>1, ScheduleStep DEF Next
  <2>3. ClientTypes'
    BY <1>1, <2>1 DEF ClientTypes, mutexVars, clientVars
  <2> QED  BY <2>1, <2>2, <2>3, QuietKeeps DEF clientVars
<1>3. CASE Die
  <2>1. /\ current # Idle /\ KillTask /\ Return(0) /\ UNCHANGED mutexVars
        /\ Forget(current)
    BY <1>3 DEF Die, SysKill
  <2>2. IInv' /\ \A m \in MutexAddr : waitQ'[m] = waitQ[m]
    BY <1>1, <2>1, ScheduleStep DEF Next
  <2>3. /\ eax' \in [Task -> Result]
        /\ \A t \in Task : eax'[t] = IF t = current' THEN 0 ELSE eax[t]
    BY <1>1, <2>1, Values, ReturnChangesOne
  <2>4. current \in Task
    BY <1>1, <2>1, CurrentWaitsNowhere
  <2>5. /\ phase' \in [Task -> {"out", "returned", "in"}]
        /\ at' \in [Task -> Handle]
        /\ stray' \in [Task -> BOOLEAN]
        /\ phase'[current] = "out" /\ stray'[current] = FALSE
        /\ \A t \in Task \ {current} :
             phase'[t] = phase[t] /\ at'[t] = at[t] /\ stray'[t] = stray[t]
    BY <1>1, <2>1, <2>4, ForgetChangesOne
  <2>6. ClientTypes'
    BY <1>1, <2>1, <2>3, <2>5 DEF ClientTypes, mutexVars
  <2> QED  BY <2>1, <2>2, <2>3, <2>5, <2>6, QuietKeeps
<1>4. ASSUME [Next]_schedVars, Return(0), UNCHANGED mutexVars, UNCHANGED clientVars
      PROVE  MInv'
  <2>1. IInv' /\ \A m \in MutexAddr : waitQ'[m] = waitQ[m]
    BY <1>1, <1>4, ScheduleStep
  <2>2. /\ eax' \in [Task -> Result]
        /\ \A t \in Task : eax'[t] = IF t = current' THEN 0 ELSE eax[t]
    BY <1>1, <1>4, Values, ReturnChangesOne
  <2>3. ClientTypes'
    BY <1>1, <1>4, <2>2 DEF ClientTypes, mutexVars, clientVars
  <2> QED  BY <1>4, <2>1, <2>2, <2>3, QuietKeeps DEF clientVars
<1>5. ASSUME NEW ms \in SleepMs, Sleep(ms)  PROVE  MInv'
  BY <1>4, <1>5 DEF Sleep, SysSleep, Next
<1>6. ASSUME NEW n \in Name, Wait(n)  PROVE  MInv'
  BY <1>4, <1>6 DEF Wait, SysWait, Next
<1>7. ASSUME NEW n \in Name, NEW p \in Priority, RegisterApp(n, p)  PROVE  MInv'
  <2>1. /\ current # Idle /\ phase[current] # "returned"
        /\ Register(n, p) /\ Return(1) /\ UNCHANGED mutexVars /\ UNCHANGED clientVars
    BY <1>7 DEF RegisterApp, SysRegister
  <2>2. IInv' /\ \A m \in MutexAddr : waitQ'[m] = waitQ[m]
    BY <1>1, <2>1, ScheduleStep DEF Next
  <2>3. current' = current
    BY <2>1 DEF Register
  <2>4. /\ eax' \in [Task -> Result]
        /\ \A t \in Task : eax'[t] = IF t = current THEN 1 ELSE eax[t]
    BY <1>1, <2>1, <2>3, Values, ReturnChangesOne
  <2>5. ClientTypes'
    BY <1>1, <2>1, <2>4 DEF ClientTypes, mutexVars, clientVars
  <2> QED  BY <2>1, <2>2, <2>4, <2>5, QuietKeeps DEF clientVars
<1> QED  BY <1>2, <1>3, <1>5, <1>6, <1>7

(* Every step of the clients keeps the invariant. *)
LEMMA ClientNextKeeps == MInv /\ [ClientNext]_sysVars => MInv'
<1> SUFFICES ASSUME MInv, [ClientNext]_sysVars  PROVE  MInv'
  OBVIOUS
<1>1. IInv /\ ClientTypes
  BY DEF MInv
<1>2. CASE Retry
  <2>1. current \in Task /\ phase[current] = "returned" /\ CallEnter(at[current])
    BY <1>1, <1>2, CurrentWaitsNowhere DEF Retry
  <2>2. at[current] \in Handle
    BY <1>1, <2>1 DEF ClientTypes
  <2> QED  BY <2>1, <2>2, CallEnterKeeps
<1>3. CASE Granted
  BY <1>3, GrantedKeeps
<1>4. ASSUME NEW m \in Handle, Enter(m) \/ Exit(m) \/ Destroy(m)
      PROVE  MInv'
  BY <1>4, CallEnterKeeps, ExitKeeps, DestroyKeeps DEF Enter
<1>7. ASSUME NEW m \in MutexAddr, NEW type \in UsedType, Create(m, type)
      PROVE  MInv'
  BY <1>7, ClientAssumption, CreateKeeps
<1>5. CASE \/ Timer \/ Die
           \/ \E ms \in SleepMs : Sleep(ms)
           \/ \E n \in Name : Wait(n)
           \/ \E n \in Name, p \in Priority : RegisterApp(n, p)
  BY <1>5, TaskCallKeeps
<1>6. CASE UNCHANGED sysVars
  <2>1. UNCHANGED schedVars /\ UNCHANGED mutexVars /\ eax' = eax /\ UNCHANGED clientVars
    BY <1>6 DEF sysVars
  <2>2. IInv' /\ \A m \in MutexAddr : waitQ'[m] = waitQ[m]
    BY <1>1, <2>1, ScheduleStep
  <2>3. ClientTypes'
    BY <1>1, <2>1 DEF ClientTypes, mutexVars, clientVars
  <2> QED  BY <2>1, <2>2, <2>3, QuietKeeps DEF clientVars
<1> QED  BY <1>2, <1>3, <1>4, <1>5, <1>6, <1>7 DEF ClientNext

-----------------------------------------------------------------------------
(* The invariant holds in every reachable state. *)
THEOREM ClientInvariant == ClientSpec => []MInv
<1> QED  BY ClientInitEstablishes, ClientNextKeeps, PTL DEF ClientSpec

(* The scheduler's invariant survives the system calls of mutex.c, which    *)
(* move tasks between its queues too.                                       *)
THEOREM SchedulerUnderMutexes == ClientSpec => []OnePlace
<1>1. MInv => OnePlace
  BY DEF MInv, IInv
<1> QED  BY <1>1, ClientInvariant, PTL

(* A task in a section owns the lock, whatever other calls did to results. *)
THEOREM SectionsAreLocked == ClientSpec => []SectionIsLocked
<1>1. MInv => SectionIsLocked
  BY DEF MInv
<1> QED  BY <1>1, ClientInvariant, PTL

(* No wake-up is lost: whoever waits, waits for an owner to exit. *)
THEOREM NoLostWakeUp == ClientSpec => []WaitersOnlyIfLocked
<1>1. MInv => WaitersOnlyIfLocked
  BY DEF MInv
<1> QED  BY <1>1, ClientInvariant, PTL

(* The owner of a strict mutex is never among its waiters. *)
THEOREM StrictOwnersRun == ClientSpec => []StrictOwnerNeverWaits
<1>1. MInv => StrictOwnerNeverWaits
  BY DEF MInv
<1> QED  BY <1>1, ClientInvariant, PTL

-----------------------------------------------------------------------------
(* Only the owner can be in the section of a mutex. *)
LEMMA SectionOfOwner ==
    ASSUME SectionIsLocked, NEW m \in MutexAddr, NEW t \in Sections[m]
    PROVE  t \in Task /\ phase[t] = "in" /\ ~stray[t] /\ at[t] = m /\ lock[m] = t
BY DEF Sections, SectionIsLocked

(* The members of a section before and after a step. *)
LEMMA InSection ==
    ASSUME NEW m \in MutexAddr, NEW t
    PROVE  /\ t \in Sections[m] <=> t \in Task /\ phase[t] = "in" /\ ~stray[t] /\ at[t] = m
           /\ t \in Sections'[m] <=> t \in Task /\ phase'[t] = "in" /\ ~stray'[t] /\ at'[t] = m
BY DEF Sections

(* Sections that hold the same tasks are the same function. *)
LEMMA SameSections ==
    ASSUME \A m \in MutexAddr, t \in Task : t \in Sections'[m] <=> t \in Sections[m]
    PROVE  Sections' = Sections
<1>1. ASSUME NEW m \in MutexAddr  PROVE  Sections'[m] = Sections[m]
  <2>1. ASSUME NEW t  PROVE  t \in Sections'[m] <=> t \in Sections[m]
    BY InSection
  <2> QED  BY <2>1
<1> QED  BY <1>1 DEF Sections

(* The sections are empty at first. *)
LEMMA InitImplements == ClientInit => AbstractLock!Init
<1> SUFFICES ASSUME ClientInit  PROVE  Sections = [m \in MutexAddr |-> {}]
  BY DEF AbstractLock!Init
<1>1. \A t \in Task : phase[t] = "out"
  BY DEF ClientInit
<1> QED  BY <1>1 DEF Sections

(* A task that forgets its section leaves it: Release, or nothing. *)
LEMMA ForgetImplements ==
    ASSUME MInv, current \in Task, Forget(current)
    PROVE  [AbstractLock!Next]_Sections
<1>1. SectionIsLocked /\ ClientTypes
  BY DEF MInv
<1>2. /\ phase'[current] = "out"
      /\ \A t \in Task \ {current} :
           phase'[t] = phase[t] /\ at'[t] = at[t] /\ stray'[t] = stray[t]
  BY <1>1, ForgetChangesOne
<1>3. ASSUME NEW m \in MutexAddr, NEW t
      PROVE  t \in Sections'[m] <=> t \in Sections[m] /\ t # current
  BY <1>2, InSection
<1>4. ASSUME NEW m \in MutexAddr, current \in Sections[m]
      PROVE  AbstractLock!Release(m, current)
  <2>1. Sections[m] = {current}
    BY <1>1, <1>4, SectionOfOwner
  <2>2. Sections'[m] = {}
    BY <1>3, <2>1
  <2>3. ASSUME NEW q \in MutexAddr \ {m}  PROVE  Sections'[q] = Sections[q]
    <3>1. current \notin Sections[q]
      BY <1>1, <1>4, <2>3, SectionOfOwner
    <3> QED  BY <1>3, <3>1
  <2>4. Sections' = [Sections EXCEPT ![m] = {}]
    BY <2>2, <2>3 DEF Sections
  <2> QED  BY <2>1, <2>4 DEF AbstractLock!Release
<1>5. CASE \A m \in MutexAddr : current \notin Sections[m]
  BY <1>3, <1>5, SameSections
<1> QED  BY <1>4, <1>5 DEF AbstractLock!Next

(* The step that reads a true result enters the section: Acquire. *)
LEMMA GrantedImplements ==
    ASSUME MInv, Granted
    PROVE  [AbstractLock!Next]_Sections
<1>1. IInv /\ SectionIsLocked /\ GrantIsHeld /\ ClientTypes
  BY DEF MInv
<1>2. /\ current \in Task /\ phase[current] = "returned" /\ eax[current] # 0
      /\ phase' = [phase EXCEPT ![current] = "in"] /\ at' = at /\ stray' = stray
  BY <1>1, CurrentWaitsNowhere DEF Granted
<1>3. phase'[current] = "in" /\ \A t \in Task \ {current} : phase'[t] = phase[t]
  BY <1>1, <1>2 DEF ClientTypes
<1> DEFINE m == at[current]
<1>4. CASE stray[current]
  <2>1. \A q \in MutexAddr, t \in Task : t \in Sections'[q] <=> t \in Sections[q]
    BY <1>2, <1>3, <1>4, InSection
  <2> QED  BY <2>1, SameSections
<1>5. CASE ~stray[current]
  <2>1. m \in valid /\ m \in MutexAddr /\ lock[m] = current
    BY <1>1, <1>2, <1>5 DEF GrantIsHeld, Held, ClientTypes
  <2>2. Sections[m] = {}
    BY <1>1, <1>2, <2>1, SectionOfOwner
  <2>3. ASSUME NEW q \in MutexAddr, NEW t
        PROVE  t \in Sections'[q] <=> t \in Sections[q] \/ (t = current /\ q = m)
    BY <1>2, <1>3, <1>5, InSection
  <2>4. Sections'[m] = {current}
    BY <2>1, <2>2, <2>3
  <2>5. ASSUME NEW q \in MutexAddr \ {m}  PROVE  Sections'[q] = Sections[q]
    BY <2>3
  <2>6. Sections' = [Sections EXCEPT ![m] = {current}]
    BY <2>4, <2>5 DEF Sections
  <2> QED  BY <1>2, <2>1, <2>2, <2>6 DEF AbstractLock!Acquire, AbstractLock!Next
<1> QED  BY <1>4, <1>5

(* Every step of the clients is a step of the lock, or leaves the sections. *)
LEMMA StepImplements ==
    ASSUME MInv, [ClientNext]_sysVars
    PROVE  [AbstractLock!Next]_Sections
<1>1. IInv /\ ClientTypes
  BY DEF MInv
<1>2. ASSUME NEW m \in Handle, CallEnter(m), phase[current] # "in"
      PROVE  [AbstractLock!Next]_Sections
  <2>1. current \in Task
    BY <1>1, <1>2, CurrentWaitsNowhere DEF CallEnter, EnterCritical
  <2>2. /\ phase'[current] = "returned"
        /\ \A t \in Task \ {current} :
             phase'[t] = phase[t] /\ at'[t] = at[t] /\ stray'[t] = stray[t]
    BY <1>1, <1>2, <2>1, ClientChangesOne DEF CallEnter
  <2>3. \A q \in MutexAddr, t \in Task : t \in Sections'[q] <=> t \in Sections[q]
    BY <1>2, <2>2, InSection
  <2> QED  BY <2>3, SameSections
<1>3. CASE UNCHANGED clientVars
  <2>1. phase' = phase /\ at' = at /\ stray' = stray
    BY <1>3 DEF clientVars
  <2>2. \A q \in MutexAddr, t \in Task : t \in Sections'[q] <=> t \in Sections[q]
    BY <2>1, InSection
  <2> QED  BY <2>2, SameSections
<1>4. CASE Retry
  <2>1. current \in Task /\ phase[current] = "returned" /\ CallEnter(at[current])
    BY <1>1, <1>4, CurrentWaitsNowhere DEF Retry
  <2>2. at[current] \in Handle
    BY <1>1, <2>1 DEF ClientTypes
  <2> QED  BY <1>2, <2>1, <2>2
<1>5. CASE Granted
  BY <1>5, GrantedImplements
<1>6. CASE Die
  BY <1>1, <1>6, CurrentWaitsNowhere, ForgetImplements DEF Die
<1>7. ASSUME NEW m \in Handle, Enter(m)  PROVE  [AbstractLock!Next]_Sections
  BY <1>2, <1>7 DEF Enter
<1>8. ASSUME NEW m \in Handle, Exit(m)  PROVE  [AbstractLock!Next]_Sections
  BY <1>1, <1>8, CurrentWaitsNowhere, ForgetImplements DEF Exit
<1>9. CASE \/ \E m \in MutexAddr, type \in UsedType : Create(m, type)
           \/ \E m \in Handle : Destroy(m)
  BY <1>3, <1>9 DEF Create, Destroy
<1>10. CASE \/ Timer
            \/ \E ms \in SleepMs : Sleep(ms)
            \/ \E n \in Name : Wait(n)
            \/ \E n \in Name, p \in Priority : RegisterApp(n, p)
  BY <1>3, <1>10 DEF Timer, Sleep, Wait, RegisterApp
<1>11. CASE UNCHANGED sysVars
  BY <1>3, <1>11 DEF sysVars
<1> QED  BY <1>4, <1>5, <1>6, <1>7, <1>8, <1>9, <1>10, <1>11 DEF ClientNext

(* The mutexes implement the lock of module Lock.                           *)
THEOREM MutexesImplementLock == ClientSpec => ImplementsLock
<1>1. MInv /\ [ClientNext]_sysVars => [AbstractLock!Next]_Sections
  BY StepImplements
<1> QED  BY <1>1, InitImplements, ClientInvariant, PTL
         DEF ClientSpec, ImplementsLock, AbstractLock!Spec

-----------------------------------------------------------------------------
(* In the abstract lock a section is empty or holds one task. *)
AtMostOne == Sections \in [MutexAddr -> {{}} \cup {{t} : t \in Task}]

LEMMA NextKeepsOne == AtMostOne /\ [AbstractLock!Next]_Sections => AtMostOne'
<1> SUFFICES ASSUME AtMostOne, [AbstractLock!Next]_Sections  PROVE  AtMostOne'
  OBVIOUS
<1>1. ASSUME NEW m \in MutexAddr, NEW t \in Task,
             AbstractLock!Acquire(m, t) \/ AbstractLock!Release(m, t)
      PROVE  AtMostOne'
  <2>1. PICK s \in {{}} \cup {{u} : u \in Task} : Sections' = [Sections EXCEPT ![m] = s]
    BY <1>1 DEF AbstractLock!Acquire, AbstractLock!Release
  <2> QED  BY <2>1 DEF AtMostOne
<1>2. CASE UNCHANGED Sections
  BY <1>2 DEF AtMostOne
<1> QED  BY <1>1, <1>2 DEF AbstractLock!Next

(* The abstract lock is mutually exclusive, for any number of tasks and     *)
(* mutexes: what an implementation of it guarantees to the programs that    *)
(* use a mutex.                                                             *)
THEOREM LockExcludes == AbstractLock!Spec => []AbstractLock!MutualExclusion
<1>1. AbstractLock!Init => AtMostOne
  BY DEF AbstractLock!Init, AtMostOne
<1>2. AtMostOne => AbstractLock!MutualExclusion
  BY DEF AtMostOne, AbstractLock!MutualExclusion
<1> QED  BY <1>1, <1>2, NextKeepsOne, PTL DEF AbstractLock!Spec

(* EnterCritical, ExitCritical: no two tasks are in a section of one mutex  *)
(* that both entered while it existed, with clients that keep to what       *)
(* MutexClients says programs do not do.                                    *)
THEOREM SectionsExclude == ClientSpec => []AbstractLock!MutualExclusion
BY MutexesImplementLock, LockExcludes, PTL DEF ImplementsLock
-----------------------------------------------------------------------------
(* The application.  Where AMain is in its script tells who may be alive,   *)
(* and with that who may use, create or destroy the mutex.                  *)
Label == {"entry", "returned", "load", "store", "leave", "end"}

AppTypes ==
    /\ mutex \in {NoMutex, AppMutex} /\ valid \subseteq {AppMutex} /\ i \in Nat
    /\ pc \in [Task -> Label] /\ round \in [Task -> Nat]

Main(t) == t \in Alive /\ name[t] = InitName
Called(op, n, r) == \E k \in 1 .. r : Script[k] = Call(op, n)

(* No two tasks that are alive have the same name. *)
OneEach == \A t, u \in Alive : name[t] = name[u] => t = u

(* AMain has registered every other task, and has not called Wait for it,   *)
(* or has and still waits: that was its last call.                          *)
Awaited ==
    \A t \in Alive : name[t] # InitName =>
        \E m \in Alive :
            /\ name[m] = InitName
            /\ Called("register", name[t], round[m])
            /\ \A k \in 1 .. round[m] : Script[k] = Call("wait", name[t]) =>
                    k = round[m] /\ m \in ToSet(waitQ[t])

(* The mutex exists until the destroyer may destroy it. *)
MutexKept ==
    mutex = AppMutex /\ AppMutex \notin valid =>
        \A m \in Alive : name[m] = InitName => Called("register", Destroyer, round[m])

(* What is true of each task: its place in its program tells its phase; a   *)
(* worker uses the mutex, and has loaded what i holds; the creator's result *)
(* is the mutex or was overwritten by 0; AMain ends behind its script; a    *)
(* free block is as new.                                                    *)
PhaseAt(t) ==
    phase[t] = IF t \in WorkerTasks /\ pc[t] = "returned" THEN "returned"
               ELSE IF t \in WorkerTasks /\ pc[t] \in {"load", "store", "leave"} THEN "in"
               ELSE "out"

WorkerStory(t) ==
    t \in WorkerTasks =>
        /\ phase[t] # "out" => at[t] = mutex /\ (stray[t] => mutex \notin valid)
        /\ pc[t] = "store" => eax[t] \in Nat /\ (mutex # NoMutex => eax[t] \in {i, 0})

CreatorStory(t) ==
    t \in Alive /\ name[t] = Creator /\ pc[t] = "returned" =>
        AppMutex \in valid /\ eax[t] \in {0, AppMutex}

MainStory(t) ==
    Main(t) => /\ round[t] \in 0 .. Len(Script)
               /\ pc[t] \in {"entry", "end"}
               /\ pc[t] = "end" => round[t] = Len(Script)

NewStory(t) == t \notin Alive => pc[t] = "entry" /\ round[t] = 0

TaskStory(t) ==
    PhaseAt(t) /\ WorkerStory(t) /\ CreatorStory(t) /\ MainStory(t) /\ NewStory(t)

(* The inductive invariant of the application. *)
AInv ==
    /\ MInv
    /\ AppTypes
    /\ OneEach
    /\ Awaited
    /\ MutexKept
    /\ \A t \in Task : TaskStory(t)
-----------------------------------------------------------------------------
(* The script of AMain, call by call. *)
LEMMA NamesDiffer ==
    /\ Workers \in Seq(Name) /\ {InitName, Creator, Destroyer} \subseteq Name
    /\ Creator # InitName /\ Destroyer # InitName /\ Creator # Destroyer
    /\ ToSet(Workers) \cap {InitName, Creator, Destroyer, IdleName} = {}
    /\ ToSet(Workers) \subseteq Name
    /\ IdleName \notin {Creator, Destroyer}
    /\ \A k, l \in 1 .. Len(Workers) : Workers[k] = Workers[l] => k = l
<1> DEFINE others == <<InitName, Creator, Destroyer>>
           all == Workers \o others
<1>1. /\ Workers \in Seq(Name) /\ others \in Seq(Name) /\ Len(others) = 3
      /\ others[1] = InitName /\ others[2] = Creator /\ others[3] = Destroyer
      /\ {InitName, Creator, Destroyer} \subseteq Name
  BY AppAssumption, NameAssumption
<1>2. IsInjective(all) /\ IdleName \notin ToSet(Workers) \cup {Creator, Destroyer}
  BY AppAssumption
<1> HIDE DEF others
<1>3. /\ Len(Workers) \in Nat /\ DOMAIN Workers = 1 .. Len(Workers)
      /\ all \in Seq(Name) /\ Len(all) = Len(Workers) + 3
      /\ DOMAIN all = 1 .. Len(Workers) + 3
      /\ \A k \in 1 .. Len(Workers) : all[k] = Workers[k]
      /\ \A k \in 1 .. 3 : all[Len(Workers) + k] = others[k]
  <2>1. /\ all \in Seq(Name) /\ Len(all) = Len(Workers) + 3
        /\ \A k \in 1 .. Len(Workers) + 3 :
             all[k] = IF k <= Len(Workers) THEN Workers[k] ELSE others[k - Len(Workers)]
    <3>1. /\ all \in Seq(Name) /\ Len(all) = Len(Workers) + Len(others)
          /\ \A k \in 1 .. Len(Workers) + Len(others) :
               all[k] = IF k <= Len(Workers) THEN Workers[k] ELSE others[k - Len(Workers)]
      BY <1>1, ConcatProperties
    <3> HIDE DEF all
    <3> QED  BY <1>1, <3>1
  <2>2. Len(Workers) \in Nat /\ DOMAIN Workers = 1 .. Len(Workers)
    BY <1>1
  <2> HIDE DEF all
  <2>3. DOMAIN all = 1 .. Len(Workers) + 3
    BY <2>1
  <2>4. ASSUME NEW k \in 1 .. 3  PROVE  all[Len(Workers) + k] = others[k]
    <3>1. Len(Workers) + k \in 1 .. Len(Workers) + 3 /\ ~(Len(Workers) + k <= Len(Workers))
          /\ (Len(Workers) + k) - Len(Workers) = k
      BY <2>2
    <3> QED  BY <2>1, <3>1
  <2>5. ASSUME NEW k \in 1 .. Len(Workers)  PROVE  all[k] = Workers[k]
    BY <2>1, <2>2
  <2> QED  BY <2>1, <2>2, <2>3, <2>4, <2>5
<1>4. \A k, l \in 1 .. Len(Workers) + 3 : all[k] = all[l] => k = l
  BY <1>2, <1>3 DEF IsInjective
<1> HIDE DEF all
<1>5. \A k, l \in 1 .. 3 : others[k] = others[l] => k = l
  <2> SUFFICES ASSUME NEW k \in 1 .. 3, NEW l \in 1 .. 3, others[k] = others[l]  PROVE  k = l
    OBVIOUS
  <2>1. Len(Workers) + k \in 1 .. Len(Workers) + 3 /\ Len(Workers) + l \in 1 .. Len(Workers) + 3
    BY <1>3
  <2>2. Len(Workers) + k = Len(Workers) + l
    BY <1>3, <1>4, <2>1
  <2> QED  BY <1>3, <2>2
<1>6. ASSUME NEW k \in 1 .. Len(Workers), NEW l \in 1 .. 3  PROVE  Workers[k] # others[l]
  <2>1. /\ k \in 1 .. Len(Workers) + 3 /\ Len(Workers) + l \in 1 .. Len(Workers) + 3
        /\ k # Len(Workers) + l
    BY <1>3
  <2> QED  BY <1>3, <1>4, <2>1
<1>7. ToSet(Workers) = {Workers[k] : k \in 1 .. Len(Workers)}
  BY <1>3 DEF ToSet
<1>8. ToSet(Workers) \cap {InitName, Creator, Destroyer, IdleName} = {}
  <2>1. \A k \in 1 .. Len(Workers) :
          Workers[k] # others[1] /\ Workers[k] # others[2] /\ Workers[k] # others[3]
    BY <1>6
  <2> QED  BY <1>1, <1>2, <1>7, <2>1
<1>9. Creator # InitName /\ Destroyer # InitName /\ Creator # Destroyer
  BY <1>1, <1>5
<1>10. \A k, l \in 1 .. Len(Workers) : Workers[k] = Workers[l] => k = l
  BY <1>3, <1>4
<1>11. ToSet(Workers) \subseteq Name
  BY <1>1, <1>3, <1>7
<1> QED  BY <1>1, <1>2, <1>8, <1>9, <1>10, <1>11

(* Each position of the script, and what is called there. *)
LEMMA ScriptCalls ==
    /\ Len(Script) = 2 * Len(Workers) + 4 /\ Len(Workers) \in Nat
    /\ Script[1] = Call("register", Creator) /\ Script[2] = Call("wait", Creator)
    /\ \A k \in 1 .. Len(Workers) :
         /\ Script[2 + k] = Call("register", Workers[k])
         /\ Script[2 + Len(Workers) + k] = Call("wait", Workers[k])
    /\ Script[2 * Len(Workers) + 3] = Call("register", Destroyer)
    /\ Script[2 * Len(Workers) + 4] = Call("wait", Destroyer)
<1> DEFINE n == Len(Workers)
           C == [op : {"register", "wait"}, name : Name]
           a == <<Call("register", Creator), Call("wait", Creator)>>
           b == [k \in DOMAIN Workers |-> Call("register", Workers[k])]
           c == [k \in DOMAIN Workers |-> Call("wait", Workers[k])]
           d == <<Call("register", Destroyer), Call("wait", Destroyer)>>
<1>1. n \in Nat /\ DOMAIN Workers = 1 .. n /\ \A k \in 1 .. n : Workers[k] \in Name
  BY NamesDiffer
<1>2. /\ a \in Seq(C) /\ Len(a) = 2
      /\ a[1] = Call("register", Creator) /\ a[2] = Call("wait", Creator)
  <2>1. Call("register", Creator) \in C /\ Call("wait", Creator) \in C
    BY NamesDiffer DEF Call
  <2> HIDE DEF C
  <2> QED  BY <2>1
<1>3. b \in Seq(C) /\ Len(b) = n /\ \A k \in 1 .. n : b[k] = Call("register", Workers[k])
  <2>1. \A k \in 1 .. n : Call("register", Workers[k]) \in C
    BY <1>1 DEF Call
  <2> HIDE DEF C, n
  <2> QED  BY <1>1, <2>1
<1>4. c \in Seq(C) /\ Len(c) = n /\ \A k \in 1 .. n : c[k] = Call("wait", Workers[k])
  <2>1. \A k \in 1 .. n : Call("wait", Workers[k]) \in C
    BY <1>1 DEF Call
  <2> HIDE DEF C, n
  <2> QED  BY <1>1, <2>1
<1>5. /\ d \in Seq(C) /\ Len(d) = 2
      /\ d[1] = Call("register", Destroyer) /\ d[2] = Call("wait", Destroyer)
  <2>1. Call("register", Destroyer) \in C /\ Call("wait", Destroyer) \in C
    BY NamesDiffer DEF Call
  <2> HIDE DEF C
  <2> QED  BY <2>1
<1>6. Script = ((a \o b) \o c) \o d
  BY DEF Script
<1> HIDE DEF C, a, b, c, d, n
<1> DEFINE e == a \o b
<1>7. /\ e \in Seq(C) /\ Len(e) = 2 + n
      /\ \A k \in 1 .. 2 + n : e[k] = IF k <= 2 THEN a[k] ELSE b[k - 2]
  <2>1. /\ e \in Seq(C) /\ Len(e) = Len(a) + Len(b)
        /\ \A k \in 1 .. Len(a) + Len(b) : e[k] = IF k <= Len(a) THEN a[k] ELSE b[k - Len(a)]
    BY <1>2, <1>3, ConcatProperties
  <2> HIDE DEF e
  <2> QED  BY <1>2, <1>3, <2>1
<1> HIDE DEF e
<1> DEFINE f == e \o c
<1>8. /\ f \in Seq(C) /\ Len(f) = 2 + 2 * n
      /\ \A k \in 1 .. 2 + 2 * n : f[k] = IF k <= 2 + n THEN e[k] ELSE c[k - (2 + n)]
  <2>1. /\ f \in Seq(C) /\ Len(f) = Len(e) + Len(c)
        /\ \A k \in 1 .. Len(e) + Len(c) : f[k] = IF k <= Len(e) THEN e[k] ELSE c[k - Len(e)]
    BY <1>4, <1>7, ConcatProperties
  <2>2. Len(e) + Len(c) = 2 + 2 * n
    BY <1>1, <1>4, <1>7
  <2> HIDE DEF f
  <2> QED  BY <1>7, <2>1, <2>2
<1> HIDE DEF f
<1> DEFINE s == f \o d
<1>9. /\ s \in Seq(C) /\ Len(s) = 4 + 2 * n
      /\ \A k \in 1 .. 4 + 2 * n : s[k] = IF k <= 2 + 2 * n THEN f[k] ELSE d[k - (2 + 2 * n)]
  <2>1. /\ s \in Seq(C) /\ Len(s) = Len(f) + Len(d)
        /\ \A k \in 1 .. Len(f) + Len(d) : s[k] = IF k <= Len(f) THEN f[k] ELSE d[k - Len(f)]
    BY <1>5, <1>8, ConcatProperties
  <2>2. Len(f) + Len(d) = 4 + 2 * n
    BY <1>1, <1>5, <1>8
  <2> HIDE DEF s
  <2> QED  BY <1>8, <2>1, <2>2
<1> HIDE DEF s
<1>10. Script = s
  BY <1>6 DEF s, f, e
<1>11. s[1] = Call("register", Creator) /\ s[2] = Call("wait", Creator)
  BY <1>1, <1>2, <1>7, <1>8, <1>9
<1>12. ASSUME NEW k \in 1 .. n  PROVE  s[2 + k] = Call("register", Workers[k])
  <2>1. s[2 + k] = f[2 + k] /\ f[2 + k] = e[2 + k] /\ e[2 + k] = b[k]
    BY <1>1, <1>7, <1>8, <1>9
  <2> QED  BY <1>3, <2>1
<1>13. ASSUME NEW k \in 1 .. n  PROVE  s[2 + n + k] = Call("wait", Workers[k])
  <2>1. s[2 + n + k] = f[2 + n + k] /\ f[2 + n + k] = c[k]
    BY <1>1, <1>8, <1>9
  <2> QED  BY <1>4, <2>1
<1>14. s[2 * n + 3] = d[1] /\ s[2 * n + 4] = d[2]
  BY <1>1, <1>9
<1> QED  BY <1>1, <1>5, <1>9, <1>10, <1>11, <1>12, <1>13, <1>14 DEF n

(* The script, read backwards: where a call can be. *)
LEMMA ScriptEntry ==
    ASSUME NEW j \in 1 .. Len(Script)
    PROVE  \/ j = 1 /\ Script[j] = Call("register", Creator)
           \/ j = 2 /\ Script[j] = Call("wait", Creator)
           \/ \E k \in 1 .. Len(Workers) : j = 2 + k /\ Script[j] = Call("register", Workers[k])
           \/ \E k \in 1 .. Len(Workers) :
                j = 2 + Len(Workers) + k /\ Script[j] = Call("wait", Workers[k])
           \/ j = 2 * Len(Workers) + 3 /\ Script[j] = Call("register", Destroyer)
           \/ j = 2 * Len(Workers) + 4 /\ Script[j] = Call("wait", Destroyer)
<1> DEFINE n == Len(Workers)
<1>1. n \in Nat /\ j \in Nat /\ 1 <= j /\ j <= 2 * n + 4
  BY ScriptCalls
<1>2. CASE j \in 3 .. n + 2
  <2>1. j - 2 \in 1 .. n /\ j = 2 + (j - 2)
    BY <1>1, <1>2
  <2>2. Script[j] = Call("register", Workers[j - 2])
    BY <2>1, ScriptCalls
  <2> QED  BY <2>1, <2>2
<1>3. CASE j \in n + 3 .. 2 * n + 2
  <2>1. j - (2 + n) \in 1 .. n /\ j = 2 + n + (j - (2 + n))
    BY <1>1, <1>3
  <2>2. Script[j] = Call("wait", Workers[j - (2 + n)])
    BY <2>1, ScriptCalls
  <2> QED  BY <2>1, <2>2
<1>4. CASE j \in {1, 2, 2 * n + 3, 2 * n + 4}
  BY <1>4, ScriptCalls
<1>5. j \in 3 .. n + 2 \/ j \in n + 3 .. 2 * n + 2 \/ j \in {1, 2, 2 * n + 3, 2 * n + 4}
  BY <1>1
<1> QED  BY <1>2, <1>3, <1>4, <1>5

(* The same, as the places of the calls that concern one name. *)
LEMMA Places ==
    ASSUME NEW j \in 1 .. Len(Script), NEW n
    PROVE  /\ Script[j] = Call("register", n) =>
                \/ j = 1 /\ n = Creator
                \/ \E k \in 1 .. Len(Workers) : j = 2 + k /\ n = Workers[k]
                \/ j = 2 * Len(Workers) + 3 /\ n = Destroyer
           /\ Script[j] = Call("wait", n) =>
                \/ j = 2 /\ n = Creator
                \/ \E k \in 1 .. Len(Workers) : j = 2 + Len(Workers) + k /\ n = Workers[k]
                \/ j = 2 * Len(Workers) + 4 /\ n = Destroyer
<1>1. ASSUME NEW x, NEW y, NEW b, NEW c
      PROVE  Call(x, b) = Call(y, c) => x = y /\ b = c
  BY DEF Call
<1>2. ASSUME Script[j] = Call("register", n)
      PROVE  \/ j = 1 /\ n = Creator
             \/ \E k \in 1 .. Len(Workers) : j = 2 + k /\ n = Workers[k]
             \/ j = 2 * Len(Workers) + 3 /\ n = Destroyer
  <2>1. \/ j = 1 /\ Call("register", n) = Call("register", Creator)
        \/ \E k \in 1 .. Len(Workers) :
             j = 2 + k /\ Call("register", n) = Call("register", Workers[k])
        \/ j = 2 * Len(Workers) + 3 /\ Call("register", n) = Call("register", Destroyer)
        \/ \E m : Call("register", n) = Call("wait", m)
    BY <1>2, ScriptEntry
  <2>2. ~ \E m : Call("register", n) = Call("wait", m)
    BY <1>1
  <2> QED  BY <1>1, <2>1, <2>2
<1>3. ASSUME Script[j] = Call("wait", n)
      PROVE  \/ j = 2 /\ n = Creator
             \/ \E k \in 1 .. Len(Workers) : j = 2 + Len(Workers) + k /\ n = Workers[k]
             \/ j = 2 * Len(Workers) + 4 /\ n = Destroyer
  <2>1. \/ j = 2 /\ Call("wait", n) = Call("wait", Creator)
        \/ \E k \in 1 .. Len(Workers) :
             j = 2 + Len(Workers) + k /\ Call("wait", n) = Call("wait", Workers[k])
        \/ j = 2 * Len(Workers) + 4 /\ Call("wait", n) = Call("wait", Destroyer)
        \/ \E m : Call("wait", n) = Call("register", m)
    BY <1>3, ScriptEntry
  <2>2. ~ \E m : Call("wait", n) = Call("register", m)
    BY <1>1
  <2> QED  BY <1>1, <2>1, <2>2
<1> QED  BY <1>2, <1>3

(* A call names a task of the application, and is a RegisterApp or a Wait. *)
LEMMA EachCall ==
    ASSUME NEW j \in 1 .. Len(Script)
    PROVE  \E n \in Name \ {InitName, IdleName} :
              Script[j] = Call("register", n) \/ Script[j] = Call("wait", n)
<1>1. \A k \in 1 .. Len(Workers) : Workers[k] \in ToSet(Workers)
  BY NamesDiffer DEF ToSet
<1>2. ({Creator, Destroyer} \cup ToSet(Workers)) \subseteq Name \ {InitName, IdleName}
  BY NamesDiffer
<1> QED  BY <1>1, <1>2, ScriptEntry

(* A name is registered once, before it is waited for. *)
LEMMA RegisteredOnce ==
    ASSUME NEW j \in 1 .. Len(Script), NEW l \in 1 .. Len(Script), NEW n,
           Script[j] = Call("register", n)
    PROVE  /\ Script[l] = Call("register", n) => l = j
           /\ Script[l] = Call("wait", n) => j < l
<1>1. Len(Workers) \in Nat
  BY ScriptCalls
<1>2. \A k \in 1 .. Len(Workers) : Workers[k] \notin {Creator, Destroyer}
  <2>1. \A k \in 1 .. Len(Workers) : Workers[k] \in ToSet(Workers)
    BY NamesDiffer DEF ToSet
  <2> QED  BY <2>1, NamesDiffer
<1>3. /\ Creator # Destroyer
      /\ \A k, m \in 1 .. Len(Workers) : Workers[k] = Workers[m] => k = m
  BY NamesDiffer
<1>4. CASE j = 1 /\ n = Creator
  BY <1>1, <1>2, <1>3, <1>4, Places
<1>5. ASSUME NEW k \in 1 .. Len(Workers), j = 2 + k, n = Workers[k]
      PROVE  /\ Script[l] = Call("register", n) => l = j
             /\ Script[l] = Call("wait", n) => j < l
  BY <1>1, <1>2, <1>3, <1>5, Places
<1>6. CASE j = 2 * Len(Workers) + 3 /\ n = Destroyer
  BY <1>1, <1>2, <1>3, <1>6, Places
<1> QED  BY <1>4, <1>5, <1>6, Places

(* Until the wait for the creator is over, AMain registers nobody else. *)
LEMMA CreatorFirst ==
    ASSUME NEW r \in 0 .. Len(Script), NEW n,
           \A k \in 1 .. r : Script[k] = Call("wait", Creator) => k = r,
           Called("register", n, r)
    PROVE  n = Creator
<1>1. Len(Workers) \in Nat /\ Script[2] = Call("wait", Creator)
  BY ScriptCalls
<1>2. PICK j \in 1 .. r : Script[j] = Call("register", n)
  BY DEF Called
<1>3. r <= 2
  BY <1>1, ScriptCalls
<1>4. j \in 1 .. Len(Script) /\ j <= 2
  BY <1>3, ScriptCalls
<1>5. \/ j = 1 /\ n = Creator
      \/ \E k \in 1 .. Len(Workers) : j = 2 + k /\ n = Workers[k]
      \/ j = 2 * Len(Workers) + 3 /\ n = Destroyer
  BY <1>2, <1>4, Places
<1> QED  BY <1>1, <1>4, <1>5

(* Until the waits for the workers are over, AMain registers no destroyer. *)
LEMMA DestroyerLast ==
    ASSUME NEW r \in 0 .. Len(Script), NEW n \in ToSet(Workers),
           \A k \in 1 .. r : Script[k] = Call("wait", n) => k = r
    PROVE  ~ Called("register", Destroyer, r)
<1> SUFFICES ASSUME NEW j \in 1 .. r, Script[j] = Call("register", Destroyer)
             PROVE  FALSE
  BY DEF Called
<1>1. Len(Workers) \in Nat /\ Len(Script) = 2 * Len(Workers) + 4
  BY ScriptCalls
<1>2. PICK k \in 1 .. Len(Workers) : n = Workers[k]
  <2>1. DOMAIN Workers = 1 .. Len(Workers)
    BY NamesDiffer
  <2> QED  BY <2>1 DEF ToSet
<1>3. Script[2 + Len(Workers) + k] = Call("wait", n)
  BY <1>2, ScriptCalls
<1>4. Destroyer # Creator /\ \A l \in 1 .. Len(Workers) : Destroyer # Workers[l]
  BY NamesDiffer DEF ToSet
<1>5. j \in 1 .. Len(Script)
  BY <1>1
<1>6. j = 2 * Len(Workers) + 3
  BY <1>4, <1>5, Places
<1>7. 2 + Len(Workers) + k \in 1 .. r /\ 2 + Len(Workers) + k # r
  BY <1>1, <1>6
<1> QED  BY <1>3, <1>7

(* Whoever is registered is waited for. *)
LEMMA WaitFollows ==
    ASSUME NEW j \in 1 .. Len(Script), NEW n, Script[j] = Call("register", n)
    PROVE  \E l \in 1 .. Len(Script) : Script[l] = Call("wait", n)
<1>1. Len(Workers) \in Nat /\ Len(Script) = 2 * Len(Workers) + 4
  BY ScriptCalls
<1>2. CASE n = Creator
  BY <1>1, <1>2, ScriptCalls
<1>3. ASSUME NEW k \in 1 .. Len(Workers), n = Workers[k]
      PROVE  \E l \in 1 .. Len(Script) : Script[l] = Call("wait", n)
  <2>1. 2 + Len(Workers) + k \in 1 .. Len(Script)
    BY <1>1
  <2> QED  BY <1>3, <2>1, ScriptCalls
<1>4. CASE n = Destroyer
  <2>1. 2 * Len(Workers) + 4 \in 1 .. Len(Script)
    BY <1>1
  <2> QED  BY <1>4, <2>1, ScriptCalls
<1> QED  BY <1>2, <1>3, <1>4, Places

-----------------------------------------------------------------------------
(* What the invariant says of the tasks that are alive together. *)
LEMMA AwaitedBy ==
    ASSUME AInv, NEW t \in Alive, name[t] # InitName
    PROVE  \E m \in Alive :
              /\ Main(m) /\ m # t /\ m \in Task /\ round[m] \in 0 .. Len(Script)
              /\ Called("register", name[t], round[m])
              /\ \A k \in 1 .. round[m] : Script[k] = Call("wait", name[t]) =>
                    k = round[m] /\ m \in ToSet(waitQ[t])
<1>1. Alive \subseteq Task
  BY QueuesOfTasks DEF AInv, MInv, IInv
<1>2. PICK m \in Alive :
        /\ name[m] = InitName
        /\ Called("register", name[t], round[m])
        /\ \A k \in 1 .. round[m] : Script[k] = Call("wait", name[t]) =>
              k = round[m] /\ m \in ToSet(waitQ[t])
  BY DEF AInv, Awaited
<1>3. TaskStory(m)
  BY <1>1 DEF AInv
<1> QED  BY <1>1, <1>2, <1>3 DEF TaskStory, MainStory, Main

(* No worker and no destroyer is there with the creator. *)
LEMMA CreatorAlone ==
    ASSUME AInv, NEW t \in Alive, name[t] = Creator, NEW u \in Alive, name[u] # InitName
    PROVE  name[u] = Creator
<1>1. Creator # InitName
  BY NamesDiffer
<1>2. PICK m \in Alive :
        /\ Main(m) /\ round[m] \in 0 .. Len(Script)
        /\ \A k \in 1 .. round[m] : Script[k] = Call("wait", Creator) => k = round[m]
  BY <1>1, AwaitedBy
<1>3. PICK v \in Alive : Main(v) /\ Called("register", name[u], round[v])
  BY AwaitedBy
<1>4. v = m
  BY <1>2, <1>3 DEF AInv, OneEach, Main
<1> QED  BY <1>2, <1>3, <1>4, CreatorFirst

(* While a worker is there, AMain has not registered the destroyer. *)
LEMMA NoDestroyerYet ==
    ASSUME AInv, NEW t \in WorkerTasks
    PROVE  \E m \in Alive : name[m] = InitName /\ ~ Called("register", Destroyer, round[m])
<1>1. t \in Alive /\ name[t] \in ToSet(Workers) /\ name[t] # InitName
  BY NamesDiffer DEF WorkerTasks
<1>2. PICK m \in Alive :
        /\ Main(m) /\ round[m] \in 0 .. Len(Script)
        /\ \A k \in 1 .. round[m] : Script[k] = Call("wait", name[t]) => k = round[m]
  BY <1>1, AwaitedBy
<1> QED  BY <1>1, <1>2, DestroyerLast DEF Main

LEMMA NoWorkerWithDestroyer ==
    ASSUME AInv, NEW t \in WorkerTasks, NEW u \in Alive
    PROVE  name[u] # Destroyer
<1> SUFFICES ASSUME name[u] = Destroyer  PROVE  FALSE
  OBVIOUS
<1>1. PICK m \in Alive : name[m] = InitName /\ ~ Called("register", Destroyer, round[m])
  BY NoDestroyerYet
<1>2. PICK v \in Alive : Main(v) /\ Called("register", Destroyer, round[v])
  BY NamesDiffer, AwaitedBy
<1>3. v = m
  BY <1>1, <1>2 DEF AInv, OneEach, Main
<1> QED  BY <1>1, <1>2, <1>3

(* A worker never finds the mutex gone. *)
LEMMA MutexThere ==
    ASSUME AInv, NEW t \in WorkerTasks
    PROVE  mutex = AppMutex => mutex \in valid
<1>1. PICK m \in Alive : name[m] = InitName /\ ~ Called("register", Destroyer, round[m])
  BY NoDestroyerYet
<1> QED  BY <1>1 DEF AInv, MutexKept

(* While AMain itself runs, it has not yet called Wait for any task alive. *)
LEMMA MainRuns ==
    ASSUME AInv, Runs(InitName)
    PROVE  /\ current \in Task /\ Main(current)
           /\ round[current] \in 0 .. Len(Script)
           /\ \A t \in Alive : name[t] = InitName => t = current
           /\ \A t \in Alive : name[t] # InitName =>
                /\ Called("register", name[t], round[current])
                /\ \A k \in 1 .. round[current] : Script[k] # Call("wait", name[t])
<1>1. current \in Task /\ current \in Alive /\ current \notin Waiting
  BY CurrentWaitsNowhere, CurrentLeaves DEF AInv, MInv, Runs
<1>2. Main(current) /\ round[current] \in 0 .. Len(Script)
  BY <1>1 DEF Main, Runs, AInv, TaskStory, MainStory
<1>3. ASSUME NEW t \in Alive, name[t] = InitName  PROVE  t = current
  BY <1>1, <1>3 DEF Runs, AInv, OneEach
<1>4. ASSUME NEW t \in Alive, name[t] # InitName
      PROVE  /\ Called("register", name[t], round[current])
             /\ \A k \in 1 .. round[current] : Script[k] # Call("wait", name[t])
  <2>1. PICK m \in Alive :
          /\ Main(m) /\ Called("register", name[t], round[m])
          /\ \A k \in 1 .. round[m] : Script[k] = Call("wait", name[t]) =>
                m \in ToSet(waitQ[t])
    BY <1>4, AwaitedBy
  <2>2. m = current
    BY <1>3, <2>1 DEF Main
  <2>3. t \in WaitQueue
    BY TaskAssumption, QueuesOfTasks DEF AInv, MInv, IInv
  <2>4. current \notin ToSet(waitQ[t])
    BY <1>1, <2>3 DEF Waiting
  <2> QED  BY <2>1, <2>2, <2>4
<1> QED  BY <1>1, <1>2, <1>3, <1>4

-----------------------------------------------------------------------------
(* Steps that neither start nor end a task, nor let AMain go on. *)
LEMMA TasksKept ==
    ASSUME AInv, Alive' = Alive, name' = name,
           \A t \in Alive : waitQ'[t] = waitQ[t],
           \A t \in Alive : name[t] = InitName => round'[t] = round[t],
           \/ mutex' = mutex /\ valid \subseteq valid'
           \/ mutex' \in valid' \/ mutex' # AppMutex
           \/ \A t \in Alive : name[t] = InitName => Called("register", Destroyer, round[t])
    PROVE  OneEach' /\ Awaited' /\ MutexKept'
<1>1. OneEach'
  BY DEF AInv, OneEach
<1>2. ASSUME NEW t \in Alive, name[t] # InitName
      PROVE  \E m \in Alive :
                /\ name'[m] = InitName
                /\ Called("register", name'[t], round'[m])
                /\ \A k \in 1 .. round'[m] : Script[k] = Call("wait", name'[t]) =>
                     k = round'[m] /\ m \in ToSet(waitQ'[t])
  <2>1. PICK m \in Alive :
          /\ name[m] = InitName
          /\ Called("register", name[t], round[m])
          /\ \A k \in 1 .. round[m] : Script[k] = Call("wait", name[t]) =>
                k = round[m] /\ m \in ToSet(waitQ[t])
    BY <1>2 DEF AInv, Awaited
  <2>2. round'[m] = round[m] /\ waitQ'[t] = waitQ[t]
    BY <2>1
  <2> QED  BY <2>1, <2>2
<1>3. Awaited'
  BY <1>2 DEF Awaited, Called
<1>4. \A t \in Alive : name[t] = InitName =>
         (Called("register", Destroyer, round[t]) => Called("register", Destroyer, round'[t]))
  BY DEF Called
<1>5. MutexKept'
  BY <1>4 DEF AInv, MutexKept, Called
<1> QED  BY <1>1, <1>3, <1>5

(* A task whose own place and section stay as they were, and that has not   *)
(* loaded i if i changes.                                                   *)
Loaded(t) == t \in WorkerTasks /\ pc[t] = "store" /\ mutex # NoMutex

Bystander(t) ==
    /\ pc'[t] = pc[t] /\ round'[t] = round[t]
    /\ phase'[t] = phase[t] /\ at'[t] = at[t] /\ stray'[t] = stray[t]
    /\ eax'[t] = eax[t] \/ eax'[t] = 0
    /\ i' = i \/ ~ Loaded(t)

LEMMA BystanderKeeps ==
    ASSUME AInv, NEW t \in Task, Bystander(t),
           t \in Alive' <=> t \in Alive, name'[t] = name[t],
           t \in WorkerTasks => mutex' = mutex /\ (mutex \notin valid => mutex \notin valid'),
           t \in Alive /\ name[t] = Creator => valid \subseteq valid'
    PROVE  TaskStory(t)'
<1>1. PhaseAt(t) /\ WorkerStory(t) /\ CreatorStory(t) /\ MainStory(t) /\ NewStory(t)
  BY DEF AInv, TaskStory
<1>2. t \in WorkerTasks' <=> t \in WorkerTasks
  BY DEF WorkerTasks
<1>3. PhaseAt(t)'
  BY <1>1, <1>2 DEF PhaseAt, Bystander
<1>4. WorkerStory(t)'
  BY <1>1, <1>2 DEF WorkerStory, Bystander, Loaded
<1>5. CreatorStory(t)'
  BY <1>1 DEF CreatorStory, Bystander
<1>6. MainStory(t)' /\ NewStory(t)'
  BY <1>1 DEF MainStory, Main, NewStory, Bystander
<1> QED  BY <1>3, <1>4, <1>5, <1>6 DEF TaskStory

(* A step of one task, or of the timer: the tasks stay the same, and each   *)
(* is a bystander or its own story goes on.  Only the creator and the       *)
(* destroyer change what the mutex is.                                      *)
LEMMA LocalKeeps ==
    ASSUME AInv, MInv', AppTypes', Alive' = Alive, name' = name,
           \A t \in Task : waitQ'[t] = waitQ[t],
           \A t \in Task : name[t] = InitName => round'[t] = round[t],
           \A t \in Task : Bystander(t) \/ TaskStory(t)',
           \/ mutex' = mutex /\ valid' = valid
           \/ \E c \in Alive : /\ name[c] = Creator /\ valid \subseteq valid'
                               /\ mutex' \in {mutex, NoMutex} \cup valid'
           \/ \E c \in Alive : name[c] = Destroyer /\ mutex' = mutex
    PROVE  AInv'
<1>1. Alive \subseteq Task /\ \A t \in WorkerTasks : t \in Alive /\ name[t] \in ToSet(Workers)
  BY QueuesOfTasks DEF AInv, MInv, IInv, WorkerTasks
<1>2. /\ Creator # Destroyer /\ Creator # InitName /\ Destroyer # InitName
      /\ Creator \notin ToSet(Workers) /\ InitName \notin ToSet(Workers)
      /\ NoMutex # AppMutex
  BY NamesDiffer, Values, AppAssumption
<1>3. CASE mutex' = mutex /\ valid' = valid
  <2>1. OneEach' /\ Awaited' /\ MutexKept'
    BY <1>1, <1>3, TasksKept
  <2>2. ASSUME NEW t \in Task  PROVE  TaskStory(t)'
    BY <1>3, <2>2, BystanderKeeps
  <2> QED  BY <2>1, <2>2 DEF AInv
<1>4. ASSUME NEW c \in Alive, name[c] = Creator, valid \subseteq valid',
             mutex' \in {mutex, NoMutex} \cup valid'
      PROVE  AInv'
  <2>1. OneEach' /\ Awaited' /\ MutexKept'
    BY <1>1, <1>2, <1>4, TasksKept
  <2>2. WorkerTasks = {}
    BY <1>1, <1>2, <1>4, CreatorAlone
  <2>3. ASSUME NEW t \in Task  PROVE  TaskStory(t)'
    BY <1>4, <2>2, <2>3, BystanderKeeps
  <2> QED  BY <2>1, <2>3 DEF AInv
<1>5. ASSUME NEW c \in Alive, name[c] = Destroyer, mutex' = mutex
      PROVE  AInv'
  <2>1. PICK m \in Alive : Main(m) /\ Called("register", Destroyer, round[m])
    BY <1>2, <1>5, AwaitedBy
  <2>2. \A t \in Alive : name[t] = InitName => t = m
    BY <2>1 DEF AInv, OneEach, Main
  <2>3. OneEach' /\ Awaited' /\ MutexKept'
    BY <1>1, <2>1, <2>2, TasksKept
  <2>4. WorkerTasks = {}
    BY <1>5, NoWorkerWithDestroyer
  <2>5. \A t \in Alive : name[t] # Creator
    BY <1>2, <1>5, CreatorAlone
  <2>6. ASSUME NEW t \in Task  PROVE  TaskStory(t)'
    BY <2>4, <2>5, <2>6, BystanderKeeps
  <2> QED  BY <2>3, <2>6 DEF AInv
<1> QED  BY <1>3, <1>4, <1>5

(* The current task, and what its story says. *)
LEMMA CurrentTask ==
    ASSUME AInv, current # Idle
    PROVE  /\ current \in Task /\ current \in Alive
           /\ TaskStory(current) /\ IInv /\ ClientTypes /\ AppTypes
<1>1. IInv /\ ClientTypes
  BY DEF AInv, MInv
<1>2. current \in Task /\ current \in Alive
  BY <1>1, CurrentWaitsNowhere, CurrentLeaves
<1> QED  BY <1>1, <1>2 DEF AInv

(* What a new label changes. *)
LEMMA GotoChangesOne ==
    ASSUME AppTypes, current \in Task, NEW l \in Label, Goto(l)
    PROVE  /\ pc' \in [Task -> Label] /\ pc'[current] = l
           /\ \A t \in Task \ {current} : pc'[t] = pc[t]
BY DEF AppTypes, Goto

-----------------------------------------------------------------------------
(* AMain prints i. *)
LEMMA PrintKeeps == AInv /\ MainPrint => AInv'
<1> SUFFICES ASSUME AInv, MainPrint  PROVE  AInv'
  OBVIOUS
<1>1. /\ current # Idle /\ name[current] = InitName
      /\ pc[current] = "entry" /\ round[current] = Len(Script)
      /\ Goto("end") /\ UNCHANGED sysVars /\ UNCHANGED <<mutex, i, round>>
  BY DEF MainPrint, Runs, At
<1>2. /\ current \in Task /\ current \in Alive /\ TaskStory(current)
      /\ IInv /\ ClientTypes /\ AppTypes
  BY <1>1, CurrentTask
<1>3. /\ pc' \in [Task -> Label] /\ pc'[current] = "end"
      /\ \A t \in Task \ {current} : pc'[t] = pc[t]
  BY <1>1, <1>2, GotoChangesOne DEF Label
<1>4. MInv'
  BY <1>1, ClientNextKeeps DEF AInv
<1>5. /\ pool' = pool /\ name' = name /\ waitQ' = waitQ /\ valid' = valid /\ eax' = eax
      /\ phase' = phase /\ at' = at /\ stray' = stray /\ Alive' = Alive
      /\ current' = current
  BY <1>1 DEF sysVars, schedVars, mutexVars, clientVars, Alive
<1>6. AppTypes'
  BY <1>1, <1>2, <1>3, <1>5 DEF AppTypes
<1>7. TaskStory(current)'
  <2>1. current \notin WorkerTasks /\ current \notin WorkerTasks' /\ name[current] # Creator
    BY <1>1, <1>5, NamesDiffer DEF WorkerTasks
  <2>2. phase[current] = "out"
    BY <1>2, <2>1 DEF TaskStory, PhaseAt
  <2>3. PhaseAt(current)' /\ WorkerStory(current)' /\ CreatorStory(current)'
    BY <1>5, <2>1, <2>2 DEF PhaseAt, WorkerStory, CreatorStory
  <2>4. MainStory(current)' /\ NewStory(current)'
    BY <1>1, <1>2, <1>3, <1>5 DEF TaskStory, MainStory, NewStory, Main
  <2> QED  BY <2>3, <2>4 DEF TaskStory
<1>8. \A t \in Task : Bystander(t) \/ TaskStory(t)'
  BY <1>1, <1>3, <1>5, <1>7 DEF Bystander
<1> QED  BY <1>1, <1>4, <1>5, <1>6, <1>8, LocalKeeps

(* The creator asks for the mutex. *)
LEMMA CreatorCallsKeep == AInv /\ CreatorCalls => AInv'
<1> SUFFICES ASSUME AInv, CreatorCalls  PROVE  AInv'
  OBVIOUS
<1>1. /\ current # Idle /\ name[current] = Creator /\ pc[current] = "entry"
      /\ Create(AppMutex, "Strict") /\ Goto("returned")
      /\ UNCHANGED <<mutex, i, round>>
  BY DEF CreatorCalls, Runs, At
<1>2. /\ current \in Task /\ current \in Alive /\ TaskStory(current)
      /\ IInv /\ ClientTypes /\ AppTypes
  BY <1>1, CurrentTask
<1>3. /\ pc' \in [Task -> Label] /\ pc'[current] = "returned"
      /\ \A t \in Task \ {current} : pc'[t] = pc[t]
  BY <1>1, <1>2, GotoChangesOne DEF Label
<1>4. MInv'
  BY <1>1, AppAssumption, CreateKeeps DEF AInv, MutexType
<1>5. /\ valid' = valid \cup {AppMutex}
      /\ waitQ' = [waitQ EXCEPT ![AppMutex] = <<>>]
      /\ UNCHANGED <<pool, name, current, phase, at, stray>> /\ Alive' = Alive
      /\ Return(AppMutex)
  BY <1>1 DEF Create, CreateMutex, clientVars, Alive
<1>6. \A t \in Task : waitQ'[t] = waitQ[t]
  BY <1>2, <1>5, AppAssumption, MutexIsNoTask, TaskAssumption DEF IInv, TypeOK
<1>7. eax'[current] = AppMutex /\ \A t \in Task \ {current} : eax'[t] = eax[t]
  BY <1>2, <1>5, AppAssumption, Values, ReturnChangesOne
<1>8. AppTypes'
  BY <1>1, <1>2, <1>3, <1>5 DEF AppTypes
<1>9. TaskStory(current)'
  <2>1. current \notin WorkerTasks /\ current \notin WorkerTasks' /\ name[current] # InitName
    BY <1>1, <1>5, NamesDiffer DEF WorkerTasks
  <2>2. phase[current] = "out"
    BY <1>2, <2>1 DEF TaskStory, PhaseAt
  <2>3. PhaseAt(current)' /\ WorkerStory(current)' /\ CreatorStory(current)'
    BY <1>5, <1>7, <2>1, <2>2 DEF PhaseAt, WorkerStory, CreatorStory
  <2>4. MainStory(current)' /\ NewStory(current)'
    BY <1>2, <1>5, <2>1 DEF MainStory, NewStory, Main
  <2> QED  BY <2>3, <2>4 DEF TaskStory
<1>10. \A t \in Task : Bystander(t) \/ TaskStory(t)'
  BY <1>1, <1>3, <1>5, <1>7, <1>9 DEF Bystander
<1>11. valid \subseteq valid' /\ mutex' \in {mutex, NoMutex} \cup valid'
  BY <1>1, <1>5
<1> QED  BY <1>1, <1>2, <1>4, <1>5, <1>6, <1>8, <1>10, <1>11, LocalKeeps

(* The creator stores its result, or the 0 that has overwritten it. *)
LEMMA CreatorStoresKeep == AInv /\ CreatorStores => AInv'
<1> SUFFICES ASSUME AInv, CreatorStores  PROVE  AInv'
  OBVIOUS
<1>1. /\ current # Idle /\ name[current] = Creator /\ pc[current] = "returned"
      /\ mutex' = (IF eax[current] = 0 THEN NoMutex ELSE eax[current])
      /\ Goto("end") /\ UNCHANGED sysVars /\ UNCHANGED <<i, round>>
  BY DEF CreatorStores, Runs, At
<1>2. /\ current \in Task /\ current \in Alive /\ TaskStory(current)
      /\ IInv /\ ClientTypes /\ AppTypes
  BY <1>1, CurrentTask
<1>3. /\ pc' \in [Task -> Label] /\ pc'[current] = "end"
      /\ \A t \in Task \ {current} : pc'[t] = pc[t]
  BY <1>1, <1>2, GotoChangesOne DEF Label
<1>4. MInv'
  BY <1>1, ClientNextKeeps DEF AInv
<1>5. /\ pool' = pool /\ name' = name /\ waitQ' = waitQ /\ valid' = valid /\ eax' = eax
      /\ phase' = phase /\ at' = at /\ stray' = stray /\ Alive' = Alive
      /\ current' = current
  BY <1>1 DEF sysVars, schedVars, mutexVars, clientVars, Alive
<1>6. AppMutex \in valid /\ eax[current] \in {0, AppMutex}
  BY <1>1, <1>2 DEF TaskStory, CreatorStory
<1>7. mutex' \in {NoMutex, AppMutex} /\ mutex' \in {mutex, NoMutex} \cup valid'
  BY <1>1, <1>5, <1>6
<1>8. AppTypes'
  BY <1>1, <1>2, <1>3, <1>5, <1>7 DEF AppTypes
<1>9. TaskStory(current)'
  <2>1. current \notin WorkerTasks /\ current \notin WorkerTasks' /\ name[current] # InitName
    BY <1>1, <1>5, NamesDiffer DEF WorkerTasks
  <2>2. phase[current] = "out"
    BY <1>2, <2>1 DEF TaskStory, PhaseAt
  <2>3. PhaseAt(current)' /\ WorkerStory(current)' /\ CreatorStory(current)'
    BY <1>3, <1>5, <2>1, <2>2 DEF PhaseAt, WorkerStory, CreatorStory
  <2>4. MainStory(current)' /\ NewStory(current)'
    BY <1>2, <1>5, <2>1 DEF MainStory, NewStory, Main
  <2> QED  BY <2>3, <2>4 DEF TaskStory
<1>10. \A t \in Task : Bystander(t) \/ TaskStory(t)'
  BY <1>1, <1>3, <1>5, <1>9 DEF Bystander
<1> QED  BY <1>1, <1>2, <1>4, <1>5, <1>7, <1>8, <1>10, LocalKeeps

(* The destroyer destroys the mutex, unless it is taken. *)
LEMMA DestroyerKeeps == AInv /\ DestroyerCalls => AInv'
<1> SUFFICES ASSUME AInv, DestroyerCalls  PROVE  AInv'
  OBVIOUS
<1>1. /\ current # Idle /\ name[current] = Destroyer /\ pc[current] = "entry"
      /\ Destroy(mutex) /\ Goto("end") /\ UNCHANGED <<mutex, i, round>>
  BY DEF DestroyerCalls, Runs, At
<1>2. /\ current \in Task /\ current \in Alive /\ TaskStory(current)
      /\ IInv /\ ClientTypes /\ AppTypes
  BY <1>1, CurrentTask
<1>3. /\ pc' \in [Task -> Label] /\ pc'[current] = "end"
      /\ \A t \in Task \ {current} : pc'[t] = pc[t]
  BY <1>1, <1>2, GotoChangesOne DEF Label
<1>4. MInv'
  <2>1. mutex \in Handle
    BY <1>2, AppAssumption DEF AppTypes, Handle
  <2> QED  BY <1>1, <2>1, DestroyKeeps DEF AInv
<1> DEFINE result == IF MayDestroy(mutex) THEN 1 ELSE 0
<1>5. /\ valid' \subseteq valid /\ UNCHANGED schedVars
      /\ UNCHANGED <<pool, name, waitQ, current, phase, at, stray>> /\ Alive' = Alive
      /\ Return(result)
  BY <1>1 DEF Destroy, DestroyMutex, clientVars, schedVars, Alive
<1>6. \A t \in Task \ {current} : eax'[t] = eax[t]
  <2>1. result \in Result
    BY Values
  <2> HIDE DEF result
  <2> QED  BY <1>2, <1>5, <2>1, ReturnChangesOne
<1>7. AppTypes'
  BY <1>1, <1>2, <1>3, <1>5 DEF AppTypes
<1>8. TaskStory(current)'
  <2>1. /\ current \notin WorkerTasks /\ current \notin WorkerTasks'
        /\ name[current] # InitName /\ name[current] # Creator
    BY <1>1, <1>5, NamesDiffer DEF WorkerTasks
  <2>2. phase[current] = "out"
    BY <1>2, <2>1 DEF TaskStory, PhaseAt
  <2>3. PhaseAt(current)' /\ WorkerStory(current)' /\ CreatorStory(current)'
    BY <1>5, <2>1, <2>2 DEF PhaseAt, WorkerStory, CreatorStory
  <2>4. MainStory(current)' /\ NewStory(current)'
    BY <1>2, <1>5, <2>1 DEF MainStory, NewStory, Main
  <2> QED  BY <2>3, <2>4 DEF TaskStory
<1>9. \A t \in Task : Bystander(t) \/ TaskStory(t)'
  BY <1>1, <1>3, <1>5, <1>6, <1>8 DEF Bystander
<1> QED  BY <1>1, <1>2, <1>4, <1>5, <1>7, <1>9, LocalKeeps

(* The calls of EnterCritical and ExitCritical leave the tasks, their wait  *)
(* queues and the list of mutexes alone, and change the result of no other  *)
(* task.                                                                    *)
LEMMA EnterChanges ==
    ASSUME AInv, NEW m \in Handle, CallEnter(m)
    PROVE  /\ current \in Task /\ current \in Alive
           /\ pool' = pool /\ name' = name /\ valid' = valid
           /\ \A t \in Task : waitQ'[t] = waitQ[t]
           /\ \A t \in Task \ {current} : eax'[t] = eax[t]
           /\ phase'[current] = "returned" /\ at'[current] = m
           /\ stray'[current] = (m \notin valid)
           /\ \A t \in Task \ {current} :
                phase'[t] = phase[t] /\ at'[t] = at[t] /\ stray'[t] = stray[t]
<1>1. EnterCritical(m) /\ current # Idle
  BY DEF CallEnter, EnterCritical
<1>2. current \in Task /\ current \in Alive /\ IInv /\ ClientTypes
  BY <1>1, CurrentTask
<1>3. /\ phase'[current] = "returned" /\ at'[current] = m
      /\ stray'[current] = (m \notin valid)
      /\ \A t \in Task \ {current} :
           phase'[t] = phase[t] /\ at'[t] = at[t] /\ stray'[t] = stray[t]
  BY <1>2, ClientChangesOne DEF CallEnter
<1>4. CASE EnterInvalid(m) \/ EnterTaken(m)
  <2>1. UNCHANGED schedVars /\ valid' = valid /\ Return(1)
    BY <1>4 DEF EnterInvalid, EnterTaken, mutexVars
  <2>2. pool' = pool /\ name' = name /\ waitQ' = waitQ /\ current' = current
    BY <2>1 DEF schedVars
  <2>3. \A t \in Task \ {current} : eax'[t] = eax[t]
    BY <1>2, <2>1, <2>2, Values, ReturnChangesOne
  <2> QED  BY <1>2, <1>3, <2>1, <2>2, <2>3
<1>5. CASE EnterBlocked(m)
  <2>1. /\ m \in MutexAddr /\ Block(m) /\ valid' = valid
        /\ eax' = [eax EXCEPT ![current] = 0]
    BY <1>2, <1>5 DEF EnterBlocked, mutexVars, ClientTypes
  <2>2. pool' = pool /\ name' = name
    BY <2>1 DEF Block
  <2>3. waitQ' = [waitQ EXCEPT ![m] = Append(@, current)] \/ waitQ' = waitQ
    BY <2>1 DEF Block
  <2>4. \A t \in Task : waitQ'[t] = waitQ[t]
    BY <1>2, <2>1, <2>3, MutexIsNoTask, TaskAssumption DEF IInv, TypeOK
  <2>5. \A t \in Task \ {current} : eax'[t] = eax[t]
    BY <1>2, <2>1 DEF ClientTypes
  <2> QED  BY <1>2, <1>3, <2>1, <2>2, <2>4, <2>5
<1> QED  BY <1>1, <1>4, <1>5 DEF EnterCritical

LEMMA ExitChanges ==
    ASSUME AInv, NEW m \in Handle, Exit(m), ~ ExitKilled(m)
    PROVE  /\ current \in Task /\ current \in Alive
           /\ pool' = pool /\ name' = name /\ valid' = valid
           /\ \A t \in Task : waitQ'[t] = waitQ[t]
           /\ \A t \in Task \ {current} : eax'[t] = eax[t]
           /\ phase'[current] = "out"
           /\ \A t \in Task \ {current} :
                phase'[t] = phase[t] /\ at'[t] = at[t] /\ stray'[t] = stray[t]
<1>1. /\ current # Idle /\ Forget(current)
      /\ ExitInvalid(m) \/ ExitUnlocked(m)
  BY DEF Exit, ExitCritical
<1>2. current \in Task /\ current \in Alive /\ IInv /\ ClientTypes
  BY <1>1, CurrentTask
<1>3. /\ phase'[current] = "out"
      /\ \A t \in Task \ {current} :
           phase'[t] = phase[t] /\ at'[t] = at[t] /\ stray'[t] = stray[t]
  BY <1>1, <1>2, ForgetChangesOne
<1>4. /\ UNCHANGED schedVars \/ (m \in valid /\ WaitToReady(m))
      /\ valid' = valid /\ Return(0)
  BY <1>1 DEF ExitInvalid, ExitUnlocked, WakeAll, mutexVars
<1>5. /\ pool' = pool /\ name' = name /\ current' = current
      /\ waitQ' = waitQ \/ (m \in valid /\ waitQ' = [waitQ EXCEPT ![m] = <<>>])
  BY <1>4 DEF schedVars, WaitToReady
<1>6. \A t \in Task : waitQ'[t] = waitQ[t]
  BY <1>2, <1>5, MutexIsNoTask, TaskAssumption DEF IInv, TypeOK, ClientTypes
<1>7. \A t \in Task \ {current} : eax'[t] = eax[t]
  BY <1>2, <1>4, <1>5, Values, ReturnChangesOne
<1> QED  BY <1>2, <1>3, <1>4, <1>5, <1>6, <1>7

-----------------------------------------------------------------------------
(* A step of the worker c: what is left to show is its place and its        *)
(* section.                                                                 *)
LEMMA WorkerKeeps ==
    ASSUME AInv, MInv', i' \in Nat, NEW c \in WorkerTasks, NEW l \in Label,
           pool' = pool, name' = name, mutex' = mutex, valid' = valid,
           \A t \in Task : waitQ'[t] = waitQ[t],
           pc' = [pc EXCEPT ![c] = l],
           round' \in [Task -> Nat],
           \A t \in Task \ {c} :
              /\ round'[t] = round[t]
              /\ phase'[t] = phase[t] /\ at'[t] = at[t] /\ stray'[t] = stray[t]
              /\ eax'[t] = eax[t] \/ eax'[t] = 0
              /\ i' = i \/ ~ Loaded(t),
           phase'[c] = (IF l = "returned" THEN "returned"
                        ELSE IF l \in {"load", "store", "leave"} THEN "in" ELSE "out"),
           phase'[c] # "out" => at'[c] = mutex /\ (stray'[c] => mutex \notin valid),
           l = "store" => eax'[c] \in Nat /\ eax'[c] = i'
    PROVE  AInv'
<1>1. /\ Alive' = Alive /\ c \in Task /\ c \in Alive /\ name[c] \in ToSet(Workers)
      /\ WorkerTasks' = WorkerTasks
  BY QueuesOfTasks DEF AInv, MInv, IInv, WorkerTasks, Alive
<1>2. name[c] # InitName /\ name[c] # Creator
  BY <1>1, NamesDiffer
<1>3. /\ pc' \in [Task -> Label] /\ pc'[c] = l
      /\ \A t \in Task \ {c} : pc'[t] = pc[t]
  BY <1>1 DEF AInv, AppTypes
<1>4. AppTypes'
  BY <1>3 DEF AInv, AppTypes
<1>5. TaskStory(c)'
  <2>1. PhaseAt(c)'
    BY <1>1, <1>3 DEF PhaseAt
  <2>2. WorkerStory(c)'
    BY <1>3 DEF WorkerStory
  <2>3. CreatorStory(c)' /\ MainStory(c)' /\ NewStory(c)'
    BY <1>1, <1>2 DEF CreatorStory, MainStory, Main, NewStory
  <2> QED  BY <2>1, <2>2, <2>3 DEF TaskStory
<1>6. \A t \in Task : Bystander(t) \/ TaskStory(t)'
  BY <1>3, <1>5 DEF Bystander
<1>7. \A t \in Task : name[t] = InitName => round'[t] = round[t]
  BY <1>2
<1> QED  BY <1>1, <1>4, <1>6, <1>7, LocalKeeps

(* The current worker, and what its story says of its section. *)
LEMMA CurrentWorker ==
    ASSUME AInv, Worker
    PROVE  /\ current # Idle /\ current \in Task /\ current \in WorkerTasks
           /\ IInv /\ ClientTypes /\ AppTypes /\ mutex \in Handle
           /\ PhaseAt(current) /\ WorkerStory(current)
<1>1. current # Idle /\ name[current] \in ToSet(Workers)
  BY DEF Worker
<1>2. /\ current \in Task /\ current \in Alive
      /\ TaskStory(current) /\ IInv /\ ClientTypes /\ AppTypes
  BY <1>1, CurrentTask
<1>3. mutex \in Handle
  BY <1>2, AppAssumption DEF AppTypes, Handle
<1> QED  BY <1>1, <1>2, <1>3 DEF TaskStory, WorkerTasks

(* A worker enters, or enters again after a result of 0. *)
LEMMA EntersKeep == AInv /\ (WorkerEnters \/ WorkerRetries) => AInv'
<1> SUFFICES ASSUME AInv, WorkerEnters \/ WorkerRetries  PROVE  AInv'
  OBVIOUS
<1>1. Worker /\ mutex' = mutex /\ i' = i /\ round' = round
  BY DEF WorkerEnters, WorkerRetries, appVars
<1>2. PICK c \in WorkerTasks :
        /\ c = current /\ c \in Task /\ mutex \in Handle
        /\ IInv /\ ClientTypes /\ AppTypes /\ PhaseAt(c) /\ WorkerStory(c)
  BY <1>1, CurrentWorker
<1>3. CallEnter(mutex) /\ pc' = [pc EXCEPT ![c] = "returned"]
  <2>1. CASE WorkerEnters
    BY <1>2, <2>1 DEF WorkerEnters, Enter, Goto
  <2>2. CASE WorkerRetries
    <3>1. pc[c] = "returned" /\ phase[c] = "returned" /\ CallEnter(at[c]) /\ pc' = pc
      BY <1>2, <2>2 DEF WorkerRetries, Retry, At, appVars
    <3>2. at[c] = mutex
      BY <1>2, <3>1 DEF WorkerStory
    <3> QED  BY <1>2, <3>1, <3>2 DEF AppTypes
  <2> QED  BY <2>1, <2>2
<1>4. MInv'
  BY <1>2, <1>3, CallEnterKeeps DEF AInv
<1>5. /\ pool' = pool /\ name' = name /\ valid' = valid
      /\ \A t \in Task : waitQ'[t] = waitQ[t]
      /\ phase'[c] = "returned" /\ at'[c] = mutex /\ stray'[c] = (mutex \notin valid)
      /\ \A t \in Task \ {c} :
           /\ phase'[t] = phase[t] /\ at'[t] = at[t] /\ stray'[t] = stray[t]
           /\ eax'[t] = eax[t]
  BY <1>2, <1>3, EnterChanges
<1>6. i' \in Nat /\ round' \in [Task -> Nat]
  BY <1>1, <1>2 DEF AppTypes
<1> QED  BY <1>1, <1>3, <1>4, <1>5, <1>6, WorkerKeeps DEF Label

(* The section begins. *)
LEMMA GrantedKeepsApp == AInv /\ WorkerGranted => AInv'
<1> SUFFICES ASSUME AInv, WorkerGranted  PROVE  AInv'
  OBVIOUS
<1>1. /\ Worker /\ Granted /\ mutex' = mutex /\ i' = i /\ round' = round
      /\ pc[current] = "returned" /\ pc' = [pc EXCEPT ![current] = "load"]
  BY DEF WorkerGranted, At, Goto
<1>2. PICK c \in WorkerTasks :
        /\ c = current /\ c \in Task
        /\ IInv /\ ClientTypes /\ AppTypes /\ PhaseAt(c) /\ WorkerStory(c)
  BY <1>1, CurrentWorker
<1>3. MInv'
  BY <1>1, GrantedKeeps DEF AInv
<1>4. /\ phase[c] = "returned" /\ phase' = [phase EXCEPT ![c] = "in"]
      /\ UNCHANGED schedVars /\ valid' = valid /\ eax' = eax
      /\ at' = at /\ stray' = stray
  BY <1>1, <1>2 DEF Granted, mutexVars
<1>5. pool' = pool /\ name' = name /\ waitQ' = waitQ
  BY <1>4 DEF schedVars
<1>6. phase'[c] = "in" /\ \A t \in Task \ {c} : phase'[t] = phase[t]
  BY <1>2, <1>4 DEF ClientTypes
<1>7. at'[c] = mutex /\ (stray'[c] => mutex \notin valid)
  BY <1>2, <1>4 DEF WorkerStory
<1>8. i' \in Nat /\ round' \in [Task -> Nat]
  BY <1>1, <1>2 DEF AppTypes
<1> QED  BY <1>1, <1>2, <1>3, <1>4, <1>5, <1>6, <1>7, <1>8, WorkerKeeps DEF Label

(* i is read into a register of the worker. *)
LEMMA LoadsKeep == AInv /\ WorkerLoads => AInv'
<1> SUFFICES ASSUME AInv, WorkerLoads  PROVE  AInv'
  OBVIOUS
<1>1. /\ Worker /\ pc[current] = "load" /\ pc' = [pc EXCEPT ![current] = "store"]
      /\ eax' = [eax EXCEPT ![current] = i]
      /\ UNCHANGED schedVars /\ UNCHANGED mutexVars /\ UNCHANGED clientVars
      /\ mutex' = mutex /\ i' = i /\ round' = round
  BY DEF WorkerLoads, At, Goto
<1>2. PICK c \in WorkerTasks :
        /\ c = current /\ c \in Task
        /\ IInv /\ ClientTypes /\ AppTypes /\ PhaseAt(c) /\ WorkerStory(c)
  BY <1>1, CurrentWorker
<1>3. /\ pool' = pool /\ name' = name /\ waitQ' = waitQ /\ valid' = valid
      /\ lock' = lock /\ mtype' = mtype
      /\ phase' = phase /\ at' = at /\ stray' = stray
  BY <1>1 DEF schedVars, mutexVars, clientVars
<1>4. i \in Nat /\ round' \in [Task -> Nat]
  BY <1>1, <1>2 DEF AppTypes
<1>5. /\ eax' \in [Task -> Result] /\ eax'[c] = i
      /\ \A t \in Task \ {c} : eax'[t] = eax[t]
  BY <1>1, <1>2, <1>4 DEF ClientTypes, Result
<1>6. phase[c] = "in" /\ at[c] = mutex /\ (stray[c] => mutex \notin valid)
  BY <1>1, <1>2 DEF PhaseAt, WorkerStory
<1>7. MInv'
  <2>1. IInv'
    BY <1>1, <1>2, NextKeeps
  <2>2. ClientTypes'
    BY <1>2, <1>3, <1>5 DEF ClientTypes
  <2>3. \A t \in Task : phase[t] = "returned" /\ eax'[t] # 0 => eax[t] # 0
    BY <1>5, <1>6
  <2>4. MInv
    BY DEF AInv
  <2> QED  BY <1>1, <1>3, <2>1, <2>2, <2>3, <2>4, QuietKeeps
<1> QED  BY <1>1, <1>2, <1>3, <1>4, <1>5, <1>6, <1>7, WorkerKeeps DEF Label

(* A worker in its section owns the mutex, if there is one. *)
LEMMA SectionOwned ==
    ASSUME AInv, NEW t \in WorkerTasks, phase[t] = "in", mutex \in valid
    PROVE  lock[mutex] = t
<1>1. t \in Task /\ SectionIsLocked
  BY QueuesOfTasks DEF AInv, MInv, IInv, WorkerTasks
<1>2. WorkerStory(t)
  BY <1>1 DEF AInv, TaskStory
<1>3. at[t] = mutex /\ ~ stray[t]
  BY <1>2 DEF WorkerStory
<1> QED  BY <1>1, <1>3 DEF SectionIsLocked

(* MutexStrictExit kills no worker that leaves. *)
LEMMA OwnerLeaves ==
    ASSUME AInv, NEW t \in WorkerTasks, pc[t] \in {"load", "store", "leave"}
    PROVE  phase[t] = "in" /\ (mutex \in valid => lock[mutex] = t)
<1>1. t \in Task
  BY QueuesOfTasks DEF AInv, MInv, IInv, WorkerTasks
<1>2. PhaseAt(t)
  BY <1>1 DEF AInv, TaskStory
<1>3. phase[t] = "in"
  BY <1>2 DEF PhaseAt
<1> QED  BY <1>3, SectionOwned

(* Two workers are not between load and store together. *)
LEMMA OneLoads ==
    ASSUME AInv, NEW c \in WorkerTasks, NEW t \in WorkerTasks,
           pc[c] = "store", pc[t] = "store", mutex # NoMutex
    PROVE  t = c
<1>1. mutex \in valid
  BY MutexThere DEF AInv, AppTypes
<1> QED  BY <1>1, OwnerLeaves

(* One more is stored. *)
LEMMA StoresKeep == AInv /\ WorkerStores => AInv'
<1> SUFFICES ASSUME AInv, WorkerStores  PROVE  AInv'
  OBVIOUS
<1>1. /\ Worker /\ pc[current] = "store" /\ pc' = [pc EXCEPT ![current] = "leave"]
      /\ i' = eax[current] + 1 /\ UNCHANGED sysVars
      /\ mutex' = mutex /\ round' = round
  BY DEF WorkerStores, At, Goto
<1>2. PICK c \in WorkerTasks :
        /\ c = current /\ c \in Task
        /\ IInv /\ ClientTypes /\ AppTypes /\ PhaseAt(c) /\ WorkerStory(c)
  BY <1>1, CurrentWorker
<1>3. /\ pool' = pool /\ name' = name /\ waitQ' = waitQ /\ valid' = valid
      /\ eax' = eax /\ phase' = phase /\ at' = at /\ stray' = stray
  BY <1>1 DEF sysVars, schedVars, mutexVars, clientVars
<1>4. i' \in Nat /\ round' \in [Task -> Nat]
  BY <1>1, <1>2 DEF AppTypes, WorkerStory
<1>5. phase[c] = "in" /\ at[c] = mutex /\ (stray[c] => mutex \notin valid)
  BY <1>1, <1>2 DEF PhaseAt, WorkerStory
<1>6. MInv'
  BY <1>1, ClientNextKeeps DEF AInv
<1>7. ASSUME NEW t \in Task \ {c}  PROVE  ~ Loaded(t)
  BY <1>1, <1>2, <1>7, OneLoads DEF Loaded
<1> QED  BY <1>1, <1>2, <1>3, <1>4, <1>5, <1>6, <1>7, WorkerKeeps DEF Label

LEMMA LeavesKeep == AInv /\ WorkerLeaves => AInv'
<1> SUFFICES ASSUME AInv, WorkerLeaves  PROVE  AInv'
  OBVIOUS
<1> DEFINE l == IF round[current] + 1 = Rounds THEN "end" ELSE "entry"
<1>1. /\ Worker /\ pc[current] = "leave" /\ Exit(mutex)
      /\ pc' = [pc EXCEPT ![current] = l]
      /\ round' = [round EXCEPT ![current] = @ + 1]
      /\ mutex' = mutex /\ i' = i
  BY DEF WorkerLeaves, At, Goto
<1>2. PICK c \in WorkerTasks :
        /\ c = current /\ c \in Task /\ mutex \in Handle
        /\ IInv /\ ClientTypes /\ AppTypes
  BY <1>1, CurrentWorker
<1>3. ~ ExitKilled(mutex)
  BY <1>1, <1>2, OwnerLeaves DEF ExitKilled, MayExit
<1>4. MInv'
  BY <1>1, <1>2, ExitKeeps DEF AInv
<1>5. /\ pool' = pool /\ name' = name /\ valid' = valid
      /\ \A t \in Task : waitQ'[t] = waitQ[t]
      /\ phase'[c] = "out"
      /\ \A t \in Task \ {c} :
           /\ phase'[t] = phase[t] /\ at'[t] = at[t] /\ stray'[t] = stray[t]
           /\ eax'[t] = eax[t]
  BY <1>1, <1>2, <1>3, ExitChanges
<1>6. /\ i' \in Nat /\ round' \in [Task -> Nat]
      /\ \A t \in Task \ {c} : round'[t] = round[t]
  BY <1>1, <1>2 DEF AppTypes
<1>7. l \in Label /\ l \in {"end", "entry"}
  BY DEF Label
<1> HIDE DEF l
<1> QED  BY <1>1, <1>2, <1>4, <1>5, <1>6, <1>7, WorkerKeeps

-----------------------------------------------------------------------------
(* A timer tick. *)
LEMMA TimerKeepsApp == AInv /\ AppTimer => AInv'
<1> SUFFICES ASSUME AInv, AppTimer  PROVE  AInv'
  OBVIOUS
<1>1. Timer /\ UNCHANGED appVars
  BY DEF AppTimer
<1>2. MInv'
  BY <1>1, TaskCallKeeps DEF AInv
<1>3. /\ pool' = pool /\ name' = name /\ waitQ' = waitQ /\ valid' = valid /\ eax' = eax
      /\ phase' = phase /\ at' = at /\ stray' = stray
  BY <1>1 DEF Timer, SysTick, Tick, mutexVars, clientVars
<1>4. mutex' = mutex /\ i' = i /\ pc' = pc /\ round' = round
  BY <1>1 DEF appVars
<1>5. AppTypes' /\ Alive' = Alive
  BY <1>3, <1>4 DEF AInv, AppTypes, Alive
<1>6. \A t \in Task : Bystander(t)
  BY <1>3, <1>4 DEF Bystander
<1> QED  BY <1>2, <1>3, <1>4, <1>5, <1>6, LocalKeeps

-----------------------------------------------------------------------------
(* AMain registers the next task. *)
LEMMA MainRegisters ==
    ASSUME AInv, Runs(InitName), round[current] < Len(Script),
           NEW n \in Name \ {InitName, IdleName},
           Script[round[current] + 1] = Call("register", n),
           RegisterApp(n, InitPriority),
           round' = [round EXCEPT ![current] = @ + 1],
           mutex' = mutex, i' = i, pc' = pc
    PROVE  AInv'
<1>1. PICK c \in Alive :
        /\ c = current /\ c \in Task /\ name[c] = InitName
        /\ round[c] \in 0 .. Len(Script)
        /\ \A t \in Alive : name[t] = InitName => t = c
        /\ \A t \in Alive : name[t] # InitName =>
             /\ Called("register", name[t], round[c])
             /\ \A k \in 1 .. round[c] : Script[k] # Call("wait", name[t])
  BY MainRuns DEF Main
<1> DEFINE r == round[c]
<1>2. /\ r \in Nat /\ r + 1 \in 1 .. Len(Script) /\ Script[r + 1] = Call("register", n)
      /\ Len(Script) \in Nat
  BY <1>1, ScriptCalls
<1>3. IInv /\ ClientTypes /\ AppTypes
  BY <1>1 DEF AInv, MInv
<1>4. PICK u \in Task \ Alive :
        /\ pool' = <<u>> \o pool
        /\ name' = [name EXCEPT ![u] = n]
        /\ waitQ' = [waitQ EXCEPT ![u] = <<>>]
  BY DEF RegisterApp, SysRegister, Register
<1>5. /\ valid' = valid /\ phase' = phase /\ at' = at /\ stray' = stray
      /\ current' = current /\ Return(1)
  BY DEF RegisterApp, SysRegister, Register, mutexVars, clientVars
<1>6. MInv'
  BY PriorityAssumption, TaskCallKeeps DEF AInv
<1>7. /\ Alive' = {u} \cup Alive /\ u # c /\ name'[u] = n
      /\ \A t \in Alive : t \in Task /\ t # u
      /\ \A t \in Task \ {u} : name'[t] = name[t] /\ waitQ'[t] = waitQ[t]
  <2>1. Alive' = {u} \cup Alive
    BY <1>3, <1>4, ConsSet DEF IInv, TypeOK, Alive
  <2>2. Alive \subseteq Task
    BY <1>3, QueuesOfTasks DEF IInv
  <2>3. /\ name'[u] = n
        /\ \A t \in Task \ {u} : name'[t] = name[t] /\ waitQ'[t] = waitQ[t]
    BY <1>3, <1>4, TaskAssumption DEF IInv, TypeOK
  <2> QED  BY <1>1, <2>1, <2>2, <2>3
<1>8. /\ round'[c] = r + 1 /\ \A t \in Task \ {c} : round'[t] = round[t]
      /\ round' \in [Task -> Nat]
  BY <1>1, <1>2, <1>3 DEF AppTypes
<1>9. \A t \in Task \ {c} : eax'[t] = eax[t]
  BY <1>1, <1>3, <1>5, Values, ReturnChangesOne
<1>10. AppTypes'
  BY <1>3, <1>5, <1>8 DEF AppTypes
<1>11. \A b \in Alive : name[b] # n
  <2> SUFFICES ASSUME NEW b \in Alive, name[b] = n  PROVE  FALSE
    OBVIOUS
  <2>1. PICK k \in 1 .. r : Script[k] = Call("register", n)
    BY <1>1 DEF Called
  <2>2. k \in 1 .. Len(Script) /\ k # r + 1
    BY <1>1, <1>2
  <2> QED  BY <1>2, <2>1, <2>2, RegisteredOnce
<1>12. OneEach'
  <2>1. ASSUME NEW a \in Alive', NEW b \in Alive', name'[a] = name'[b]  PROVE  a = b
    BY <1>7, <1>11, <2>1 DEF AInv, OneEach
  <2> QED  BY <2>1 DEF OneEach
<1>13. \A op, x : Called(op, x, r) => Called(op, x, r + 1)
  BY <1>2 DEF Called
<1>14. Awaited'
  <2>1. ASSUME NEW t \in Alive', name'[t] # InitName
        PROVE  /\ Called("register", name'[t], r + 1)
               /\ \A k \in 1 .. r + 1 : Script[k] # Call("wait", name'[t])
    <3>1. CASE t = u
      <4>1. Called("register", n, r + 1)
        BY <1>2 DEF Called
      <4>2. ASSUME NEW k \in 1 .. r + 1  PROVE  Script[k] # Call("wait", n)
        <5>1. k \in 1 .. Len(Script) /\ ~ (r + 1 < k)
          BY <1>2
        <5> QED  BY <1>2, <5>1, RegisteredOnce
      <4> QED  BY <1>7, <3>1, <4>1, <4>2
    <3>2. CASE t # u
      <4>1. t \in Alive /\ name'[t] = name[t] /\ name[t] # InitName
        BY <1>7, <2>1, <3>2
      <4>2. Script[r + 1] # Call("wait", name[t])
        BY <1>2 DEF Call
      <4>3. \A k \in 1 .. r + 1 : k \in 1 .. r \/ k = r + 1
        BY <1>2
      <4> QED  BY <1>1, <1>13, <4>1, <4>2, <4>3
    <3> QED  BY <3>1, <3>2
  <2>2. c \in Alive' /\ name'[c] = InitName
    BY <1>1, <1>7
  <2> QED  BY <1>8, <2>1, <2>2 DEF Awaited, Called
<1>15. MutexKept'
  <2>1. ASSUME mutex = AppMutex, AppMutex \notin valid  PROVE  Called("register", Destroyer, r)
    BY <1>1, <2>1 DEF AInv, MutexKept
  <2>2. \A m \in Alive' : name'[m] = InitName => m = c
    BY <1>1, <1>7
  <2> QED  BY <1>5, <1>8, <1>13, <2>1, <2>2 DEF MutexKept, Called
<1>16. ASSUME NEW t \in Task  PROVE  TaskStory(t)'
  <2>1. TaskStory(t)
    BY DEF AInv
  <2>2. CASE t = c
    <3>1. /\ t \notin WorkerTasks /\ t \notin WorkerTasks' /\ name'[t] = InitName
          /\ t \in Alive /\ t \in Alive'
      BY <1>1, <1>7, <2>2, NamesDiffer DEF WorkerTasks
    <3>2. phase[t] = "out"
      BY <2>1, <3>1 DEF TaskStory, PhaseAt
    <3>3. PhaseAt(t)' /\ WorkerStory(t)'
      BY <1>5, <3>1, <3>2 DEF PhaseAt, WorkerStory
    <3>4. CreatorStory(t)' /\ NewStory(t)'
      BY <3>1, NamesDiffer DEF CreatorStory, NewStory
    <3>5. pc[t] = "entry" /\ round'[t] \in 0 .. Len(Script)
      <4>1. pc[t] \in {"entry", "end"} /\ (pc[t] = "end" => r = Len(Script))
        BY <1>1, <2>1, <2>2 DEF TaskStory, MainStory, Main
      <4> QED  BY <1>2, <1>8, <2>2, <4>1
    <3>6. MainStory(t)'
      BY <3>5 DEF MainStory
    <3> QED  BY <3>3, <3>4, <3>6 DEF TaskStory
  <2>3. CASE t = u
    <3>1. pc[t] = "entry" /\ phase[t] = "out" /\ round[t] = 0
      BY <2>1, <2>3 DEF TaskStory, NewStory, PhaseAt, WorkerTasks
    <3>2. pc'[t] = "entry" /\ phase'[t] = "out" /\ t \in Alive' /\ name'[t] # InitName
      BY <1>5, <1>7, <2>3, <3>1
    <3> QED  BY <3>2 DEF TaskStory, PhaseAt, WorkerStory, CreatorStory, MainStory, Main, NewStory
  <2>4. CASE t # c /\ t # u
    BY <1>5, <1>7, <1>8, <1>9, <2>4, BystanderKeeps DEF Bystander
  <2> QED  BY <2>2, <2>3, <2>4
<1> QED  BY <1>6, <1>10, <1>12, <1>14, <1>15, <1>16 DEF AInv

(* Nobody else has the name of a task that is alive: the search finds it.   *)
LEMMA FindsTheOne ==
    ASSUME AInv, NEW n, n # IdleName, NEW t \in Alive, name[t] = n
    PROVE  FindTaskByName(n) = {t}
<1>1. pool \in Seq(Task) /\ IsInjective(pool) /\ Alive = {pool[k] : k \in DOMAIN pool}
  BY DEF AInv, MInv, IInv, TypeOK, OnePlace, NoDuplicates, Alive, ToSet
<1>2. \A u \in Alive : name[u] = n => u = t
  BY DEF AInv, OneEach
<1>3. PICK k \in DOMAIN pool : pool[k] = t
  BY <1>1
<1>4. t \in Task /\ k \in 1 .. Len(pool) /\ Len(pool) \in Nat
  BY <1>1, <1>3
<1>5. ASSUME NEW j \in 1 .. k - 1  PROVE  name[pool[j]] # n
  <2>1. j \in DOMAIN pool /\ j # k
    BY <1>1, <1>4
  <2>2. pool[j] \in Alive /\ pool[j] # t
    BY <1>1, <1>3, <2>1 DEF IsInjective
  <2> QED  BY <1>2, <2>2
<1>6. t \in FindTaskByName(n)
  BY <1>3, <1>4, <1>5 DEF FindTaskByName
<1>7. \A u \in FindTaskByName(n) : u = t
  BY <1>1, <1>2 DEF FindTaskByName
<1> QED  BY <1>6, <1>7

(* AMain waits for a task, or finds that it has ended. *)
LEMMA MainWaits ==
    ASSUME AInv, Runs(InitName), round[current] < Len(Script),
           NEW n \in Name \ {InitName, IdleName},
           Script[round[current] + 1] = Call("wait", n),
           Wait(n),
           round' = [round EXCEPT ![current] = @ + 1],
           mutex' = mutex, i' = i, pc' = pc
    PROVE  AInv'
<1>1. PICK c \in Alive :
        /\ c = current /\ c \in Task /\ name[c] = InitName
        /\ round[c] \in 0 .. Len(Script)
        /\ \A t \in Alive : name[t] = InitName => t = c
        /\ \A t \in Alive : name[t] # InitName =>
             /\ Called("register", name[t], round[c])
             /\ \A k \in 1 .. round[c] : Script[k] # Call("wait", name[t])
  BY MainRuns DEF Main
<1> DEFINE r == round[c]
<1>2. /\ r \in Nat /\ r + 1 \in 1 .. Len(Script) /\ Script[r + 1] = Call("wait", n)
      /\ Len(Script) \in Nat
  BY <1>1, ScriptCalls
<1>3. IInv /\ ClientTypes /\ AppTypes
  BY <1>1 DEF AInv, MInv
<1>4. /\ valid' = valid /\ phase' = phase /\ at' = at /\ stray' = stray /\ Return(0)
  BY DEF Wait, SysWait, mutexVars, clientVars
<1>5. MInv'
  BY TaskCallKeeps DEF AInv
<1>6. ASSUME NEW t \in Alive, name[t] = n
      PROVE  Block(t)
  <2>1. FindTaskByName(n) = {t}
    BY <1>6, FindsTheOne
  <2> QED  BY <2>1 DEF Wait, SysWait, WaitTask
<1>7. /\ pool' = pool /\ name' = name
      /\ \A t \in Alive : name[t] # n => waitQ'[t] = waitQ[t]
      /\ \A t \in Alive : name[t] = n => c \in ToSet(waitQ'[t])
  <2>1. CASE \E t \in Alive : name[t] = n
    <3>1. PICK t \in Alive : name[t] = n /\ Block(t)
      BY <1>6, <2>1
    <3>2. running # <<>> /\ Head(running) = current
      BY <1>1, <1>3, CurrentWaitsNowhere DEF Runs
    <3>3. /\ pool' = pool /\ name' = name
          /\ waitQ' = [waitQ EXCEPT ![t] = Append(@, current)]
      BY <3>1, <3>2 DEF Block
    <3>4. t \in WaitQueue /\ waitQ \in [WaitQueue -> Seq(Task)] /\ Alive \subseteq WaitQueue
      BY <1>3, QueuesOfTasks, TaskAssumption DEF IInv, TypeOK
    <3>5. waitQ[t] \in Seq(Task) /\ waitQ'[t] = Append(waitQ[t], c)
          /\ \A u \in Alive : u # t => waitQ'[u] = waitQ[u]
      BY <1>1, <3>3, <3>4
    <3>6. c \in ToSet(waitQ'[t])
      BY <1>1, <3>5, AppendSet
    <3>7. \A u \in Alive : name[u] = n => u = t
      BY <3>1 DEF AInv, OneEach
    <3> QED  BY <3>1, <3>3, <3>5, <3>6, <3>7
  <2>2. CASE \A t \in Alive : name[t] # n
    <3>1. FindTaskByName(n) = {}
      BY <1>3, <2>2 DEF FindTaskByName, Alive, ToSet
    <3>2. UNCHANGED schedVars
      BY <3>1 DEF Wait, SysWait
    <3> QED  BY <2>2, <3>2 DEF schedVars
  <2> QED  BY <2>1, <2>2
<1>8. /\ Alive' = Alive /\ Alive \subseteq Task
  BY <1>3, <1>7, QueuesOfTasks DEF Alive, IInv
<1>9. /\ round'[c] = r + 1 /\ \A t \in Task \ {c} : round'[t] = round[t]
      /\ round' \in [Task -> Nat]
  BY <1>1, <1>2, <1>3 DEF AppTypes
<1>10. \A t \in Task : eax'[t] = eax[t] \/ eax'[t] = 0
  BY <1>3, <1>4, Values, ReturnChangesOne
<1>11. AppTypes'
  BY <1>3, <1>4, <1>9 DEF AppTypes
<1>12. OneEach'
  BY <1>7, <1>8 DEF AInv, OneEach
<1>13. \A op, x : Called(op, x, r) => Called(op, x, r + 1)
  BY <1>2 DEF Called
<1>14. Awaited'
  <2>1. ASSUME NEW t \in Alive, name[t] # InitName
        PROVE  /\ Called("register", name[t], r + 1)
               /\ \A k \in 1 .. r + 1 : Script[k] = Call("wait", name[t]) =>
                     k = r + 1 /\ c \in ToSet(waitQ'[t])
    <3>1. Called("register", name[t], r + 1)
      BY <1>1, <1>13, <2>1
    <3>2. ASSUME NEW k \in 1 .. r + 1, Script[k] = Call("wait", name[t])
          PROVE  k = r + 1 /\ c \in ToSet(waitQ'[t])
      <4>1. k \in 1 .. r \/ k = r + 1
        BY <1>2
      <4>2. k = r + 1
        BY <1>1, <2>1, <3>2, <4>1
      <4>3. name[t] = n
        BY <1>2, <3>2, <4>2 DEF Call
      <4> QED  BY <1>7, <4>2, <4>3
    <3> QED  BY <3>1, <3>2
  <2>2. c \in Alive /\ name[c] = InitName
    BY <1>1
  <2> QED  BY <1>7, <1>8, <1>9, <2>1, <2>2 DEF Awaited, Called
<1>15. MutexKept'
  <2>1. ASSUME mutex = AppMutex, AppMutex \notin valid  PROVE  Called("register", Destroyer, r)
    BY <1>1, <2>1 DEF AInv, MutexKept
  <2> QED  BY <1>1, <1>4, <1>7, <1>8, <1>9, <1>13, <2>1 DEF MutexKept, Called
<1>16. ASSUME NEW t \in Task  PROVE  TaskStory(t)'
  <2>1. CASE t = c
    <3>1. TaskStory(t)
      BY DEF AInv
    <3>2. /\ t \notin WorkerTasks /\ t \notin WorkerTasks' /\ name'[t] = InitName
          /\ t \in Alive /\ t \in Alive'
      BY <1>1, <1>7, <1>8, <2>1, NamesDiffer DEF WorkerTasks
    <3>3. phase[t] = "out"
      BY <3>1, <3>2 DEF TaskStory, PhaseAt
    <3>4. PhaseAt(t)' /\ WorkerStory(t)'
      BY <1>4, <3>2, <3>3 DEF PhaseAt, WorkerStory
    <3>5. CreatorStory(t)' /\ NewStory(t)'
      BY <3>2, NamesDiffer DEF CreatorStory, NewStory
    <3>6. pc[t] = "entry" /\ round'[t] \in 0 .. Len(Script)
      <4>1. pc[t] \in {"entry", "end"} /\ (pc[t] = "end" => r = Len(Script))
        BY <1>1, <2>1, <3>1 DEF TaskStory, MainStory, Main
      <4> QED  BY <1>2, <1>9, <2>1, <4>1
    <3>7. MainStory(t)'
      BY <3>6 DEF MainStory
    <3> QED  BY <3>4, <3>5, <3>7 DEF TaskStory
  <2>2. CASE t # c
    BY <1>4, <1>7, <1>8, <1>9, <1>10, <2>2, BystanderKeeps DEF Bystander
  <2> QED  BY <2>1, <2>2
<1> QED  BY <1>5, <1>11, <1>12, <1>14, <1>15, <1>16 DEF AInv

LEMMA MainCallKeeps == AInv /\ MainCall => AInv'
<1> SUFFICES ASSUME AInv, MainCall  PROVE  AInv'
  OBVIOUS
<1> DEFINE j == round[current] + 1
<1>1. /\ Runs(InitName) /\ round[current] < Len(Script)
      /\ round' = [round EXCEPT ![current] = @ + 1]
      /\ mutex' = mutex /\ i' = i /\ pc' = pc
  BY DEF MainCall
<1>2. j \in 1 .. Len(Script)
  BY <1>1, MainRuns, ScriptCalls
<1>3. PICK n \in Name \ {InitName, IdleName} :
        Script[j] = Call("register", n) \/ Script[j] = Call("wait", n)
  BY <1>2, EachCall
<1>4. CASE Script[j] = Call("register", n)
  <2>1. Script[j].op = "register" /\ Script[j].name = n
    BY <1>4 DEF Call
  <2>2. RegisterApp(n, InitPriority)
    BY <2>1 DEF MainCall
  <2> QED  BY <1>1, <1>4, <2>2, MainRegisters
<1>5. CASE Script[j] = Call("wait", n)
  <2>1. Script[j].op = "wait" /\ Script[j].name = n
    BY <1>5 DEF Call
  <2>2. Wait(n)
    BY <2>1 DEF MainCall
  <2> QED  BY <1>1, <1>5, <2>2, MainWaits
<1> QED  BY <1>3, <1>4, <1>5

-----------------------------------------------------------------------------
(* A task ends.  AMain does so last: it has waited for all others. *)
LEMMA ExitKeepsApp == AInv /\ TaskExit => AInv'
<1> SUFFICES ASSUME AInv, TaskExit  PROVE  AInv'
  OBVIOUS
<1>1. /\ current # Idle /\ pc[current] = "end" /\ Die
      /\ pc' = [pc EXCEPT ![current] = "entry"]
      /\ round' = [round EXCEPT ![current] = 0]
      /\ mutex' = mutex /\ i' = i
  BY DEF TaskExit, At
<1>2. PICK c \in Task :
        /\ c = current /\ c \in Alive
        /\ TaskStory(c) /\ IInv /\ ClientTypes /\ AppTypes
  BY <1>1, CurrentTask
<1>3. running # <<>> /\ Head(running) = c
  BY <1>1, <1>2, CurrentWaitsNowhere
<1>4. /\ pool' = SelectIn(pool, Task \ {c})
      /\ waitQ' = [waitQ EXCEPT ![c] = <<>>]
      /\ name' = [name EXCEPT ![c] = NoName]
      /\ valid' = valid /\ Return(0) /\ Forget(current)
  BY <1>1, <1>3 DEF Die, SysKill, KillTask, WaitQWithout, mutexVars
<1>5. Alive' = Alive \ {c} /\ Alive \subseteq Task
  <2>1. ToSet(pool') = ToSet(pool) \cap (Task \ {c})
    BY <1>2, <1>4, SelectInSet DEF IInv, TypeOK
  <2>2. Alive \subseteq Task
    BY <1>2, QueuesOfTasks DEF IInv
  <2> QED  BY <2>1, <2>2 DEF Alive
<1>6. /\ \A t \in Task \ {c} : name'[t] = name[t] /\ waitQ'[t] = waitQ[t]
      /\ \A t \in Task \ {c} : pc'[t] = pc[t] /\ round'[t] = round[t]
      /\ pc'[c] = "entry" /\ round'[c] = 0
      /\ pc' \in [Task -> Label] /\ round' \in [Task -> Nat]
  BY <1>1, <1>2, <1>4, TaskAssumption DEF IInv, TypeOK, AppTypes, Label
<1>7. /\ phase'[c] = "out"
      /\ \A t \in Task \ {c} :
           phase'[t] = phase[t] /\ at'[t] = at[t] /\ stray'[t] = stray[t]
  BY <1>2, <1>4, ForgetChangesOne
<1>8. \A t \in Task : eax'[t] = eax[t] \/ eax'[t] = 0
  BY <1>2, <1>4, Values, ReturnChangesOne
<1>9. MInv'
  BY <1>1, TaskCallKeeps DEF AInv
<1>10. AppTypes'
  BY <1>1, <1>2, <1>4, <1>6 DEF AppTypes
<1>11. OneEach'
  BY <1>5, <1>6 DEF AInv, OneEach
<1>12. ASSUME name[c] = InitName  PROVE  Alive' = {}
  <2>1. /\ round[c] = Len(Script)
        /\ \A t \in Alive : name[t] = InitName => t = c
        /\ \A t \in Alive : name[t] # InitName =>
             /\ Called("register", name[t], round[c])
             /\ \A k \in 1 .. round[c] : Script[k] # Call("wait", name[t])
    BY <1>1, <1>2, <1>12, MainRuns DEF Runs, TaskStory, MainStory, Main
  <2>2. ASSUME NEW t \in Alive, t # c  PROVE  FALSE
    <3>1. PICK j \in 1 .. Len(Script) : Script[j] = Call("register", name[t])
      BY <2>1, <2>2 DEF Called
    <3>2. PICK l \in 1 .. Len(Script) : Script[l] = Call("wait", name[t])
      BY <3>1, WaitFollows
    <3> QED  BY <2>1, <2>2, <3>2
  <2> QED  BY <1>5, <2>2
<1>13. Awaited'
  <2>1. ASSUME NEW t \in Alive', name'[t] # InitName
        PROVE  \E m \in Alive' :
                  /\ name'[m] = InitName
                  /\ Called("register", name'[t], round'[m])
                  /\ \A k \in 1 .. round'[m] : Script[k] = Call("wait", name'[t]) =>
                       k = round'[m] /\ m \in ToSet(waitQ'[t])
    <3>1. t \in Alive /\ t # c /\ name'[t] = name[t] /\ waitQ'[t] = waitQ[t]
      BY <1>5, <1>6
    <3>2. PICK m \in Alive :
            /\ name[m] = InitName
            /\ Called("register", name[t], round[m])
            /\ \A k \in 1 .. round[m] : Script[k] = Call("wait", name[t]) =>
                  k = round[m] /\ m \in ToSet(waitQ[t])
      BY <2>1, <3>1 DEF AInv, Awaited
    <3>3. m # c
      BY <1>12, <2>1, <3>2
    <3>4. m \in Alive' /\ name'[m] = name[m] /\ round'[m] = round[m]
      BY <1>5, <1>6, <3>3
    <3> QED  BY <3>1, <3>2, <3>4
  <2> QED  BY <2>1 DEF Awaited, Called
<1>14. MutexKept'
  BY <1>1, <1>4, <1>5, <1>6 DEF AInv, MutexKept, Called
<1>15. ASSUME NEW t \in Task  PROVE  TaskStory(t)'
  <2>1. CASE t = c
    <3>1. t \notin Alive' /\ t \notin WorkerTasks'
      BY <1>5, <2>1 DEF WorkerTasks
    <3> QED  BY <1>6, <1>7, <2>1, <3>1
             DEF TaskStory, PhaseAt, WorkerStory, CreatorStory, MainStory, Main, NewStory
  <2>2. CASE t # c
    BY <1>1, <1>4, <1>5, <1>6, <1>7, <1>8, <2>2, BystanderKeeps DEF Bystander
  <2> QED  BY <2>1, <2>2
<1> QED  BY <1>9, <1>10, <1>11, <1>13, <1>14, <1>15 DEF AInv

-----------------------------------------------------------------------------
(* The first state: AMain's task alone. *)
LEMMA AppInitEstablishes == AppInit => AInv
<1> SUFFICES ASSUME AppInit  PROVE  AInv
  OBVIOUS
<1>1. /\ mutex = NoMutex /\ i = 0
      /\ pc = [t \in Task |-> "entry"] /\ round = [t \in Task |-> 0]
      /\ phase = [t \in Task |-> "out"] /\ valid = {}
      /\ Init /\ ClientInit
  BY DEF AppInit, ClientInit, MutexInit
<1>2. MInv
  BY <1>1, ClientInitEstablishes
<1>3. PICK m \in Task : pool = <<m>> /\ name = [u \in Task |-> IF u = m THEN InitName ELSE NoName]
  BY <1>1 DEF Init
<1>4. Alive = {m} /\ name[m] = InitName
  BY <1>3, Singleton DEF Alive
<1>5. AppTypes
  BY <1>1 DEF AppTypes, Label
<1>6. OneEach /\ Awaited
  BY <1>4 DEF OneEach, Awaited
<1>7. MutexKept
  BY <1>1, AppAssumption, Values DEF MutexKept
<1>8. ASSUME NEW t \in Task  PROVE  TaskStory(t)
  <2>1. pc[t] = "entry" /\ round[t] = 0 /\ phase[t] = "out" /\ 0 \in 0 .. Len(Script)
    BY <1>1, ScriptCalls
  <2> QED  BY <2>1 DEF TaskStory, PhaseAt, WorkerStory, CreatorStory, MainStory, NewStory
<1> QED  BY <1>2, <1>5, <1>6, <1>7, <1>8 DEF AInv

LEMMA AppNextKeeps == AInv /\ [AppNext]_vars => AInv'
<1> SUFFICES ASSUME AInv, [AppNext]_vars  PROVE  AInv'
  OBVIOUS
<1>1. CASE AppNext
  BY <1>1, TimerKeepsApp, MainCallKeeps, PrintKeeps, CreatorCallsKeep, CreatorStoresKeep,
     DestroyerKeeps, EntersKeep, GrantedKeepsApp, LoadsKeep, StoresKeep, LeavesKeep,
     ExitKeepsApp
  DEF AppNext, Step
<1>2. CASE UNCHANGED vars
  <2>1. UNCHANGED sysVars /\ mutex' = mutex /\ i' = i /\ pc' = pc /\ round' = round
    BY <1>2 DEF vars, appVars
  <2>2. /\ pool' = pool /\ name' = name /\ waitQ' = waitQ /\ valid' = valid /\ eax' = eax
        /\ phase' = phase /\ at' = at /\ stray' = stray
    BY <2>1 DEF sysVars, schedVars, mutexVars, clientVars
  <2>3. MInv'
    BY <2>1, ClientNextKeeps DEF AInv
  <2>4. AppTypes' /\ Alive' = Alive
    BY <2>1, <2>2 DEF AInv, AppTypes, Alive
  <2>5. \A t \in Task : Bystander(t)
    BY <2>1, <2>2 DEF Bystander
  <2> QED  BY <2>1, <2>2, <2>3, <2>4, <2>5, LocalKeeps
<1> QED  BY <1>1, <1>2

-----------------------------------------------------------------------------
(* The invariant holds in every reachable state of the application. *)
THEOREM AppInvariant == AppSpec => []AInv
<1> QED  BY AppInitEstablishes, AppNextKeeps, PTL DEF AppSpec

(* What is proved of any clients holds of the application: its sections are *)
(* locked and no wake-up is lost.                                           *)
THEOREM AppIsAClient == AppSpec => [](SectionIsLocked /\ WaitersOnlyIfLocked /\ OnePlace)
<1>1. AInv => SectionIsLocked /\ WaitersOnlyIfLocked /\ OnePlace
  BY DEF AInv, MInv, IInv
<1> QED  BY <1>1, AppInvariant, PTL

(* A worker that is about to leave its section owns the mutex, so           *)
(* MutexStrictExit kills no worker before it has done all its rounds.       *)
THEOREM WorkersLeaveAsOwners == AppSpec => []LeavesAsOwner
<1>1. AInv => LeavesAsOwner
  BY OwnerLeaves DEF LeavesAsOwner
<1> QED  BY <1>1, AppInvariant, PTL

(* No worker's increment of i is lost while there is a mutex: the value it  *)
(* loaded is still the value of i, unless another task's call overwrote it. *)
THEOREM NoIncrementLost == AppSpec => []IncrementsCount
<1>1. AInv => IncrementsCount
  <2> SUFFICES ASSUME AInv, NEW t \in WorkerTasks, pc[t] = "store", mutex # NoMutex
               PROVE  eax[t] \in {i, 0}
    BY DEF IncrementsCount
  <2>1. WorkerStory(t)
    BY QueuesOfTasks DEF AInv, MInv, IInv, WorkerTasks, TaskStory
  <2> QED  BY <2>1 DEF WorkerStory
<1> QED  BY <1>1, AppInvariant, PTL

(* The mutex exists as long as a worker may use it. *)
THEOREM MutexStays == AppSpec => []MutexOutlivesWorkers
<1>1. AInv => MutexOutlivesWorkers
  <2> SUFFICES ASSUME AInv, mutex # NoMutex, NEW t \in WorkerTasks  PROVE  mutex \in valid
    BY DEF MutexOutlivesWorkers
  <2>1. mutex = AppMutex
    BY DEF AInv, AppTypes
  <2> QED  BY <2>1, MutexThere
<1> QED  BY <1>1, AppInvariant, PTL
=============================================================================
