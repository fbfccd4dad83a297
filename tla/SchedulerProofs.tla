--------------------------- MODULE SchedulerProofs ---------------------------
(***************************************************************************)
(* Proofs about the scheduler for any number of tasks, any bound on the    *)
(* running queue, any priorities and any sleeping times.                   *)
(***************************************************************************)
EXTENDS Scheduler, QueueLemmas

(* The running queue holds at most one task more than MAX_RUNNING_TASK. *)
RunningBounded == Len(running) <= MAX_RUNNING_TASK + 1

(* Every task gets at least one tick per turn. *)
TurnsPositive == \A t \in Alive : total[t] > 0

(* The inductive invariant.  CurrentIsFront makes "the front" and "the      *)
(* current task" the same thing in every handler; OnePlace keeps the        *)
(* counters of a running task apart from those of a block that is freed or  *)
(* registered, and needs NoOrphanWaiter when a block is used again.         *)
IInv ==
    /\ TypeOK
    /\ CurrentIsFront
    /\ RunningBounded
    /\ OnePlace
    /\ NoOrphanWaiter
    /\ CountersInRange
    /\ TurnsPositive

-----------------------------------------------------------------------------
(* ScheduleNext moves tasks from the ready to the running queue and loses   *)
(* and duplicates none; its current task is the front; a task of the new    *)
(* running queue was in the old one or starts its turn.                     *)
LEMMA ScheduleNextKeeps ==
    ASSUME NEW rdy \in Seq(Task), NEW run \in Seq(Task), NEW slc \in [Task -> Nat],
           Len(run) <= MAX_RUNNING_TASK + 1,
           ScheduleNext(rdy, run, slc)
    PROVE  /\ ready' \in Seq(Task) /\ running' \in Seq(Task)
           /\ slice' \in [Task -> Nat]
           /\ current' \in Task \cup {Idle}
           /\ CurrentIsFront'
           /\ RunningBounded'
           /\ ToSet(ready') \cup ToSet(running') = ToSet(rdy) \cup ToSet(run)
           /\ ToSet(run) \subseteq ToSet(running')
           /\ IsInjective(rdy) /\ IsInjective(run) /\ ToSet(rdy) \cap ToSet(run) = {}
                => /\ IsInjective(ready') /\ IsInjective(running')
                   /\ ToSet(ready') \cap ToSet(running') = {}
           /\ \A t \in ToSet(running') :
                slice'[t] = 0 \/ (t \in ToSet(run) /\ slice'[t] = slc[t])
<1> DEFINE k == Moved(rdy, run)
           moved == Promoted(rdy, run)
           left == Left(rdy, run)
<1>1. k \in 0 .. Len(rdy) /\ Len(run) + k <= MAX_RUNNING_TASK + 1
  BY BoundAssumption DEF Moved
<1>2. moved = SubSeq(rdy, 1, k) /\ left = SubSeq(rdy, k + 1, Len(rdy))
  BY DEF Promoted, Left
<1> HIDE DEF k
<1>3. /\ moved \in Seq(Task) /\ left \in Seq(Task) /\ Len(moved) = k
      /\ ToSet(rdy) = ToSet(moved) \cup ToSet(left)
      /\ IsInjective(rdy) =>
            /\ IsInjective(moved) /\ IsInjective(left)
            /\ ToSet(moved) \cap ToSet(left) = {}
  BY <1>1, <1>2, CutSet
<1> DEFINE full == run \o moved
<1> HIDE DEF moved, left
<1>4. full \in Seq(Task) /\ Len(full) = Len(run) + k
  BY <1>3, ConcatProperties
<1>5. ToSet(full) = ToSet(run) \cup ToSet(moved)
  BY <1>3, ConcatSet
<1>6. IsInjective(full) <=>
        IsInjective(run) /\ IsInjective(moved) /\ ToSet(run) \cap ToSet(moved) = {}
  BY <1>3, ConcatInjective
<1>7. /\ ready' = left
      /\ running' = Rotate(full)
      /\ slice' = StartTurns(ToSet(moved), slc)
      /\ current' = FrontTask(running')
  BY DEF ScheduleNext, moved, left
<1> HIDE DEF full
<1>8. /\ running' \in Seq(Task) /\ Len(running') = Len(full)
      /\ ToSet(running') = ToSet(full)
      /\ IsInjective(full) => IsInjective(running')
  BY <1>4, <1>7, RotateSet
<1>9. slice' \in [Task -> Nat]
  BY <1>7 DEF StartTurns
<1>10. current' \in Task \cup {Idle} /\ CurrentIsFront'
  <2>1. running' # <<>> => Head(running') \in Task
    BY <1>8
  <2> QED  BY <1>7, <2>1 DEF FrontTask, CurrentIsFront
<1>11. RunningBounded'
  BY <1>1, <1>4, <1>8 DEF RunningBounded
<1>12. ASSUME NEW t \in ToSet(running')
       PROVE  slice'[t] = 0 \/ (t \in ToSet(run) /\ slice'[t] = slc[t])
  <2>1. t \in Task
    BY <1>8 DEF ToSet
  <2>2. slice'[t] = IF t \in ToSet(moved) THEN 0 ELSE slc[t]
    BY <1>7, <2>1 DEF StartTurns
  <2> QED  BY <1>5, <1>8, <2>2
<1>13. ASSUME IsInjective(rdy), IsInjective(run), ToSet(rdy) \cap ToSet(run) = {}
       PROVE  /\ IsInjective(ready') /\ IsInjective(running')
              /\ ToSet(ready') \cap ToSet(running') = {}
  <2>1. ToSet(run) \cap ToSet(moved) = {} /\ ToSet(run) \cap ToSet(left) = {}
    BY <1>3, <1>13
  <2>2. IsInjective(full)
    BY <1>3, <1>6, <1>13, <2>1
  <2>3. ToSet(left) \cap ToSet(full) = {}
    BY <1>3, <1>5, <1>13, <2>1
  <2> QED  BY <1>3, <1>7, <1>8, <1>13, <2>2, <2>3
<1>14. ToSet(ready') \cup ToSet(running') = ToSet(rdy) \cup ToSet(run)
  BY <1>3, <1>5, <1>7, <1>8
<1>15. ToSet(run) \subseteq ToSet(running')
  BY <1>5, <1>8
<1> QED  BY <1>3, <1>7, <1>8, <1>9, <1>10, <1>11, <1>12, <1>13, <1>14, <1>15

(* The members of the queues are tasks. *)
LEMMA QueuesOfTasks ==
    ASSUME TypeOK
    PROVE  /\ Alive \subseteq Task /\ ToSet(ready) \subseteq Task
           /\ ToSet(running) \subseteq Task /\ ToSet(sleeping) \subseteq Task
           /\ Waiting \subseteq Task
           /\ \A q \in WaitQueue : ToSet(waitQ[q]) \subseteq Task
<1>1. ASSUME NEW s \in Seq(Task)  PROVE  ToSet(s) \subseteq Task
  BY DEF ToSet
<1>2. \A q \in WaitQueue : waitQ[q] \in Seq(Task)
  BY DEF TypeOK
<1> QED  BY <1>1, <1>2 DEF TypeOK, Alive, Waiting

(* The first state satisfies the invariant. *)
LEMMA InitEstablishes == Init => IInv
<1> SUFFICES ASSUME Init  PROVE  IInv
  OBVIOUS
<1>1. PICK t \in Task :
        /\ pool = <<t>> /\ ready = <<>> /\ running = <<t>> /\ sleeping = <<>>
        /\ waitQ = [q \in WaitQueue |-> <<>>]
        /\ name = [u \in Task |-> IF u = t THEN InitName ELSE NoName]
        /\ total = [u \in Task |-> IF u = t THEN MAX_RUNNING_TICK - InitPriority ELSE 0]
        /\ slice = [u \in Task |-> 0] /\ ticks = [u \in Task |-> 0]
        /\ current = t
  BY DEF Init
<1>2. <<t>> \in Seq(Task) /\ ToSet(<<t>>) = {t} /\ IsInjective(<<t>>)
  BY Singleton
<1>3. MAX_RUNNING_TICK - InitPriority \in Nat /\ MAX_RUNNING_TICK - InitPriority > 0
  BY PriorityAssumption
<1>4. TypeOK
  BY <1>1, <1>2, <1>3, EmptySet, NameAssumption DEF TypeOK
<1>5. CurrentIsFront /\ RunningBounded
  BY <1>1, BoundAssumption DEF CurrentIsFront, RunningBounded
<1>6. Waiting = {}
  BY <1>1, EmptySet DEF Waiting
<1>7. OnePlace
  <2>1. NoDuplicates
    BY <1>1, <1>2, EmptySet DEF NoDuplicates
  <2>2. Disjoint
    BY <1>1, <1>6, EmptySet DEF Disjoint
  <2> QED  BY <1>1, <1>2, <1>6, <2>1, <2>2, EmptySet DEF OnePlace, Alive
<1>8. NoOrphanWaiter
  BY <1>1, TaskAssumption DEF NoOrphanWaiter
<1>9. CountersInRange /\ TurnsPositive
  BY <1>1, <1>2, <1>3, EmptySet DEF CountersInRange, TurnsPositive, Alive
<1> QED  BY <1>4, <1>5, <1>7, <1>8, <1>9 DEF IInv

(* The timer. *)
LEMMA TickKeeps ==
    ASSUME IInv, Tick
    PROVE  IInv'
<1> DEFINE woken == SelectIn(sleeping, Woken)
           awake == ready \o woken
           rdy == IF TurnOver THEN Append(awake, Head(running)) ELSE awake
           run == IF TurnOver THEN Tail(running) ELSE running
           slc == [t \in Task |-> IF t = current THEN slice[t] + 1 ELSE slice[t]]
<1>1. /\ sleeping' = SelectIn(sleeping, Task \ Woken)
      /\ ticks' = TicksLeft
      /\ ScheduleNext(rdy, run, slc)
      /\ UNCHANGED <<pool, waitQ, name, total>>
  BY DEF Tick, Requeued
<1>2. TypeOK /\ CurrentIsFront /\ RunningBounded /\ OnePlace /\ NoOrphanWaiter
      /\ CountersInRange /\ TurnsPositive
  BY DEF IInv
<1>3. /\ woken \in Seq(Task)
      /\ ToSet(woken) = ToSet(sleeping) \cap Woken
      /\ IsInjective(woken)
  <2>1. sleeping \in Seq(Task) /\ IsInjective(sleeping)
    BY <1>2 DEF TypeOK, OnePlace, NoDuplicates
  <2> QED  BY <2>1, SelectInSet
<1>4. /\ sleeping' \in Seq(Task)
      /\ ToSet(sleeping') = ToSet(sleeping) \cap (Task \ Woken)
      /\ IsInjective(sleeping')
  BY <1>1, <1>2, SelectInSet DEF TypeOK, OnePlace, NoDuplicates
<1> HIDE DEF woken
<1>5. ToSet(ready) \cap ToSet(woken) = {} /\ ToSet(running) \cap ToSet(woken) = {}
  BY <1>2, <1>3 DEF OnePlace, Disjoint
<1>6. /\ awake \in Seq(Task)
      /\ ToSet(awake) = ToSet(ready) \cup ToSet(woken)
      /\ IsInjective(awake)
  BY <1>2, <1>3, <1>5, ConcatSet, ConcatInjective DEF TypeOK, OnePlace, NoDuplicates
<1>7. ToSet(awake) \cap ToSet(running) = {}
  BY <1>2, <1>5, <1>6 DEF OnePlace, Disjoint
<1> HIDE DEF awake
<1>8. /\ rdy \in Seq(Task) /\ run \in Seq(Task)
      /\ Len(run) <= MAX_RUNNING_TASK + 1
      /\ ToSet(rdy) \cup ToSet(run) = ToSet(awake) \cup ToSet(running)
      /\ IsInjective(rdy) /\ IsInjective(run) /\ ToSet(rdy) \cap ToSet(run) = {}
      /\ ToSet(run) \subseteq ToSet(running)
      /\ TurnOver => current \notin ToSet(run)
  <2>1. CASE TurnOver
    <3>1. running # <<>> /\ current = Head(running)
      BY <1>2, <2>1 DEF TurnOver, CurrentIsFront
    <3>2. /\ Head(running) \in Task /\ Tail(running) \in Seq(Task)
          /\ Len(Tail(running)) = Len(running) - 1
          /\ ToSet(running) = {Head(running)} \cup ToSet(Tail(running))
          /\ Head(running) \notin ToSet(Tail(running)) /\ IsInjective(Tail(running))
      BY <1>2, <3>1, FrontAndRest DEF TypeOK, OnePlace, NoDuplicates
    <3>3. Head(running) \notin ToSet(awake)
      BY <1>7, <3>2
    <3>4. /\ Append(awake, Head(running)) \in Seq(Task)
          /\ ToSet(Append(awake, Head(running))) = ToSet(awake) \cup {Head(running)}
          /\ IsInjective(Append(awake, Head(running)))
      BY <1>6, <3>2, <3>3, AppendSet
    <3>5. rdy = Append(awake, Head(running)) /\ run = Tail(running)
      BY <2>1
    <3>6. Len(run) <= MAX_RUNNING_TASK + 1
      <4>1. Len(running) \in Nat /\ Len(running) <= MAX_RUNNING_TASK + 1
        BY <1>2 DEF RunningBounded, TypeOK
      <4>2. Len(run) = Len(running) - 1
        BY <3>2, <3>5
      <4> HIDE DEF run
      <4> QED  BY <4>1, <4>2, BoundAssumption
    <3>7. ToSet(rdy) \cap ToSet(run) = {}
      BY <1>7, <3>2, <3>4, <3>5
    <3> QED  BY <3>1, <3>2, <3>4, <3>5, <3>6, <3>7
  <2>2. CASE ~TurnOver
    BY <1>2, <1>6, <1>7, <2>2 DEF TypeOK, OnePlace, NoDuplicates, RunningBounded
  <2> QED  BY <2>1, <2>2
<1>9. slc \in [Task -> Nat]
  BY <1>2 DEF TypeOK
<1> HIDE DEF rdy, run, slc
<1>10. /\ ready' \in Seq(Task) /\ running' \in Seq(Task)
       /\ slice' \in [Task -> Nat]
       /\ current' \in Task \cup {Idle}
       /\ CurrentIsFront'
       /\ RunningBounded'
       /\ ToSet(ready') \cup ToSet(running') = ToSet(rdy) \cup ToSet(run)
       /\ IsInjective(ready') /\ IsInjective(running')
       /\ ToSet(ready') \cap ToSet(running') = {}
       /\ \A t \in ToSet(running') :
             slice'[t] = 0 \/ (t \in ToSet(run) /\ slice'[t] = slc[t])
  BY <1>1, <1>8, <1>9, ScheduleNextKeeps
<1>11. Alive' = Alive /\ Waiting' = Waiting
  BY <1>1 DEF Alive, Waiting
<1>12. ToSet(ready') \cup ToSet(running') =
         ToSet(ready) \cup ToSet(running) \cup ToSet(woken)
  BY <1>6, <1>8, <1>10
<1>13. ticks' \in [Task -> Nat]
  <2>1. \A t \in ToSet(sleeping) : ticks[t] > 0
    BY <1>2 DEF CountersInRange
  <2> QED  BY <1>1, <1>2, <2>1 DEF TicksLeft, TypeOK
<1>14. TypeOK'
  BY <1>1, <1>2, <1>4, <1>10, <1>13 DEF TypeOK
<1>15. OnePlace'
  <2>1. NoDuplicates'
    BY <1>1, <1>2, <1>4, <1>10 DEF OnePlace, NoDuplicates
  <2>2. Disjoint'
    BY <1>1, <1>2, <1>3, <1>4, <1>10, <1>11, <1>12 DEF OnePlace, Disjoint
  <2>3. ToSet(sleeping) \subseteq Task
    BY <1>2, QueuesOfTasks
  <2>4. ToSet(sleeping) = ToSet(sleeping') \cup ToSet(woken)
    BY <1>3, <1>4, <2>3
  <2>5. Alive' = ToSet(ready') \cup ToSet(running') \cup ToSet(sleeping') \cup Waiting'
    BY <1>2, <1>11, <1>12, <2>4 DEF OnePlace
  <2> QED  BY <2>1, <2>2, <2>5 DEF OnePlace
<1>16. NoOrphanWaiter'
  BY <1>1, <1>2, <1>11 DEF NoOrphanWaiter
<1>17. TurnsPositive'
  BY <1>1, <1>2, <1>11 DEF TurnsPositive
<1>18. CountersInRange'
  <2>1. ASSUME NEW t \in ToSet(running')  PROVE  slice'[t] < total'[t]
    <3>1. t \in Alive /\ t \in Task
      <4>1. t \in Alive
        BY <1>11, <1>15 DEF OnePlace
      <4> QED  BY <1>2, <4>1, QueuesOfTasks
    <3>2. total[t] \in Nat /\ total[t] > 0 /\ slice[t] \in Nat
      BY <1>2, <3>1 DEF TurnsPositive, TypeOK
    <3>3. CASE slice'[t] = 0
      BY <1>1, <3>2, <3>3
    <3>4. CASE t \in ToSet(run) /\ slice'[t] = slc[t]
      <4>1. slice[t] < total[t]
        BY <1>2, <1>8, <3>4 DEF CountersInRange
      <4>2. CASE t = current
        <5>1. ~TurnOver /\ running # <<>> /\ current # Idle
          <6>1. t \in ToSet(running)
            BY <1>8, <3>4
          <6>2. running # <<>>
            BY <6>1, EmptySet
          <6> QED  BY <1>8, <3>1, <3>4, <4>2, <6>2, TaskAssumption
        <5>2. slice[t] + 1 # total[t]
          BY <4>2, <5>1 DEF TurnOver
        <5> QED  BY <1>1, <3>1, <3>2, <3>4, <4>1, <4>2, <5>2 DEF slc
      <4>3. CASE t # current
        BY <1>1, <3>1, <3>4, <4>1, <4>3 DEF slc
      <4> QED  BY <4>2, <4>3
    <3> QED  BY <1>10, <3>3, <3>4
  <2>2. ASSUME NEW t \in ToSet(sleeping')  PROVE  ticks'[t] > 0
    <3>1. t \in ToSet(sleeping) /\ t \in Task /\ t \notin Woken
      BY <1>4
    <3>2. ticks[t] \in Nat /\ ticks[t] > 0 /\ ticks[t] # 1
      BY <1>2, <3>1 DEF CountersInRange, Woken, TypeOK
    <3>3. ticks'[t] = ticks[t] - 1
      BY <1>1, <3>1 DEF TicksLeft
    <3> QED  BY <3>2, <3>3
  <2> QED  BY <2>1, <2>2 DEF CountersInRange
<1> QED  BY <1>10, <1>14, <1>15, <1>16, <1>17, <1>18 DEF IInv

(* What is left when the current task leaves the running queue. *)
LEMMA CurrentLeaves ==
    ASSUME IInv, running # <<>>
    PROVE  /\ current = Head(running) /\ current \in Task /\ current \in Alive
           /\ Tail(running) \in Seq(Task)
           /\ Len(Tail(running)) <= MAX_RUNNING_TASK + 1
           /\ ToSet(running) = {current} \cup ToSet(Tail(running))
           /\ IsInjective(Tail(running))
           /\ current \notin ToSet(Tail(running)) /\ current \notin ToSet(ready)
           /\ current \notin ToSet(sleeping) /\ current \notin Waiting
<1>1. TypeOK /\ CurrentIsFront /\ RunningBounded /\ OnePlace
  BY DEF IInv
<1>2. current = Head(running)
  BY <1>1 DEF CurrentIsFront
<1>3. /\ Head(running) \in Task /\ Tail(running) \in Seq(Task)
      /\ Len(Tail(running)) = Len(running) - 1
      /\ Head(running) \in ToSet(running)
      /\ ToSet(running) = {Head(running)} \cup ToSet(Tail(running))
      /\ Head(running) \notin ToSet(Tail(running)) /\ IsInjective(Tail(running))
  BY <1>1, FrontAndRest DEF TypeOK, OnePlace, NoDuplicates
<1>4. Len(Tail(running)) <= MAX_RUNNING_TASK + 1
  <2>1. Len(running) \in Nat /\ Len(running) <= MAX_RUNNING_TASK + 1
    BY <1>1 DEF RunningBounded, TypeOK
  <2> QED  BY <1>3, <2>1, BoundAssumption
<1>5. current \in ToSet(running)
  BY <1>2, <1>3
<1>6. /\ current \in Alive /\ current \notin ToSet(ready)
      /\ current \notin ToSet(sleeping) /\ current \notin Waiting
  BY <1>1, <1>5 DEF OnePlace, Disjoint
<1> QED  BY <1>2, <1>3, <1>4, <1>6

(* Membership in the wait queues after one of them changed. *)
LEMMA WaitingAfter ==
    ASSUME TypeOK, NEW q \in WaitQueue, NEW s \in Seq(Task),
           waitQ' = [waitQ EXCEPT ![q] = s]
    PROVE  /\ waitQ' \in [WaitQueue -> Seq(Task)]
           /\ waitQ'[q] = s
           /\ \A p \in WaitQueue \ {q} : waitQ'[p] = waitQ[p]
           /\ Waiting' = ToSet(s) \cup UNION {ToSet(waitQ[p]) : p \in WaitQueue \ {q}}
           /\ Waiting = ToSet(waitQ[q]) \cup UNION {ToSet(waitQ[p]) : p \in WaitQueue \ {q}}
<1>1. /\ waitQ' \in [WaitQueue -> Seq(Task)]
      /\ waitQ'[q] = s
      /\ \A p \in WaitQueue \ {q} : waitQ'[p] = waitQ[p]
  BY DEF TypeOK
<1>2. Waiting' = UNION {ToSet(waitQ'[p]) : p \in WaitQueue}
  BY DEF Waiting
<1>3. \A x : x \in Waiting' <=> \E p \in WaitQueue : x \in ToSet(waitQ'[p])
  BY <1>2
<1>4. \A x : x \in Waiting <=> \E p \in WaitQueue : x \in ToSet(waitQ[p])
  BY DEF Waiting
<1> DEFINE Rest == UNION {ToSet(waitQ[p]) : p \in WaitQueue \ {q}}
<1>5. \A x : x \in Rest <=> \E p \in WaitQueue \ {q} : x \in ToSet(waitQ[p])
  OBVIOUS
<1> HIDE DEF Rest
<1>6. Waiting' = ToSet(s) \cup Rest
  BY <1>1, <1>3, <1>5
<1>7. Waiting = ToSet(waitQ[q]) \cup Rest
  BY <1>4, <1>5
<1> QED  BY <1>1, <1>6, <1>7 DEF Rest

(* RegisterApp. *)
LEMMA RegisterKeeps ==
    ASSUME IInv, NEW n \in Name, NEW p \in Priority, Register(n, p)
    PROVE  IInv'
<1>1. PICK t \in Task \ Alive :
        /\ pool' = <<t>> \o pool
        /\ ready' = Append(ready, t)
        /\ name' = [name EXCEPT ![t] = n]
        /\ total' = [total EXCEPT ![t] = MAX_RUNNING_TICK - p]
        /\ waitQ' = [waitQ EXCEPT ![t] = <<>>]
  BY DEF Register
<1>2. UNCHANGED <<running, sleeping, slice, ticks, current>>
  BY DEF Register
<1>3. TypeOK /\ CurrentIsFront /\ RunningBounded /\ OnePlace /\ NoOrphanWaiter
      /\ CountersInRange /\ TurnsPositive
  BY DEF IInv
<1>4. /\ t \notin ToSet(ready) /\ t \notin ToSet(running)
      /\ t \notin ToSet(sleeping) /\ t \notin Waiting
  BY <1>3 DEF OnePlace
<1>5. t \in WaitQueue /\ waitQ[t] = <<>>
  BY <1>3, TaskAssumption DEF NoOrphanWaiter
<1>6. waitQ' = waitQ
  BY <1>1, <1>3, <1>5 DEF TypeOK
<1>7. Waiting' = Waiting
  BY <1>6 DEF Waiting
<1>8. /\ pool' \in Seq(Task) /\ Alive' = {t} \cup Alive /\ IsInjective(pool')
  <2>1. pool \in Seq(Task) /\ IsInjective(pool) /\ t \notin ToSet(pool)
    BY <1>3 DEF TypeOK, OnePlace, NoDuplicates, Alive
  <2> QED  BY <1>1, <2>1, ConsSet DEF Alive
<1>9. /\ ready' \in Seq(Task) /\ ToSet(ready') = ToSet(ready) \cup {t} /\ IsInjective(ready')
  BY <1>1, <1>3, <1>4, AppendSet DEF TypeOK, OnePlace, NoDuplicates
<1>10. p \in Nat /\ MAX_RUNNING_TICK - p \in Nat /\ MAX_RUNNING_TICK - p > 0
  BY PriorityAssumption
<1>11. TypeOK'
  BY <1>1, <1>2, <1>3, <1>6, <1>8, <1>9, <1>10 DEF TypeOK
<1>12. CurrentIsFront' /\ RunningBounded'
  BY <1>2, <1>3 DEF CurrentIsFront, RunningBounded
<1>13. OnePlace'
  <2>1. NoDuplicates'
    BY <1>2, <1>3, <1>6, <1>8, <1>9 DEF OnePlace, NoDuplicates
  <2>2. Disjoint'
    BY <1>2, <1>3, <1>4, <1>6, <1>7, <1>9 DEF OnePlace, Disjoint
  <2>3. Alive' = ToSet(ready') \cup ToSet(running') \cup ToSet(sleeping') \cup Waiting'
    BY <1>2, <1>3, <1>7, <1>8, <1>9 DEF OnePlace
  <2> QED  BY <2>1, <2>2, <2>3 DEF OnePlace
<1>14. NoOrphanWaiter'
  BY <1>3, <1>6, <1>8 DEF NoOrphanWaiter
<1>15. TurnsPositive'
  BY <1>1, <1>3, <1>8, <1>10, QueuesOfTasks DEF TurnsPositive, TypeOK
<1>16. CountersInRange'
  BY <1>1, <1>2, <1>3, <1>4, QueuesOfTasks DEF CountersInRange, TypeOK
<1> QED  BY <1>11, <1>12, <1>13, <1>14, <1>15, <1>16 DEF IInv

(* WaitTask: the current task moves to the wait queue of a live task. *)
LEMMA BlockKeeps ==
    ASSUME IInv, NEW q \in WaitQueue, q \in Task => q \in Alive,
           current # Idle, Block(q)
    PROVE  IInv'
<1>1. TypeOK /\ CurrentIsFront /\ RunningBounded /\ OnePlace /\ NoOrphanWaiter
      /\ CountersInRange /\ TurnsPositive
  BY DEF IInv
<1>2. running # <<>> /\ Head(running) = current
  BY <1>1 DEF CurrentIsFront
<1>3. /\ current \in Task /\ current \in Alive
      /\ Tail(running) \in Seq(Task)
      /\ Len(Tail(running)) <= MAX_RUNNING_TASK + 1
      /\ ToSet(running) = {current} \cup ToSet(Tail(running))
      /\ IsInjective(Tail(running))
      /\ current \notin ToSet(Tail(running)) /\ current \notin ToSet(ready)
      /\ current \notin ToSet(sleeping) /\ current \notin Waiting
  BY <1>2, CurrentLeaves
<1> DEFINE s == Append(waitQ[q], current)
<1>4. /\ waitQ' = [waitQ EXCEPT ![q] = s]
      /\ ScheduleNext(ready, Tail(running), slice)
      /\ UNCHANGED <<pool, sleeping, name, total, ticks>>
  BY <1>2 DEF Block
<1>5. waitQ[q] \in Seq(Task) /\ IsInjective(waitQ[q]) /\ ToSet(waitQ[q]) \subseteq Waiting
  BY <1>1 DEF TypeOK, OnePlace, NoDuplicates, Waiting
<1>6. s \in Seq(Task) /\ ToSet(s) = ToSet(waitQ[q]) \cup {current} /\ IsInjective(s)
  BY <1>3, <1>5, AppendSet
<1> HIDE DEF s
<1>7. /\ waitQ' \in [WaitQueue -> Seq(Task)]
      /\ waitQ'[q] = s
      /\ \A p \in WaitQueue \ {q} : waitQ'[p] = waitQ[p]
      /\ Waiting' = Waiting \cup {current}
  <2>1. /\ waitQ' \in [WaitQueue -> Seq(Task)]
        /\ waitQ'[q] = s
        /\ \A p \in WaitQueue \ {q} : waitQ'[p] = waitQ[p]
        /\ Waiting' = ToSet(s) \cup UNION {ToSet(waitQ[p]) : p \in WaitQueue \ {q}}
        /\ Waiting = ToSet(waitQ[q]) \cup UNION {ToSet(waitQ[p]) : p \in WaitQueue \ {q}}
    BY <1>1, <1>4, <1>6, WaitingAfter
  <2>2. Waiting' = Waiting \cup {current}
    BY <1>6, <2>1
  <2> QED  BY <2>1, <2>2
<1>8. /\ ready' \in Seq(Task) /\ running' \in Seq(Task)
      /\ slice' \in [Task -> Nat]
      /\ current' \in Task \cup {Idle}
      /\ CurrentIsFront'
      /\ RunningBounded'
      /\ ToSet(ready') \cup ToSet(running') = ToSet(ready) \cup ToSet(Tail(running))
      /\ IsInjective(ready') /\ IsInjective(running')
      /\ ToSet(ready') \cap ToSet(running') = {}
      /\ \A t \in ToSet(running') :
            slice'[t] = 0 \/ (t \in ToSet(Tail(running)) /\ slice'[t] = slice[t])
  <2>1. /\ ready \in Seq(Task) /\ slice \in [Task -> Nat] /\ IsInjective(ready)
        /\ ToSet(ready) \cap ToSet(Tail(running)) = {}
    BY <1>1, <1>3 DEF TypeOK, OnePlace, NoDuplicates, Disjoint
  <2> QED  BY <1>3, <1>4, <2>1, ScheduleNextKeeps
<1>9. Alive' = Alive
  BY <1>4 DEF Alive
<1>10. TypeOK'
  BY <1>1, <1>4, <1>7, <1>8 DEF TypeOK
<1>11. OnePlace'
  <2>1. NoDuplicates'
    BY <1>1, <1>4, <1>6, <1>7, <1>8 DEF OnePlace, NoDuplicates
  <2>2. Disjoint'
    <3>1. ToSet(ready') \cap ToSet(running') = {}
      BY <1>8
    <3>2. ToSet(sleeping') \cap (ToSet(ready') \cup ToSet(running')) = {}
      BY <1>1, <1>3, <1>4, <1>8 DEF OnePlace, Disjoint
    <3>3. Waiting' \cap (ToSet(ready') \cup ToSet(running') \cup ToSet(sleeping')) = {}
      BY <1>1, <1>3, <1>4, <1>7, <1>8 DEF OnePlace, Disjoint
    <3>4. ASSUME NEW a \in WaitQueue, NEW b \in WaitQueue, a # b
          PROVE  ToSet(waitQ'[a]) \cap ToSet(waitQ'[b]) = {}
      <4>1. \A p \in WaitQueue : current \notin ToSet(waitQ[p])
        BY <1>3 DEF Waiting
      <4>2. ToSet(waitQ[a]) \cap ToSet(waitQ[b]) = {}
        BY <1>1, <3>4 DEF OnePlace, Disjoint
      <4>3. CASE a = q
        BY <1>6, <1>7, <3>4, <4>1, <4>2, <4>3
      <4>4. CASE b = q
        BY <1>6, <1>7, <3>4, <4>1, <4>2, <4>4
      <4>5. CASE a # q /\ b # q
        <5>1. waitQ'[a] = waitQ[a] /\ waitQ'[b] = waitQ[b]
          BY <1>7, <4>5
        <5> QED  BY <4>2, <5>1, Zenon
      <4> QED  BY <4>3, <4>4, <4>5
    <3> QED  BY <3>1, <3>2, <3>3, <3>4 DEF Disjoint
  <2>3. Alive' = ToSet(ready') \cup ToSet(running') \cup ToSet(sleeping') \cup Waiting'
    BY <1>1, <1>3, <1>4, <1>7, <1>8, <1>9 DEF OnePlace
  <2> QED  BY <2>1, <2>2, <2>3 DEF OnePlace
<1>12. NoOrphanWaiter'
  BY <1>1, <1>7, <1>9, TaskAssumption DEF NoOrphanWaiter
<1>13. TurnsPositive'
  BY <1>1, <1>4, <1>9 DEF TurnsPositive
<1>14. CountersInRange'
  <2>1. ASSUME NEW t \in ToSet(running')  PROVE  slice'[t] < total'[t]
    <3>1. t \in Alive
      BY <1>9, <1>11 DEF OnePlace
    <3> QED  BY <1>1, <1>3, <1>4, <1>8, <3>1 DEF CountersInRange, TurnsPositive
  <2> QED  BY <1>1, <1>4, <2>1 DEF CountersInRange
<1> QED  BY <1>8, <1>10, <1>11, <1>12, <1>13, <1>14 DEF IInv

(* SleepTask. *)
LEMMA SleepKeeps ==
    ASSUME IInv, NEW ms \in SleepMs, SleepTask(ms)
    PROVE  IInv'
<1>1. TypeOK /\ CurrentIsFront /\ RunningBounded /\ OnePlace /\ NoOrphanWaiter
      /\ CountersInRange /\ TurnsPositive
  BY DEF IInv
<1>2. running # <<>> /\ Head(running) = current
  BY <1>1 DEF CurrentIsFront, SleepTask
<1>3. /\ current \in Task /\ current \in Alive
      /\ Tail(running) \in Seq(Task)
      /\ Len(Tail(running)) <= MAX_RUNNING_TASK + 1
      /\ ToSet(running) = {current} \cup ToSet(Tail(running))
      /\ IsInjective(Tail(running))
      /\ current \notin ToSet(Tail(running)) /\ current \notin ToSet(ready)
      /\ current \notin ToSet(sleeping) /\ current \notin Waiting
  BY <1>2, CurrentLeaves
<1> DEFINE left == IF ms \div jiffy > 0 THEN ms \div jiffy ELSE 1
<1>4. left \in Nat /\ left > 0
  <2>1. ms \in Nat /\ jiffy \in Nat \ {0}
    BY BoundAssumption
  <2>2. ms \div jiffy \in Int
    BY <2>1
  <2> QED  BY <2>2
<1>5. /\ ticks' = [ticks EXCEPT ![current] = left]
      /\ sleeping' = <<current>> \o sleeping
      /\ ScheduleNext(ready, Tail(running), slice)
      /\ UNCHANGED <<pool, waitQ, name, total>>
  BY <1>2 DEF SleepTask
<1> HIDE DEF left
<1>6. /\ sleeping' \in Seq(Task) /\ ToSet(sleeping') = {current} \cup ToSet(sleeping)
      /\ IsInjective(sleeping')
  BY <1>1, <1>3, <1>5, ConsSet DEF TypeOK, OnePlace, NoDuplicates
<1>7. /\ ready' \in Seq(Task) /\ running' \in Seq(Task)
      /\ slice' \in [Task -> Nat]
      /\ current' \in Task \cup {Idle}
      /\ CurrentIsFront'
      /\ RunningBounded'
      /\ ToSet(ready') \cup ToSet(running') = ToSet(ready) \cup ToSet(Tail(running))
      /\ IsInjective(ready') /\ IsInjective(running')
      /\ ToSet(ready') \cap ToSet(running') = {}
      /\ \A t \in ToSet(running') :
            slice'[t] = 0 \/ (t \in ToSet(Tail(running)) /\ slice'[t] = slice[t])
  <2>1. /\ ready \in Seq(Task) /\ slice \in [Task -> Nat] /\ IsInjective(ready)
        /\ ToSet(ready) \cap ToSet(Tail(running)) = {}
    BY <1>1, <1>3 DEF TypeOK, OnePlace, NoDuplicates, Disjoint
  <2> QED  BY <1>3, <1>5, <2>1, ScheduleNextKeeps
<1>8. Alive' = Alive /\ Waiting' = Waiting
  BY <1>5 DEF Alive, Waiting
<1>9. ticks' \in [Task -> Nat] /\ \A t \in ToSet(sleeping') : ticks'[t] > 0
  <2>1. ticks' \in [Task -> Nat]
    BY <1>1, <1>4, <1>5 DEF TypeOK
  <2>2. ASSUME NEW t \in ToSet(sleeping')  PROVE  ticks'[t] > 0
    BY <1>1, <1>3, <1>4, <1>5, <1>6, QueuesOfTasks DEF TypeOK, CountersInRange
  <2> QED  BY <2>1, <2>2
<1>10. TypeOK'
  BY <1>1, <1>5, <1>6, <1>7, <1>9 DEF TypeOK
<1>11. OnePlace'
  <2>1. NoDuplicates'
    BY <1>1, <1>5, <1>6, <1>7 DEF OnePlace, NoDuplicates
  <2>2. Disjoint'
    <3>1. ToSet(ready') \cap ToSet(running') = {}
      BY <1>7
    <3>2. ToSet(sleeping') \cap (ToSet(ready') \cup ToSet(running')) = {}
      BY <1>1, <1>3, <1>6, <1>7 DEF OnePlace, Disjoint
    <3>3. Waiting' \cap (ToSet(ready') \cup ToSet(running') \cup ToSet(sleeping')) = {}
      BY <1>1, <1>3, <1>6, <1>7, <1>8 DEF OnePlace, Disjoint
    <3>4. \A a, b \in WaitQueue : a # b => ToSet(waitQ'[a]) \cap ToSet(waitQ'[b]) = {}
      BY <1>1, <1>5 DEF OnePlace, Disjoint
    <3> QED  BY <3>1, <3>2, <3>3, <3>4 DEF Disjoint
  <2>3. Alive' = ToSet(ready') \cup ToSet(running') \cup ToSet(sleeping') \cup Waiting'
    BY <1>1, <1>3, <1>6, <1>7, <1>8 DEF OnePlace
  <2> QED  BY <2>1, <2>2, <2>3 DEF OnePlace
<1>12. NoOrphanWaiter'
  BY <1>1, <1>5, <1>8 DEF NoOrphanWaiter
<1>13. TurnsPositive'
  BY <1>1, <1>5, <1>8 DEF TurnsPositive
<1>14. CountersInRange'
  <2>1. ASSUME NEW t \in ToSet(running')  PROVE  slice'[t] < total'[t]
    <3>1. t \in Alive
      BY <1>8, <1>11 DEF OnePlace
    <3> QED  BY <1>1, <1>3, <1>5, <1>7, <3>1 DEF CountersInRange, TurnsPositive
  <2> QED  BY <1>9, <2>1 DEF CountersInRange
<1> QED  BY <1>7, <1>10, <1>11, <1>12, <1>13, <1>14 DEF IInv

(* KillTask: the waiters of the current task become ready, its block is     *)
(* left by every queue.                                                     *)
LEMMA KillKeeps ==
    ASSUME IInv, KillTask
    PROVE  IInv'
<1>1. TypeOK /\ CurrentIsFront /\ RunningBounded /\ OnePlace /\ NoOrphanWaiter
      /\ CountersInRange /\ TurnsPositive
  BY DEF IInv
<1>2. running # <<>> /\ Head(running) = current
  BY <1>1 DEF CurrentIsFront, KillTask
<1>3. /\ current \in Task /\ current \in Alive
      /\ Tail(running) \in Seq(Task)
      /\ Len(Tail(running)) <= MAX_RUNNING_TASK + 1
      /\ ToSet(running) = {current} \cup ToSet(Tail(running))
      /\ IsInjective(Tail(running))
      /\ current \notin ToSet(Tail(running)) /\ current \notin ToSet(ready)
      /\ current \notin ToSet(sleeping) /\ current \notin Waiting
  BY <1>2, CurrentLeaves
<1> DEFINE waiters == waitQ[current]
           rdy == ready \o waiters
           slc == [slice EXCEPT ![current] = 0]
<1>4. /\ pool' = SelectIn(pool, Task \ {current})
      /\ waitQ' = [waitQ EXCEPT ![current] = <<>>]
      /\ name' = [name EXCEPT ![current] = NoName]
      /\ total' = [total EXCEPT ![current] = 0]
      /\ ScheduleNext(rdy, Tail(running), slc)
      /\ UNCHANGED <<sleeping, ticks>>
  BY <1>2 DEF KillTask, WaitQWithout, WokenBy
<1>5. current \in WaitQueue
  BY <1>3, TaskAssumption
<1>6. /\ waiters \in Seq(Task) /\ IsInjective(waiters)
      /\ ToSet(waiters) \subseteq Waiting
  BY <1>1, <1>5 DEF TypeOK, OnePlace, NoDuplicates, Waiting
<1>7. slc \in [Task -> Nat] /\ \A t \in Task \ {current} : slc[t] = slice[t]
  BY <1>1, <1>3 DEF TypeOK
<1>8. /\ pool' \in Seq(Task) /\ Alive' = Alive \ {current} /\ IsInjective(pool')
  <2>1. pool \in Seq(Task) /\ IsInjective(pool) /\ Alive \subseteq Task
    BY <1>1, QueuesOfTasks DEF TypeOK, OnePlace, NoDuplicates
  <2>2. /\ pool' \in Seq(Task) /\ ToSet(pool') = ToSet(pool) \cap (Task \ {current})
        /\ IsInjective(pool')
    BY <1>4, <2>1, SelectInSet
  <2> QED  BY <2>1, <2>2 DEF Alive
<1> HIDE DEF slc
<1>9. /\ waitQ' \in [WaitQueue -> Seq(Task)]
      /\ waitQ'[current] = <<>>
      /\ \A p \in WaitQueue \ {current} : waitQ'[p] = waitQ[p]
      /\ Waiting = Waiting' \cup ToSet(waiters)
      /\ Waiting' \cap ToSet(waiters) = {}
  <2> DEFINE Rest == UNION {ToSet(waitQ[p]) : p \in WaitQueue \ {current}}
  <2>1. <<>> \in Seq(Task) /\ ToSet(<<>>) = {}
    BY EmptySet
  <2>2. /\ waitQ' \in [WaitQueue -> Seq(Task)]
        /\ waitQ'[current] = <<>>
        /\ \A p \in WaitQueue \ {current} : waitQ'[p] = waitQ[p]
        /\ Waiting' = ToSet(<<>>) \cup Rest
        /\ Waiting = ToSet(waitQ[current]) \cup Rest
    BY <1>1, <1>4, <1>5, <2>1, WaitingAfter
  <2>3. Rest \cap ToSet(waiters) = {}
    <3>1. ASSUME NEW p \in WaitQueue \ {current}
          PROVE  ToSet(waitQ[p]) \cap ToSet(waiters) = {}
      BY <1>1, <1>5 DEF OnePlace, Disjoint
    <3> QED  BY <3>1
  <2> HIDE DEF Rest
  <2> QED  BY <2>1, <2>2, <2>3
<1> HIDE DEF waiters
<1>10. /\ rdy \in Seq(Task) /\ ToSet(rdy) = ToSet(ready) \cup ToSet(waiters)
       /\ IsInjective(rdy) /\ ToSet(rdy) \cap ToSet(Tail(running)) = {}
  <2>1. /\ ready \in Seq(Task) /\ IsInjective(ready)
        /\ ToSet(ready) \cap ToSet(waiters) = {}
        /\ ToSet(ready) \cap ToSet(running) = {}
        /\ ToSet(running) \cap ToSet(waiters) = {}
    BY <1>1, <1>6 DEF TypeOK, OnePlace, NoDuplicates, Disjoint
  <2>2. rdy \in Seq(Task) /\ ToSet(rdy) = ToSet(ready) \cup ToSet(waiters)
    BY <1>6, <2>1, ConcatSet
  <2>3. IsInjective(rdy)
    BY <1>6, <2>1, ConcatInjective
  <2> HIDE DEF rdy
  <2> QED  BY <1>3, <2>1, <2>2, <2>3
<1> HIDE DEF rdy
<1>11. /\ ready' \in Seq(Task) /\ running' \in Seq(Task)
       /\ slice' \in [Task -> Nat]
       /\ current' \in Task \cup {Idle}
       /\ CurrentIsFront'
       /\ RunningBounded'
       /\ ToSet(ready') \cup ToSet(running') = ToSet(rdy) \cup ToSet(Tail(running))
       /\ IsInjective(ready') /\ IsInjective(running')
       /\ ToSet(ready') \cap ToSet(running') = {}
       /\ \A t \in ToSet(running') :
             slice'[t] = 0 \/ (t \in ToSet(Tail(running)) /\ slice'[t] = slc[t])
  <2> DEFINE rest == Tail(running)
  <2>1. /\ rdy \in Seq(Task) /\ rest \in Seq(Task) /\ slc \in [Task -> Nat]
        /\ Len(rest) <= MAX_RUNNING_TASK + 1 /\ ScheduleNext(rdy, rest, slc)
    BY <1>3, <1>4, <1>7, <1>10
  <2>2. IsInjective(rdy) /\ IsInjective(rest) /\ ToSet(rdy) \cap ToSet(rest) = {}
    BY <1>3, <1>10
  <2> HIDE DEF rest
  <2>3. ToSet(ready') \cup ToSet(running') = ToSet(rdy) \cup ToSet(rest)
    BY <2>1, ScheduleNextKeeps
  <2>4. \A t \in ToSet(running') :
           slice'[t] = 0 \/ (t \in ToSet(rest) /\ slice'[t] = slc[t])
    BY <2>1, ScheduleNextKeeps
  <2>5. /\ ready' \in Seq(Task) /\ running' \in Seq(Task) /\ slice' \in [Task -> Nat]
        /\ current' \in Task \cup {Idle} /\ CurrentIsFront' /\ RunningBounded'
    BY <2>1, ScheduleNextKeeps
  <2>6. /\ IsInjective(ready') /\ IsInjective(running')
        /\ ToSet(ready') \cap ToSet(running') = {}
    BY <2>1, <2>2, ScheduleNextKeeps
  <2> QED  BY <2>3, <2>4, <2>5, <2>6 DEF rest
<1>12. current \notin ToSet(ready') \cup ToSet(running')
  BY <1>3, <1>6, <1>10, <1>11
<1>13. TypeOK'
  BY <1>1, <1>4, <1>8, <1>9, <1>11 DEF TypeOK
<1>14. OnePlace'
  <2>1. NoDuplicates'
    <3>1. \A p \in WaitQueue : IsInjective(waitQ'[p])
      BY <1>1, <1>9, EmptySet DEF OnePlace, NoDuplicates
    <3> QED  BY <1>1, <1>4, <1>8, <1>11, <3>1 DEF OnePlace, NoDuplicates
  <2>2. Disjoint'
    <3>1. ToSet(ready') \cap ToSet(running') = {}
      BY <1>11
    <3>2. ToSet(sleeping') \cap (ToSet(ready') \cup ToSet(running')) = {}
      BY <1>1, <1>3, <1>4, <1>6, <1>10, <1>11 DEF OnePlace, Disjoint
    <3>3. Waiting' \cap (ToSet(ready') \cup ToSet(running') \cup ToSet(sleeping')) = {}
      BY <1>1, <1>3, <1>4, <1>9, <1>10, <1>11 DEF OnePlace, Disjoint
    <3>4. ASSUME NEW a \in WaitQueue, NEW b \in WaitQueue, a # b
          PROVE  ToSet(waitQ'[a]) \cap ToSet(waitQ'[b]) = {}
      <4>1. ToSet(waitQ[a]) \cap ToSet(waitQ[b]) = {}
        BY <1>1, <3>4 DEF OnePlace, Disjoint
      <4>2. CASE a = current \/ b = current
        BY <1>9, <4>2, EmptySet
      <4>3. CASE a # current /\ b # current
        BY <1>9, <4>1, <4>3
      <4> QED  BY <4>2, <4>3
    <3> QED  BY <3>1, <3>2, <3>3, <3>4 DEF Disjoint
  <2>3. Alive' = ToSet(ready') \cup ToSet(running') \cup ToSet(sleeping') \cup Waiting'
    <3>1. Alive = ToSet(ready) \cup ToSet(running) \cup ToSet(sleeping) \cup Waiting
      BY <1>1 DEF OnePlace
    <3> QED  BY <1>3, <1>4, <1>8, <1>9, <1>10, <1>11, <1>12, <3>1
  <2> QED  BY <2>1, <2>2, <2>3 DEF OnePlace
<1>15. NoOrphanWaiter'
  BY <1>1, <1>8, <1>9, TaskAssumption DEF NoOrphanWaiter
<1>16. \A t \in Task \ {current} : total'[t] = total[t]
  BY <1>1, <1>4 DEF TypeOK
<1>17. TurnsPositive'
  BY <1>1, <1>8, <1>16, QueuesOfTasks DEF TurnsPositive
<1>18. CountersInRange'
  <2>1. ASSUME NEW t \in ToSet(running')  PROVE  slice'[t] < total'[t]
    <3>1. t \in Alive' /\ t \in Alive /\ t # current /\ t \in Task
      BY <1>1, <1>8, <1>14, QueuesOfTasks DEF OnePlace
    <3>2. total'[t] = total[t] /\ total[t] > 0 /\ slc[t] = slice[t]
      BY <1>1, <1>7, <1>16, <3>1 DEF TurnsPositive
    <3>3. CASE slice'[t] = 0
      BY <3>2, <3>3
    <3>4. CASE t \in ToSet(Tail(running)) /\ slice'[t] = slc[t]
      <4>1. slice[t] < total[t]
        BY <1>1, <1>3, <3>4 DEF CountersInRange
      <4> QED  BY <3>2, <3>4, <4>1
    <3> QED  BY <1>11, <3>3, <3>4
  <2> QED  BY <1>1, <1>4, <2>1 DEF CountersInRange
<1> QED  BY <1>11, <1>13, <1>14, <1>15, <1>17, <1>18 DEF IInv

(* Every step of the scheduler keeps the invariant. *)
LEMMA NextKeeps == IInv /\ [Next]_schedVars => IInv'
<1> SUFFICES ASSUME IInv, [Next]_schedVars  PROVE  IInv'
  OBVIOUS
<1>1. CASE Tick
  BY <1>1, TickKeeps
<1>2. CASE KillTask
  BY <1>2, KillKeeps
<1>3. ASSUME NEW n \in Name, NEW p \in Priority, Register(n, p)  PROVE  IInv'
  BY <1>3, RegisterKeeps
<1>4. ASSUME NEW n \in Name, WaitTask(n)  PROVE  IInv'
  <2>1. PICK target \in FindTaskByName(n) : Block(target)
    BY <1>4 DEF WaitTask
  <2>2. target \in Task /\ \E i \in DOMAIN pool : pool[i] = target
    BY <2>1 DEF FindTaskByName
  <2>3. target \in Alive
    BY <2>2 DEF Alive, ToSet
  <2>4. target \in WaitQueue /\ current # Idle
    BY <1>4, <2>2, TaskAssumption DEF WaitTask
  <2> QED  BY <2>1, <2>3, <2>4, BlockKeeps
<1>5. ASSUME NEW ms \in SleepMs, SleepTask(ms)  PROVE  IInv'
  BY <1>5, SleepKeeps
<1>6. CASE UNCHANGED schedVars
  BY <1>6 DEF schedVars, IInv, TypeOK, CurrentIsFront, RunningBounded, OnePlace,
       NoDuplicates, Disjoint, Waiting, Alive, NoOrphanWaiter, CountersInRange, TurnsPositive
<1> QED  BY <1>1, <1>2, <1>3, <1>4, <1>5, <1>6 DEF Next

-----------------------------------------------------------------------------
(* The invariant holds in every reachable state, for any number of tasks. *)
THEOREM Invariant == Spec => []IInv
<1> QED  BY InitEstablishes, NextKeeps, PTL DEF Spec

(* Every variable of task.c keeps a value of its type. *)
THEOREM TypeCorrect == Spec => []TypeOK
<1>1. IInv => TypeOK
  BY DEF IInv
<1> QED  BY <1>1, Invariant, PTL

(* The processor runs the front of the running queue, so the handlers that  *)
(* remove the front remove the task that made the call.                     *)
THEOREM CurrentRuns == Spec => []CurrentIsFront
<1>1. IInv => CurrentIsFront
  BY DEF IInv
<1> QED  BY <1>1, Invariant, PTL

(* A task of the pool is linked into exactly one queue and a freed block    *)
(* into none.                                                               *)
THEOREM TasksInOnePlace == Spec => []OnePlace
<1>1. IInv => OnePlace
  BY DEF IInv
<1> QED  BY <1>1, Invariant, PTL

(* A block is freed, and used again, with an empty wait queue. *)
THEOREM NoOrphans == Spec => []NoOrphanWaiter
<1>1. IInv => NoOrphanWaiter
  BY DEF IInv
<1> QED  BY <1>1, Invariant, PTL

(* No counter passes the value it is compared with for equality. *)
THEOREM CountersStayInRange == Spec => []CountersInRange
<1>1. IInv => CountersInRange
  BY DEF IInv
<1> QED  BY <1>1, Invariant, PTL

(* MAX_RUNNING_TASK bounds the running queue but for one task. *)
THEOREM RunningQueueBounded == Spec => []RunningBounded
<1>1. IInv => RunningBounded
  BY DEF IInv
<1> QED  BY <1>1, Invariant, PTL

-----------------------------------------------------------------------------
(***************************************************************************)
(* What a step of the scheduler may never do, from the invariant before    *)
(* and after the step.                                                     *)
(***************************************************************************)

(* ReadyToRunning leaves a ready task only behind a full running queue, and *)
(* the tasks it takes are the first ones.                                   *)
LEMMA ScheduleNextTakes ==
    ASSUME NEW rdy \in Seq(Task), NEW run \in Seq(Task), NEW slc,
           Len(run) <= MAX_RUNNING_TASK + 1,
           ScheduleNext(rdy, run, slc)
    PROVE  /\ ready' = <<>> \/ Len(running') = MAX_RUNNING_TASK + 1
           /\ ToSet(run) \subseteq ToSet(running')
           /\ ToSet(ready') \subseteq ToSet(rdy)
           /\ \A i \in 1 .. Len(rdy) :
                \/ rdy[i] \in ToSet(ready')
                \/ \A j \in 1 .. i : rdy[j] \in ToSet(running')
<1> DEFINE k == Moved(rdy, run)
           moved == SubSeq(rdy, 1, k)
           left == SubSeq(rdy, k + 1, Len(rdy))
           full == run \o moved
<1>1. /\ k \in 0 .. Len(rdy) /\ Len(run) + k <= MAX_RUNNING_TASK + 1
      /\ k = Len(rdy) \/ Len(run) + k = MAX_RUNNING_TASK + 1
  BY BoundAssumption DEF Moved
<1>2. ready' = left /\ running' = Rotate(full)
  BY DEF ScheduleNext, Promoted, Left
<1> HIDE DEF k
<1>3. /\ moved \in Seq(Task) /\ left \in Seq(Task) /\ Len(moved) = k
      /\ ToSet(rdy) = ToSet(moved) \cup ToSet(left)
  BY <1>1, CutSet
<1>4. /\ \A i \in 1 .. k : moved[i] = rdy[i]
      /\ Len(left) = Len(rdy) - k
      /\ \A i \in 1 .. Len(left) : left[i] = rdy[k + i]
  <2>1. \A i \in 1 .. k : moved[i] = rdy[i]
    BY <1>1
  <2>2. Len(left) = Len(rdy) - k
    BY <1>1
  <2>3. \A i \in 1 .. Len(rdy) - k : left[i] = rdy[k + 1 + i - 1]
    BY <1>1
  <2>4. \A i \in 1 .. Len(rdy) - k : k + 1 + i - 1 = k + i
    BY <1>1
  <2> HIDE DEF moved, left
  <2> QED  BY <2>1, <2>2, <2>3, <2>4
<1> HIDE DEF moved, left
<1>5. full \in Seq(Task) /\ Len(full) = Len(run) + k
  BY <1>3, ConcatProperties
<1>6. ToSet(full) = ToSet(run) \cup ToSet(moved)
  BY <1>3, ConcatSet
<1> HIDE DEF full
<1>7. Len(running') = Len(full) /\ ToSet(running') = ToSet(full)
  BY <1>2, <1>5, RotateSet
<1>8. ready' = <<>> \/ Len(running') = MAX_RUNNING_TASK + 1
  <2>1. CASE k = Len(rdy)
    <3>1. Len(left) = 0
      BY <1>4, <2>1
    <3> QED  BY <1>2, <1>3, <3>1
  <2>2. CASE Len(run) + k = MAX_RUNNING_TASK + 1
    BY <1>5, <1>7, <2>2
  <2> QED  BY <1>1, <2>1, <2>2
<1>9. ASSUME NEW i \in 1 .. Len(rdy), rdy[i] \notin ToSet(ready')
      PROVE  \A j \in 1 .. i : rdy[j] \in ToSet(running')
  <2>1. i <= k
    <3>1. SUFFICES ASSUME i > k  PROVE  rdy[i] \in ToSet(left)
      BY <1>1, <1>2, <1>9
    <3>2. i - k \in 1 .. Len(left) /\ left[i - k] = rdy[i]
      BY <1>1, <1>4, <3>1
    <3> QED  BY <1>3, <3>2 DEF ToSet
  <2>2. ASSUME NEW j \in 1 .. i  PROVE  rdy[j] \in ToSet(moved)
    <3>1. j \in 1 .. k /\ moved[j] = rdy[j] /\ DOMAIN moved = 1 .. k
      BY <1>1, <1>3, <1>4, <2>1
    <3> QED  BY <3>1 DEF ToSet
  <2> QED  BY <1>6, <1>7, <2>2
<1> QED  BY <1>2, <1>3, <1>6, <1>7, <1>8, <1>9

(* What a handler that ends in ScheduleNext does to the ready queue: its    *)
(* old members come first in the queue ScheduleNext is given, so none       *)
(* leaves before those in front of it.                                      *)
ReadyInOrder ==
    \A i, j \in DOMAIN ready : i < j /\ ready[j] \notin ToSet(ready')
        => ready[i] \notin ToSet(ready')

LEMMA LeavesInOrder ==
    ASSUME ready \in Seq(Task), IInv',
           NEW more \in Seq(Task), NEW run \in Seq(Task), NEW slc,
           Len(run) <= MAX_RUNNING_TASK + 1,
           ScheduleNext(ready \o more, run, slc)
    PROVE  ReadyInOrder
<1> DEFINE rdy == ready \o more
<1>1. /\ rdy \in Seq(Task) /\ Len(ready) <= Len(rdy)
      /\ \A i \in 1 .. Len(ready) : rdy[i] = ready[i]
  OBVIOUS
<1> HIDE DEF rdy
<1>2. \A i \in 1 .. Len(rdy) :
        \/ rdy[i] \in ToSet(ready')
        \/ \A j \in 1 .. i : rdy[j] \in ToSet(running')
  BY <1>1, ScheduleNextTakes DEF rdy
<1>3. ToSet(ready') \cap ToSet(running') = {}
  BY DEF IInv, OnePlace, Disjoint
<1>4. ASSUME NEW i \in 1 .. Len(ready), NEW j \in 1 .. Len(ready),
             i < j, ready[j] \notin ToSet(ready')
      PROVE  ready[i] \notin ToSet(ready')
  <2>1. i \in 1 .. j /\ j \in 1 .. Len(rdy) /\ rdy[i] = ready[i] /\ rdy[j] = ready[j]
    BY <1>1, <1>4
  <2>2. rdy[i] \in ToSet(running')
    BY <1>2, <1>4, <2>1
  <2> QED  BY <1>3, <2>1, <2>2
<1>5. DOMAIN ready = 1 .. Len(ready)
  OBVIOUS
<1> QED  BY <1>4, <1>5 DEF ReadyInOrder

-----------------------------------------------------------------------------
(* The handlers seen from the ready and the running queue.  Register adds a *)
(* ready task.  Every other one gives ScheduleNext the ready queue with     *)
(* tasks added at its end, and the running queue as it is or without its    *)
(* front; a front that stays alive, and is not put elsewhere, comes back    *)
(* only as the end of a turn.                                               *)
Handled(more, run, slc) ==
    /\ ScheduleNext(ready \o more, run, slc)
    /\ run = running \/ (running # <<>> /\ run = Tail(running))

LEMMA TickHandled ==
    ASSUME IInv, Tick
    PROVE  \E more \in Seq(Task) : \E run, slc :
              Handled(more, run, slc) /\ (run # running => TurnOver)
<1> DEFINE woken == SelectIn(sleeping, Woken)
           slc == [t \in Task |-> IF t = current THEN slice[t] + 1 ELSE slice[t]]
<1>1. ready \in Seq(Task) /\ running \in Seq(Task) /\ woken \in Seq(Task)
  BY SelectInSet DEF IInv, TypeOK
<1>2. CASE TurnOver
  <2> DEFINE h == Head(running)
             more == Append(woken, h)
  <2>1. running # <<>>
    BY <1>2 DEF TurnOver
  <2>2. h \in Task
    BY <1>1, <2>1
  <2>3. ScheduleNext(Append(ready \o woken, h), Tail(running), slc)
    BY <1>2 DEF Tick, Requeued
  <2> HIDE DEF woken, h, slc
  <2>4. more \in Seq(Task) /\ Append(ready \o woken, h) = ready \o more
    <3>1. more \in Seq(Task) /\ more = woken \o <<h>>
      BY <1>1, <2>2, AppendIsConcat
    <3>2. ready \o woken \in Seq(Task) /\ <<h>> \in Seq(Task)
      BY <1>1, <2>2
    <3>3. Append(ready \o woken, h) = (ready \o woken) \o <<h>>
      BY <2>2, <3>2, AppendIsConcat
    <3> QED  BY <1>1, <3>1, <3>2, <3>3, ConcatAssociative
  <2> QED  BY <1>2, <2>1, <2>3, <2>4 DEF Handled
<1>3. CASE ~ TurnOver
  <2>1. ScheduleNext(ready \o woken, running, slc)
    BY <1>3 DEF Tick, Requeued
  <2> QED  BY <1>1, <2>1 DEF Handled
<1> QED  BY <1>2, <1>3

LEMMA KillHandled ==
    ASSUME IInv, KillTask
    PROVE  \E more \in Seq(Task) : \E run, slc : Handled(more, run, slc)
<1>1. TypeOK /\ CurrentIsFront
  BY DEF IInv
<1>2. running # <<>> /\ Head(running) = current /\ current \in Task
  BY <1>1 DEF CurrentIsFront, KillTask, TypeOK
<1>3. waitQ[current] \in Seq(Task)
  BY <1>1, <1>2, TaskAssumption DEF TypeOK
<1>4. ScheduleNext(ready \o waitQ[current], Tail(running), [slice EXCEPT ![current] = 0])
  BY <1>2 DEF KillTask, WokenBy
<1> QED  BY <1>2, <1>3, <1>4 DEF Handled

LEMMA BlockHandled ==
    ASSUME IInv, NEW q, Block(q)
    PROVE  \E more \in Seq(Task) : \E run, slc : Handled(more, run, slc)
<1>1. ready \in Seq(Task) /\ <<>> \in Seq(Task)
  BY EmptySet DEF IInv, TypeOK
<1>2. ready \o <<>> = ready
  BY <1>1
<1>3. \E run : ScheduleNext(ready, run, slice)
              /\ (run = running \/ (running # <<>> /\ run = Tail(running)))
  BY DEF Block
<1> QED  BY <1>1, <1>2, <1>3 DEF Handled

LEMMA SleepHandled ==
    ASSUME IInv, NEW ms, SleepTask(ms)
    PROVE  \E more \in Seq(Task) : \E run, slc : Handled(more, run, slc)
<1>1. ready \in Seq(Task) /\ <<>> \in Seq(Task)
  BY EmptySet DEF IInv, TypeOK
<1>2. ready \o <<>> = ready
  BY <1>1
<1>3. running # <<>> /\ ScheduleNext(ready, Tail(running), slice)
  BY DEF SleepTask
<1> QED  BY <1>1, <1>2, <1>3 DEF Handled

LEMMA NextHandled ==
    ASSUME IInv, Next
    PROVE  \/ \E more \in Seq(Task) : \E run, slc : Handled(more, run, slc)
           \/ \E t \in Task \ Alive : ready' = Append(ready, t) /\ running' = running
<1>1. CASE Tick
  BY <1>1, TickHandled
<1>2. CASE KillTask
  BY <1>2, KillHandled
<1>3. ASSUME NEW n \in Name, NEW p \in Priority, Register(n, p)
      PROVE  \E t \in Task \ Alive : ready' = Append(ready, t) /\ running' = running
  BY <1>3 DEF Register
<1>4. ASSUME NEW n \in Name, WaitTask(n)
      PROVE  \E more \in Seq(Task) : \E run, slc : Handled(more, run, slc)
  BY <1>4, BlockHandled DEF WaitTask
<1>5. ASSUME NEW ms \in SleepMs, SleepTask(ms)
      PROVE  \E more \in Seq(Task) : \E run, slc : Handled(more, run, slc)
  BY <1>5, SleepHandled
<1> QED  BY <1>1, <1>2, <1>3, <1>4, <1>5 DEF Next

-----------------------------------------------------------------------------
(* What a handler that ends in ScheduleNext does to the three queues.       *)
LEMMA HandledKeeps ==
    ASSUME IInv, IInv', NEW more \in Seq(Task), NEW run, NEW slc, Handled(more, run, slc)
    PROVE  /\ ready' = <<>> \/ Len(running') = MAX_RUNNING_TASK + 1
           /\ ToSet(run) \subseteq ToSet(running')
           /\ ReadyInOrder
<1>1. /\ ready \in Seq(Task) /\ running \in Seq(Task)
      /\ Len(running) <= MAX_RUNNING_TASK + 1
  BY DEF IInv, TypeOK, RunningBounded
<1>2. run \in Seq(Task) /\ Len(run) <= MAX_RUNNING_TASK + 1
  <2>1. CASE run = running
    BY <1>1, <2>1
  <2>2. CASE running # <<>> /\ run = Tail(running)
    BY <1>1, <2>2, BoundAssumption
  <2> QED  BY <2>1, <2>2 DEF Handled
<1>3. ready \o more \in Seq(Task) /\ ScheduleNext(ready \o more, run, slc)
  BY <1>1 DEF Handled
<1> QED  BY <1>1, <1>2, <1>3, ScheduleNextTakes, LeavesInOrder

(* A ready task is left behind only when the running queue is full. *)
THEOREM WorkIsConserved == Spec => WorkConserving
<1> DEFINE Step == running' # running =>
                      ready' = <<>> \/ Len(running') = MAX_RUNNING_TASK + 1
<1>1. ASSUME IInv, IInv', [Next]_schedVars  PROVE  Step
  BY <1>1, NextHandled, HandledKeeps DEF schedVars
<1>2. IInv /\ IInv' /\ [Next]_schedVars => [Step]_schedVars
  BY <1>1
<1> QED  BY <1>2, Invariant, PTL DEF Spec, WorkConserving

(* The ready queue is first in, first out. *)
THEOREM NobodyOvertakes == Spec => ReadyIsFIFO
<1>1. ASSUME IInv, IInv', [Next]_schedVars  PROVE  ReadyInOrder
  <2>1. ready \in Seq(Task)
    BY <1>1 DEF IInv, TypeOK
  <2>2. CASE UNCHANGED schedVars
    BY <2>1, <2>2 DEF schedVars, ReadyInOrder, ToSet
  <2>3. ASSUME NEW t \in Task, ready' = Append(ready, t)  PROVE  ReadyInOrder
    <3>1. ToSet(ready') = ToSet(ready) \cup {t}
      BY <2>1, <2>3, AppendSet
    <3> QED  BY <3>1 DEF ReadyInOrder, ToSet
  <2> QED  BY <1>1, <2>2, <2>3, NextHandled, HandledKeeps
<1>2. IInv /\ IInv' /\ [Next]_schedVars => [ReadyInOrder]_schedVars
  BY <1>1
<1>3. [][ReadyInOrder]_schedVars => ReadyIsFIFO
  BY PTL DEF ReadyIsFIFO, ReadyInOrder
<1> QED  BY <1>2, <1>3, Invariant, PTL DEF Spec

-----------------------------------------------------------------------------
(* Only the front of the running queue can end up in the ready queue.       *)
LEMMA OnlyTheFrontLeaves ==
    ASSUME IInv, IInv', NEW more \in Seq(Task), NEW run, NEW slc, Handled(more, run, slc),
           NEW t \in ToSet(running), t \in ToSet(ready')
    PROVE  t = current /\ run # running
<1>1. ToSet(run) \subseteq ToSet(running')
  BY HandledKeeps
<1>2. ToSet(ready') \cap ToSet(running') = {}
  BY DEF IInv, OnePlace, Disjoint
<1>3. t \notin ToSet(run)
  BY <1>1, <1>2
<1>4. running # <<>> /\ run = Tail(running)
  BY <1>3 DEF Handled
<1>5. ToSet(running) = {current} \cup ToSet(Tail(running))
  BY <1>4, CurrentLeaves
<1> QED  BY <1>3, <1>4, <1>5

(* A handler that puts the front elsewhere never makes it ready.            *)
LEMMA CurrentNotReadied ==
    ASSUME IInv, IInv', running # <<>>,
           \/ KillTask
           \/ \E ms \in SleepMs : SleepTask(ms)
           \/ \E n \in Name : WaitTask(n)
    PROVE  current \notin ToSet(ready')
<1>1. TypeOK /\ TypeOK' /\ OnePlace' /\ current = Head(running) /\ current \in Task
  BY CurrentLeaves DEF IInv
<1>2. CASE KillTask
  <2>1. pool \in Seq(Task) /\ pool' = SelectIn(pool, Task \ {current})
    BY <1>1, <1>2 DEF KillTask, TypeOK
  <2>2. current \notin Alive'
    BY <2>1, SelectInSet DEF Alive
  <2> QED  BY <1>1, <2>2 DEF OnePlace
<1>3. ASSUME NEW ms \in SleepMs, SleepTask(ms)
      PROVE  current \notin ToSet(ready')
  <2>1. sleeping \in Seq(Task) /\ sleeping' = <<current>> \o sleeping
    BY <1>1, <1>3 DEF SleepTask, TypeOK
  <2>2. sleeping'[1] = current /\ 1 \in DOMAIN sleeping'
    BY <1>1, <2>1
  <2>3. current \in ToSet(sleeping')
    BY <2>2 DEF ToSet
  <2> QED  BY <1>1, <2>3 DEF OnePlace, Disjoint
<1>4. ASSUME NEW n \in Name, WaitTask(n)
      PROVE  current \notin ToSet(ready')
  <2>1. PICK q \in Task : Block(q)
    BY <1>4 DEF WaitTask, FindTaskByName
  <2>2. q \in WaitQueue /\ waitQ[q] \in Seq(Task)
        /\ waitQ' = [waitQ EXCEPT ![q] = Append(waitQ[q], current)]
    BY <1>1, <2>1, TaskAssumption DEF Block, TypeOK
  <2>3. waitQ'[q] = Append(waitQ[q], current)
    BY <1>1, <2>2 DEF TypeOK
  <2>4. current \in ToSet(waitQ'[q])
    BY <1>1, <2>2, <2>3, AppendSet
  <2>5. current \in Waiting'
    BY <2>2, <2>4 DEF Waiting
  <2> QED  BY <1>1, <2>5 DEF OnePlace, Disjoint
<1> QED  BY <1>2, <1>3, <1>4

(* A task goes back to the ready queue only at the end of its turn. *)
THEOREM TurnsAreUsedUp == Spec => TurnIsUsedUp
<1> DEFINE Step == \A t \in ToSet(running) : t \in ToSet(ready') =>
                      t = current /\ slice[t] + 1 = total[t]
<1>1. ASSUME IInv, IInv', [Next]_schedVars  PROVE  Step
  <2> SUFFICES ASSUME NEW t \in ToSet(running), t \in ToSet(ready')
               PROVE  t = current /\ slice[t] + 1 = total[t]
    OBVIOUS
  <2>1. ToSet(ready) \cap ToSet(running) = {} /\ running # <<>> /\ t \in Alive
    BY <1>1 DEF IInv, OnePlace, Disjoint, ToSet
  <2>2. CASE Tick
    BY <1>1, <2>2, TickHandled, OnlyTheFrontLeaves DEF TurnOver
  <2>3. CASE \/ KillTask
             \/ \E ms \in SleepMs : SleepTask(ms)
             \/ \E n \in Name : WaitTask(n)
    <3>1. \E more \in Seq(Task) : \E run, slc : Handled(more, run, slc)
      BY <1>1, <2>3, KillHandled, SleepHandled, BlockHandled DEF WaitTask
    <3>2. t = current
      BY <1>1, <3>1, OnlyTheFrontLeaves
    <3> QED  BY <1>1, <2>1, <2>3, <3>2, CurrentNotReadied
  <2>4. ASSUME NEW n \in Name, NEW p \in Priority, Register(n, p)
        PROVE  FALSE
    <3>1. PICK u \in Task \ Alive : ready' = Append(ready, u)
      BY <2>4 DEF Register
    <3>2. ToSet(ready') = ToSet(ready) \cup {u}
      BY <1>1, <3>1, AppendSet DEF IInv, TypeOK
    <3> QED  BY <2>1, <3>1, <3>2
  <2>5. CASE UNCHANGED schedVars
    BY <2>1, <2>5 DEF schedVars
  <2> QED  BY <1>1, <2>2, <2>3, <2>4, <2>5 DEF Next
<1>2. IInv /\ IInv' /\ [Next]_schedVars => [Step]_schedVars
  BY <1>1
<1> QED  BY <1>2, Invariant, PTL DEF Spec, TurnIsUsedUp

(* Only the death of the task a task waits for lets it out of the queue.    *)
THEOREM WaitsForTheDead == Spec => WaitEndsWithTarget
<1> DEFINE Step == \A t \in Task :
                      ToSet(waitQ[t]) \ ToSet(waitQ'[t]) # {} => t \notin Alive'
<1>1. ASSUME IInv, [Next]_schedVars  PROVE  Step
  <2> SUFFICES ASSUME NEW t \in Task, ToSet(waitQ[t]) \ ToSet(waitQ'[t]) # {}
               PROVE  t \notin Alive'
    OBVIOUS
  <2>1. TypeOK /\ t \in WaitQueue /\ waitQ'[t] # waitQ[t]
    BY <1>1, TaskAssumption DEF IInv
  <2>2. CASE KillTask
    <3>1. t = Head(running) /\ pool' = SelectIn(pool, Task \ {Head(running)})
      BY <2>1, <2>2 DEF KillTask, WaitQWithout, TypeOK
    <3> QED  BY <2>1, <3>1, SelectInSet DEF Alive, TypeOK
  <2>3. ASSUME NEW n \in Name, NEW p \in Priority, Register(n, p)
        PROVE  FALSE
    <3>1. PICK u \in Task \ Alive : waitQ' = [waitQ EXCEPT ![u] = <<>>]
      BY <2>3 DEF Register
    <3>2. t = u /\ waitQ[u] = <<>>
      BY <1>1, <2>1, <3>1 DEF TypeOK, IInv, NoOrphanWaiter
    <3> QED  BY <3>2 DEF ToSet
  <2>4. ASSUME NEW n \in Name, WaitTask(n)
        PROVE  FALSE
    <3>1. PICK q \in Task : Block(q)
      BY <2>4 DEF WaitTask, FindTaskByName
    <3>2. waitQ' = [waitQ EXCEPT ![q] = Append(waitQ[q], current)]
          /\ current = Head(running) /\ running # <<>>
      BY <2>1, <3>1 DEF Block
    <3>3. t = q /\ waitQ'[t] = Append(waitQ[t], current) /\ waitQ[t] \in Seq(Task)
      BY <2>1, <3>2 DEF TypeOK
    <3>4. current \in Task
      BY <1>1, <3>2, CurrentLeaves
    <3> QED  BY <3>3, <3>4, AppendSet
  <2>5. CASE UNCHANGED waitQ
    BY <2>1, <2>5
  <2> QED  BY <1>1, <2>2, <2>3, <2>4, <2>5 DEF Next, Tick, SleepTask, schedVars
<1>2. IInv /\ [Next]_schedVars => [Step]_schedVars
  BY <1>1
<1> QED  BY <1>2, Invariant, PTL DEF Spec, WaitEndsWithTarget
=============================================================================
