-------------------------------- MODULE Lock ---------------------------------
(* What a mutex promises: at any time at most one task is in its section.  *)
CONSTANTS Task, MutexAddr

VARIABLE holders     \* the tasks in the section of each mutex

Init == holders = [m \in MutexAddr |-> {}]

Acquire(m, t) ==
    /\ holders[m] = {}
    /\ holders' = [holders EXCEPT ![m] = {t}]

Release(m, t) ==
    /\ holders[m] = {t}
    /\ holders' = [holders EXCEPT ![m] = {}]

Next == \E m \in MutexAddr, t \in Task : Acquire(m, t) \/ Release(m, t)

Spec == Init /\ [][Next]_holders

(* Mutual exclusion: a section never holds two tasks. *)
MutualExclusion == \A m \in MutexAddr : \A t, u \in holders[m] : t = u
=============================================================================
