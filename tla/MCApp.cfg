SPECIFICATION AppSpec
CONSTANTS
    taskA = taskA
    taskB = taskB
    Task = {t1, t2, t3}
    Idle = idle
    MutexAddr = {m1}
    WaitQueue = {t1, t2, t3, m1}
    Unlocked = unlocked
    NoMutex = noMutex
    UsedType = {"Strict"}
    AppMutex = m1
    Creator = creator
    Destroyer = destroyer
    Workers <- TwoWorkers
    Rounds = 2
    Name = {initName, creator, destroyer, taskA, taskB}
    InitName = initName
    IdleName = idleName
    NoName = noName
    Priority = {1}
    InitPriority = 1
    MAX_RUNNING_TASK = 1
    MAX_RUNNING_TICK = 3
    SleepMs = {0}
    jiffy = 10
INVARIANTS LeavesAsOwner MutexOutlivesWorkers IncrementsCount
PROPERTIES Terminates
