SPECIFICATION ClientSpec
CONSTANTS
    Task = {t1, t2, t3}
    Idle = idle
    MutexAddr = {m1}
    WaitQueue = {t1, t2, t3, m1}
    Unlocked = unlocked
    NoMutex = noMutex
    UsedType = {"Normal", "Strict"}
    Name = {initName}
    InitName = initName
    IdleName = idleName
    NoName = noName
    Priority = {1}
    InitPriority = 1
    MAX_RUNNING_TASK = 1
    MAX_RUNNING_TICK = 2
    SleepMs = {0}
    jiffy = 10
SYMMETRY TaskSymmetry
INVARIANTS SectionIsLocked WaitersOnlyIfLocked StrictOwnerNeverWaits
PROPERTIES ImplementsLock
