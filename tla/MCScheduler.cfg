SPECIFICATION FairSpec
CONSTANTS
    Task = {t1, t2, t3}
    Idle = idle
    WaitQueue = {t1, t2, t3}
    Name = {initName}
    InitName = initName
    IdleName = idleName
    NoName = noName
    Priority = {1}
    InitPriority = 1
    MAX_RUNNING_TASK = 1
    MAX_RUNNING_TICK = 3
    SleepMs = {20}
    jiffy = 10
INVARIANTS TypeOK CurrentIsFront OnePlace CountersInRange
PROPERTIES TurnIsUsedUp WorkConserving ReadyIsFIFO WaitEndsWithTarget
           SleeperWakes RoundRobin
