SPECIFICATION Spec
CONSTANTS
    PAGE_MAX = 7
    FrameBase = 1
    FrameMax = 10
    DataPage = 11
    MaxTasks = 10
CHECK_DEADLOCK FALSE
INVARIANTS FramesHeldOnce NoFrameLeaked FaultsDoNotNest
PROPERTIES NoTableLost
