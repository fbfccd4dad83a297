SPECIFICATION MCSpec
SYMMETRY NodeSymmetry
CHECK_DEADLOCK FALSE
CONSTANTS
    Queue = {q1, q2}
    Stack = {s1}
    Bare = {nul, b1}
    Node = {v, n1, n2, n3}
    gMutexList = nul
    Vector = v
    TreeNode = {v, n1, n2, n3}
    root = v
    NoNode = NoNode
    BytsPerSec = 8
    RootEntryOffset = 5
    RootEntryLength = 3
    FatTableOffset = 1
    FatTableLength = 2
    ClusterOffset = 6
    BaseOfBoot = 0
    BootBuffer = 6
    FAT1Address = 8
    BaseOfLoader = 24
    BaseOfKernel = 40
    BaseOfAPP = 64
    Segment = 16
    MemSize = 80
    LoadBin = LoadBin
    KernelBin = KernelBin
    OtherName = OtherName
    Disks <- MCDisks
    ZONE_RESERVED = 2
    MEM_LIST_NUM = 3
    WordRange = 75
    Maps <- MCZones
    CharCount = 7
    Char = {0, 1, 2}
INVARIANT LinksHoldMembers
INVARIANT ReadersAgree
INVARIANT TreeAgrees
INVARIANT LoadedWhole
INVARIANT MemoryDividedOnce
INVARIANT StringsAgree
