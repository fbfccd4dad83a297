SPECIFICATION Spec
CONSTANTS
    FM_ALLOC_SIZE = 2
    VM_HEAD_SIZE = 1
    UnitBase = 20
    UnitMax = 3
    BlockBase = 1
    BlockEnd = 13
    Size <- MCSize
INVARIANTS Tiles NothingLost
PROPERTIES ImplementsAllocator
