SPECIFICATION Spec
CONSTANTS
    Task = {t1, t2}
    MaxDepth = 3
INVARIANTS GsTellsPrivilege
