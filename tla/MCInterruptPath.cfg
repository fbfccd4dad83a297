SPECIFICATION Spec
CONSTANTS
    Task = {t1, t2, t3}
    MaxDepth = 4
SYMMETRY TaskSymmetry
INVARIANTS UserFrameLoaded SlotTellsLevel InServiceIsUnfinished
PROPERTIES CallIsUndisturbed
