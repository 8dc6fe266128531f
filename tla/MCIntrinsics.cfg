SPECIFICATION Spec
CONSTANTS
    global = global
    proto = proto
    fun = fun
    up = up
    Cells <- MCCells
    KindOf <- MCKindOf
    Global = global
    Intrinsic = proto
    MaxPointers = 1
    MaxHolds = 4
INVARIANTS IntrinsicsSurvive
