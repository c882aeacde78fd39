SPECIFICATION Spec
CONSTANTS
    SeqModulus = 32
    FirstSeq = 28
    MaxIndex = 11
    MaxSkip = 2
    MaxLate = 2
    Repeats = FALSE
    Droppable = {5, 6, 7, 8, 9, 10, 11}
INVARIANTS
    Contiguous
    OutputsDistinct
CHECK_DEADLOCK FALSE
