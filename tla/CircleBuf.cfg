CONSTANTS
    Total = 8
    ReadSize = 2
    MaxRun = 3
    Sample = {a, b}
SPECIFICATION Spec
INVARIANTS
    AcceptedRunFits
PROPERTIES
    BorrowedCellsKept
    RefinesFifo
