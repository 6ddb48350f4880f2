\* Rotation with renames and reopens that fail, torn lines, and processes that
\* end between any two steps.
SPECIFICATION Spec
CONSTANTS
    MaxBytes = 2
    LongLine = 2
    MaxLines = 5
    MaxUpsets = 2
INVARIANTS ReadsNewest HistoryKept Bounded TearCostsOneMore
