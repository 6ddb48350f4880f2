\* A log that is written, rotated, emptied, removed and closed between the two
\* system calls of a look and between looks, and a restart.
SPECIFICATION Spec
CONSTANTS
    MaxScan = 3
    MaxLines = 3
    MaxUpsets = 2
INVARIANTS NothingMissed OldNewsIsOld

CHECK_DEADLOCK FALSE
