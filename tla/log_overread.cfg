SPECIFICATION LogSpec
CONSTANTS
    LogSize = 4
    Wrap = 12
    Lengths = {1, 2, 5}
    MaxBytes = 15
INVARIANTS
    StaysInLog
