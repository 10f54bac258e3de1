SPECIFICATION FilterSpec
CONSTANTS
    Divider = 3
    FastLoop = TRUE
    Word = 65536
    OutMax = 65535
    Shift = 0
    Samples = {1}
    CallSizes = {3}
    MaxSamples = 42
INVARIANTS GainAsStated
CHECK_DEADLOCK FALSE
