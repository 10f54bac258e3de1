SPECIFICATION Spec
CONSTANTS
    Divider = 3
    FastLoop = TRUE
    Word = 16
    OutMax = 15
    Shift = 0
    Samples = {0, 3}
    CallSizes = {1, 4, 7}
    MaxSamples = 13
    FirstMax = 4
    LaterMax = 6
    TargetRange = 64
    InputRange = 32
    ChainRates <- MCRates
    Garbage <- MCGarbage
    ChainCalls = {1, 5, 9}
    MaxInput = 31
    Frequency = 16
    Threshold = 4
    CounterWrap = 20
    Scale = 201
    Error = 1
    MaxRound = 16
    BusyTimes = {2, 5, 12}
INVARIANTS OutputsOnTime RunningSums ExactRate ChainOnTime LoadShown
CHECK_DEADLOCK FALSE
