SPECIFICATION Spec
CONSTANTS
    LogSize = 4
    Wrap = 12
    Lengths = {1, 3}
    MaxBytes = 8
    StringLengths = {0, 8, 11, 16, 17, 23, 31}
    BaseFreq = 200000000
    Oscillator = 24000000
    PllM = 6
    PllN = 50
    PllR = 2
    Rates = {0, 60000000, 100}
INVARIANTS
    AttachedConfigured NewestInOrder NeverStale RateReported
PROPERTIES
    ShellComesBack ShellReleased
\* With strings of other lengths the model ends with the hub.
CHECK_DEADLOCK FALSE
