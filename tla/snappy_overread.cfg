SPECIFICATION Spec
CONSTANTS
    w1 = w1
    w2 = w2
    k1 = k1
    k2 = k2
    Words <- MCWords
    Complement <- MCComplement
    Preprocess <- MCPreprocess
    Keys = {k1, k2}
    Hash <- MCHash
    CopyWords = 3
    LiteralWords = 2
    ShortDelta = 2
    OffsetLimit = 10
    HistoryLimit = 8
    Invalid = 0
    LengthLimit = 13
    Runover = 6
    BufLens = {16, 50}
    WordCounts = {1, 2, 10}
    MaxCalls = 2
    StaleHistory = {0, 7}
INVARIANTS ConsumedInInput
CHECK_DEADLOCK FALSE
