SPECIFICATION Spec
CONSTANTS
    k1 = k1
    k2 = k2
    WordBits = 18
    Literals = 8
    CodeCount = 18
    MaxBits = 7
    WeightLimit = 256
    ZeroBits = 1
    Words <- MCWords
    Zero <- w0
    FirstInvalid <- w1
    Preprocess <- MCPreprocess
    Keys = {k1, k2}
    Hash <- MCHash
    MaxRepeat = 13
    CombinedBits = 14
    Samples = 4
    Trainings <- MCFewSamples
    Counts = {}
    BufferWords = {14}
    Inputs <- MCLongRun
INVARIANTS StaysInBuffer
CHECK_DEADLOCK FALSE
