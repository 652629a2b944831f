\* Four synchronisations; the thread up to two buffers late.
CONSTANTS
    SyncPeriod = 7
    SyncTime = 3
    MaxLag = 2
    MaxNow = 26
SPECIFICATION FairSpec
INVARIANTS
    TypeOK
    HeaderPairs
PROPERTIES
    PairsAdvance
    AnswersUsed
