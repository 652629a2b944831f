CONSTANTS
    SyncPeriod = 7
    SyncTime = 3
    MaxLag = 2
    MaxNow = 8
SPECIFICATION Spec
INVARIANT HeaderTimeValid
