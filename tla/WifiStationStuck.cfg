CONSTANT
    MaxLosses = 1
SPECIFICATION FairSpec
PROPERTY ChecksCyclically
CHECK_DEADLOCK FALSE
