\* Four losses of the link at any point of the reconnection.
CONSTANT
    MaxLosses = 4
SPECIFICATION FairSpec
INVARIANTS
    TypeOK
    StatusFollowsLink
PROPERTIES
    KeepsLink
    LostLinkStops
    RecoveredLinkStarts
CHECK_DEADLOCK FALSE
