\* Two devices; three failures of link or broker, at any point of boot,
\* measurement and recovery.
CONSTANTS
    Devices = {1, 2}
    Self = 1
    WatchdogPeriod = 3
    MaxDisturbances = 3
SPECIFICATION FairSpec
INVARIANTS
    TypeOK
    OwnIdentity
PROPERTIES
    GetsIdentity
    Recovers
