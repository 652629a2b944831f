\* A queue of two and a burst that fills it.
CONSTANTS
    Topics <- TwoTopics
    QueueLen = 2
    MaxUnread = 2
    MaxConnects = 1
    MaxPublishes = 2
SPECIFICATION FairSpec
PROPERTY SubscribeReturns
\* The system may stop for good: that is what the run shows.
CHECK_DEADLOCK FALSE
