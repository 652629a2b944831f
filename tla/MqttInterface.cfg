\* Three connections, a queue of three, bursts that fill it.
CONSTANTS
    Topics <- TwoTopics
    QueueLen = 3
    MaxUnread = 4
    MaxConnects = 3
    MaxPublishes = 4
SPECIFICATION FairSpec
INVARIANTS TypeOK WaiterIsAwaited AliveWhenUsed QueueHasRoom
           StateFollowsSession
PROPERTIES SubackInTime OneContextThread StartsAfresh CallsReturn
\* The system may stop for good: after a burst that fills the queue while app
\* waits, and where mqtt_connect waits for a connection that failed.
CHECK_DEADLOCK FALSE
