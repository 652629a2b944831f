\* The publications of ask_for_id, made at the lowest priority.
CONSTANTS
    Topics <- TwoTopics
    QueueLen = 3
    MaxUnread = 2
    MaxConnects = 1
    MaxPublishes = 1
SPECIFICATION Spec
INVARIANT PublishesAlive
\* The system may stop: mqtt_connect waits for ever for a connection that failed.
CHECK_DEADLOCK FALSE
