\* A heap of four nodes.  The model stops when a freed node is at the head.
CONSTANTS
    Nodes = {n1, n2, n3, n4}
    NULL = NULL
    Levels = {"a", "b", "+", "#"}
    Filters <- SomeFilters
    Names <- SomeNames
SPECIFICATION Spec
SYMMETRY AnyNode
CHECK_DEADLOCK FALSE
INVARIANTS TypeOK ListSound
PROPERTIES NodesFreed StaysInStep DeliversToSubscriber
