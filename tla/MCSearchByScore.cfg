\* The default order, by score, with more hits than are wanted.
SPECIFICATION Spec
CONSTANTS
    Layout <- MCLong
    Doc <- MCScored
    Search <- MCDefaultOrder
INVARIANTS
    QueueIsBest
CHECK_DEADLOCK FALSE
