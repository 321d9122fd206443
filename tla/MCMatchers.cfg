SPECIFICATION Spec
CONSTANTS
    DocMax = 5
    SkipInterval = 2
    Pairs <- MCLongPostings
PROPERTIES
    ImplementsMatcher
CHECK_DEADLOCK FALSE
