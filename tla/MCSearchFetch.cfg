\* A segment of one document.
SPECIFICATION Spec
CONSTANTS
    Layout <- MCSingle
    Doc <- MCScored
    Search <- MCInOrder
INVARIANTS
    FetchesRight
CHECK_DEADLOCK FALSE
