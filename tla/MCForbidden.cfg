\* What two forbidden parts of a query string without a required one find.
SPECIFICATION ParseSpec
CONSTANTS
    doc1 = doc1
    doc2 = doc2
    doc3 = doc3
    term1 = term1
    term2 = term2
    Doc = {doc1, doc2, doc3}
    Term = {term1, term2}
    Has <- InGroup
    ByteBits = 8
    OptimizeLast = TRUE
    MaxSession = 4
INVARIANT ForbiddenRight
CHECK_DEADLOCK FALSE
