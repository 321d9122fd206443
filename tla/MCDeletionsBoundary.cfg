SPECIFICATION Spec
CONSTANTS
    doc1 = doc1
    doc2 = doc2
    doc3 = doc3
    term1 = term1
    term2 = term2
    Doc = {doc1, doc2, doc3}
    Term = {term1, term2}
    Has <- InGroup
    ByteBits = 2
    OptimizeLast = TRUE
    MaxSession = 2
INVARIANT CountsAgree
CHECK_DEADLOCK FALSE
