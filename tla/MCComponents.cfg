\* Deletions and the refinement of Collection, and each of the components that
\* stand alone.
SPECIFICATION ComponentsSpec
CONSTANTS
    doc1 = doc1
    doc2 = doc2
    doc3 = doc3
    term1 = term1
    term2 = term2
    Doc = {doc1, doc2, doc3}
    Term = {term1, term2}
    Has <- InGroup
    ByteBits = 8
    OptimizeLast = TRUE
    MaxSession = 4
INVARIANTS
    TypeOK
    DeletionsGrow
    LexiconRight
    SegmentRight
    ReadsRight
    QueriesRight
    ParseRight
    HighlightRight
    
    HashRight
PROPERTY CollectionSpec
CHECK_DEADLOCK FALSE
