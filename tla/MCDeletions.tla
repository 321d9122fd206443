---------------------------- MODULE MCDeletions ----------------------------
(* Instances of Deletions.                                                  *)
EXTENDS Deletions

CONSTANTS doc1, doc2, doc3, term1, term2

\* Every document has a term of its own group: the first two have term1, the
\* others term2.
InGroup(x, y) == (x \in {doc1, doc2}) = (y = term1)
=============================================================================
