----------------------------- MODULE Collection -----------------------------
(* What an index is to its users: a bag of documents.  Changes made through  *)
(* an Indexer are not apparent until commit(), and a deletion only affects   *)
(* documents that were committed before the session (Indexer.pod).           *)
EXTENDS Naturals

CONSTANTS
    Doc,        \* documents
    Term,       \* terms
    Has(_, _)   \* Has(d, t): document d contains term t

VARIABLES
    committed,  \* [Doc -> Nat]: the documents that searches find, how often
    pending     \* what they would find if the session committed now

vars == <<committed, pending>>

Empty == [d \in Doc |-> 0]

Init == committed = Empty /\ pending = Empty

\* A session begins, or is given up.
Begin == pending' = committed /\ UNCHANGED committed

\* add_doc(), add_index()
Add(D) ==
    /\ pending' = [d \in Doc |-> IF d \in D THEN pending[d] + 1 ELSE pending[d]]
    /\ UNCHANGED committed

\* delete_by_term(), delete_by_query().  A document is added but once, so one
\* that was committed before is not also among the session's own.
Delete(t) ==
    /\ pending' = [d \in Doc |->
                     IF Has(d, t) /\ committed[d] > 0 THEN 0 ELSE pending[d]]
    /\ UNCHANGED committed

Commit == committed' = pending /\ UNCHANGED pending

Next ==
    \/ Begin \/ Commit
    \/ \E D \in SUBSET Doc : Add(D)
    \/ \E t \in Term : Delete(t)

Spec == Init /\ [][Next]_vars
=============================================================================
