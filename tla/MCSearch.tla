------------------------------ MODULE MCSearch ------------------------------
(* Small instances of Search.tla.                                           *)
EXTENDS Search

By(key) == [key |-> key, reverse |-> FALSE]
ByReverse(key) == [key |-> key, reverse |-> TRUE]

\* One Searchable of two segments, and another.
MCLayout == <<<<3, 1>>, <<1>>>>
MCLong == <<<<4>>>>
\* A segment of one document before another segment.
MCSingle == <<<<2, 1, 2>>>>

Match(value) == [matches |-> TRUE, deleted |-> FALSE, score |-> value + 1, value |-> value]
MCDoc == {Match(Null), Match(1), Match(2)}
             \cup [matches : BOOLEAN, deleted : {TRUE}, score : {1}, value : {Null}]
             \cup [matches : {FALSE}, deleted : {FALSE}, score : {1}, value : {1}]
MCScored == [matches : {TRUE}, deleted : {FALSE}, score : 1..3, value : {Null}]

MCSearches ==
    {[rules |-> <<ByReverse("field"), By("doc")>>, wanted |-> 1],
     [rules |-> <<By("field"), ByReverse("doc")>>, wanted |-> 2],
     [rules |-> <<By("doc")>>, wanted |-> 0],
     [rules |-> <<ByReverse("score"), By("doc")>>, wanted |-> 5]}
MCInOrder == {[rules |-> <<By("doc")>>, wanted |-> 5]}
MCDefaultOrder == {[rules |-> <<By("score"), By("doc")>>, wanted |-> 1]}
=============================================================================
