------------------------------ MODULE Versions ------------------------------
(* What Indexer and IndexReader promise: commits follow one another, each    *)
(* an immutable version of the index, and opening an IndexReader is one      *)
(* atomic step that yields the newest version, whole.                        *)
EXTENDS Naturals

CONSTANTS
    Reader,   \* the IndexReaders
    Version,  \* the numbers of versions
    Contents, \* what a version may hold
    Nothing   \* no contents

VARIABLES
    newest,   \* the number of the newest version; 0: nothing was committed
    history,  \* [Version -> Contents]: what was committed
    seen      \* [Reader -> Contents]: what an open reader sees, or Nothing

vars == <<newest, history, seen>>

Init ==
    /\ newest = 0
    /\ history = [v \in Version |-> Nothing]
    /\ seen = [r \in Reader |-> Nothing]

\* Indexer_commit
Commit ==
    /\ newest + 1 \in Version
    /\ newest' = newest + 1
    /\ history' \in [Version -> Contents]
    /\ history'[newest + 1] # Nothing
    /\ \A v \in Version \ {newest + 1} : history'[v] = history[v]
    /\ UNCHANGED seen

\* IxReader_do_open
Open(r) ==
    /\ newest # 0 /\ seen[r] = Nothing
    /\ seen' = [seen EXCEPT ![r] = history[newest]]
    /\ UNCHANGED <<newest, history>>

\* IxReader_close, and an open() that is given up
Close(r) ==
    /\ seen' = [seen EXCEPT ![r] = Nothing]
    /\ UNCHANGED <<newest, history>>

Next ==
    \/ Commit
    \/ \E r \in Reader : Open(r) \/ Close(r)

Spec == Init /\ [][Next]_vars
=============================================================================
