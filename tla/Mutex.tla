------------------------------- MODULE Mutex -------------------------------
(* What a lock file promises the code that calls obtain() and release():   *)
(* one holder at a time, and only a free lock is acquired.  The promise is *)
(* Store/Lock.bp's: "Once obtain() returns successfully, maintains an      *)
(* exclusive lock on a resource" (LockFactory.pod).                        *)

CONSTANT Locker

VARIABLE holders

Init == holders = {}

Acquire(c) == holders = {} /\ holders' = {c}

\* A holder releases the lock, or its process ends.
Vacate == holders # {} /\ holders' = {}

Next == Vacate \/ \E c \in Locker : Acquire(c)

Spec == Init /\ [][Next]_holders
=============================================================================
