----------------------------- MODULE SharedLock -----------------------------
(* The shared lock of Store/SharedLock.c: every holder of lock_name has a   *)
(* lock file of its own, "lock_name-<n>.lock", found by counting upwards.   *)
(* Its users (S_obtain_read_lock in PolyReader.c) call Clear_Stale, then    *)
(* Obtain.  As in Lock.tla each call to the file system is one step.  The   *)
(* numbers have no bound: NumbersStayLow says what keeps them small.        *)
EXTENDS Naturals, FiniteSets

CONSTANTS
    Locker,     \* the SharedLock objects, one per process
    Mortal,     \* those of them whose process may end
    Clearers,   \* those of them that call Clear_Stale before Obtain
    Retries     \* how often Obtain sleeps

LockFile == [by : Locker, written : BOOLEAN]

Number == Nat \ {0}

VARIABLES
    files,   \* the lock files in the folder, by their numbers
    pc,      \* where each locker is
    num,     \* the number in self->filename, 0 for EMPTY
    sleeps,  \* sleeps left to an obtain in progress
    todo,    \* the listed lock files Clear_Stale has still to look at
    target,  \* the lock file S_clear_file is looking at
    seen     \* the process it has read from that file

vars == <<files, pc, num, sleeps, todo, target, seen>>

Labels == {"idle", "clear", "judge", "remove", "double", "scan", "exists",
           "create", "write", "asleep", "held", "release", "unlink", "threw", "dead"}

Listed == DOMAIN files
Exists(n) == n \in Listed
With(n, file) == [m \in Listed \cup {n} |-> IF m = n THEN file ELSE files[m]]
Without(n) == [m \in Listed \ {n} |-> files[m]]

\* Is_Locked: some file of the folder bears the lock's name and a number.
IsLocked == Listed # {}

Init ==
    /\ files = [n \in {} |-> 0]
    /\ pc = [c \in Locker |-> "idle"]
    /\ num = [c \in Locker |-> 0]
    /\ sleeps = [c \in Locker |-> 0]
    /\ todo = [c \in Locker |-> {}]
    /\ target = [c \in Locker |-> 1]
    /\ seen = [c \in Locker |-> c]

Goto(c, label) == pc' = [pc EXCEPT ![c] = label]

-----------------------------------------------------------------------------
(* Lock_clear_stale *)

\* The caller acquires; Clear_Stale begins with Folder_List.
Acquire(c) ==
    /\ pc[c] = "idle"
    /\ IF c \in Clearers
       THEN Goto(c, "clear") /\ todo' = [todo EXCEPT ![c] = Listed]
       ELSE Goto(c, "double") /\ UNCHANGED todo
    /\ sleeps' = [sleeps EXCEPT ![c] = Retries]
    /\ UNCHANGED <<files, num, target, seen>>

\* The next listed file; only a complete one names a process.
ReadListed(c) ==
    /\ pc[c] = "clear"
    /\ \E n \in todo[c] :
          /\ todo' = [todo EXCEPT ![c] = @ \ {n}]
          /\ IF Exists(n) /\ files[n].written
             THEN /\ target' = [target EXCEPT ![c] = n]
                  /\ seen' = [seen EXCEPT ![c] = files[n].by]
                  /\ Goto(c, "judge")
             ELSE UNCHANGED <<pc, target, seen>>
    /\ UNCHANGED <<files, num, sleeps>>

JudgeListed(c) ==
    /\ pc[c] = "judge"
    /\ IF pc[seen[c]] = "dead"
       THEN Goto(c, "remove") /\ UNCHANGED target
       ELSE Goto(c, "clear") /\ target' = [target EXCEPT ![c] = 1]
    /\ seen' = [seen EXCEPT ![c] = c]
    /\ UNCHANGED <<files, num, sleeps, todo>>

\* Folder_Delete by name, or the exception "Can't delete".
RemoveStale(c) ==
    /\ pc[c] = "remove"
    /\ IF Exists(target[c])
       THEN /\ files' = Without(target[c])
            /\ Goto(c, "clear")
            /\ UNCHANGED <<sleeps, todo>>
       ELSE /\ Goto(c, "threw")
            /\ sleeps' = [sleeps EXCEPT ![c] = 0]
            /\ todo' = [todo EXCEPT ![c] = {}]
            /\ UNCHANGED files
    /\ target' = [target EXCEPT ![c] = 1]
    /\ UNCHANGED <<num, seen>>

AllCleared(c) ==
    /\ pc[c] = "clear" /\ todo[c] = {}
    /\ Goto(c, "double")
    /\ UNCHANGED <<files, num, sleeps, todo, target, seen>>

-----------------------------------------------------------------------------
(* ShLock_do_obtain under Lock_obtain *)

\* Mutated form of Refused: the loop ends one sleep too late.
RefusedLate(c) ==
    IF sleeps[c] >= 0
    THEN Goto(c, "asleep") /\ sleeps' = [sleeps EXCEPT ![c] = @ - 1]
    ELSE Goto(c, "idle") /\ UNCHANGED sleeps

Refused(c) ==
    IF sleeps[c] > 0
    THEN Goto(c, "asleep") /\ sleeps' = [sleeps EXCEPT ![c] = @ - 1]
    ELSE Goto(c, "idle") /\ UNCHANGED sleeps

\* Mutated form of CheckDouble: the scan goes on from the last number.
CheckDoubleOn(c) ==
    /\ pc[c] = "double"
    /\ IF num[c] # 0 /\ Exists(num[c])
       THEN Refused(c)
       ELSE Goto(c, "scan") /\ UNCHANGED sleeps
    /\ UNCHANGED <<files, num, todo, target, seen>>

\* "Don't allow double obtain": a file that bears the name this object used
\* last refuses the lock, whoever it belongs to.
CheckDouble(c) ==
    /\ pc[c] = "double"
    /\ IF num[c] # 0 /\ Exists(num[c])
       THEN Refused(c) /\ UNCHANGED num
       ELSE Goto(c, "scan") /\ num' = [num EXCEPT ![c] = 0] /\ UNCHANGED sleeps
    /\ UNCHANGED <<files, todo, target, seen>>

\* Mutated form of Scan: the number is not counted up.
ScanStuck(c) ==
    /\ pc[c] = "scan"
    /\ num' = [num EXCEPT ![c] = 1]
    /\ Goto(c, IF Exists(1) THEN "scan" ELSE "exists")
    /\ UNCHANGED <<files, sleeps, todo, target, seen>>

\* One turn of the do-while loop that looks for a free number.
Scan(c) ==
    /\ pc[c] = "scan"
    /\ num' = [num EXCEPT ![c] = @ + 1]
    /\ Goto(c, IF Exists(num[c] + 1) THEN "scan" ELSE "exists")
    /\ UNCHANGED <<files, sleeps, todo, target, seen>>

\* The parent's Do_Obtain: Folder_Exists once more, then creat(O_EXCL).
CheckExists(c) ==
    /\ pc[c] = "exists"
    /\ IF Exists(num[c]) THEN Refused(c) ELSE Goto(c, "create") /\ UNCHANGED sleeps
    /\ UNCHANGED <<files, num, todo, target, seen>>

\* Mutated form of Create: the file is opened without O_EXCL.
CreateShared(c) ==
    /\ pc[c] = "create"
    /\ files' = With(num[c], [by |-> c, written |-> FALSE])
    /\ Goto(c, "write")
    /\ UNCHANGED <<num, sleeps, todo, target, seen>>

Create(c) ==
    /\ pc[c] = "create"
    /\ IF Exists(num[c])
       THEN Refused(c) /\ UNCHANGED files
       ELSE /\ files' = With(num[c], [by |-> c, written |-> FALSE])
            /\ Goto(c, "write")
            /\ UNCHANGED sleeps
    /\ UNCHANGED <<num, todo, target, seen>>

Write(c) ==
    /\ pc[c] = "write"
    /\ files' = IF Exists(num[c]) /\ files[num[c]].by = c
                THEN With(num[c], [by |-> c, written |-> TRUE])
                ELSE files
    /\ Goto(c, "held")
    /\ sleeps' = [sleeps EXCEPT ![c] = 0]
    /\ UNCHANGED <<num, todo, target, seen>>

Wake(c) ==
    /\ pc[c] = "asleep"
    /\ Goto(c, "double")
    /\ UNCHANGED <<files, num, sleeps, todo, target, seen>>

-----------------------------------------------------------------------------
(* ShLock_release *)

Release(c) ==
    /\ pc[c] = "held"
    /\ Goto(c, "release")
    /\ UNCHANGED <<files, num, sleeps, todo, target, seen>>

\* S_clear_file on the object's own file, if it names this process; where it
\* has nothing to delete the filename becomes EMPTY again at once.
ReadMine(c) ==
    /\ pc[c] = "release"
    /\ IF Exists(num[c]) /\ files[num[c]] = [by |-> c, written |-> TRUE]
       THEN Goto(c, "unlink") /\ UNCHANGED num
       ELSE Goto(c, "idle") /\ num' = [num EXCEPT ![c] = 0]
    /\ UNCHANGED <<files, sleeps, todo, target, seen>>

\* Mutated form of UnlinkMine: the filename is emptied before the deletion.
UnlinkEmptied(c) ==
    /\ pc[c] = "unlink"
    /\ num' = [num EXCEPT ![c] = 0]
    /\ Goto(c, "idle")
    /\ UNCHANGED <<files, sleeps, todo, target, seen>>

\* Folder_Delete by name, and the filename becomes EMPTY; or the exception
\* "Can't delete", which leaves it.
UnlinkMine(c) ==
    /\ pc[c] = "unlink"
    /\ IF Exists(num[c])
       THEN /\ files' = Without(num[c])
            /\ num' = [num EXCEPT ![c] = 0]
            /\ Goto(c, "idle")
       ELSE Goto(c, "threw") /\ UNCHANGED <<files, num>>
    /\ UNCHANGED <<sleeps, todo, target, seen>>

-----------------------------------------------------------------------------
\* The caller handles "Can't delete"; the object may be used again.
Catch(c) ==
    /\ pc[c] = "threw"
    /\ Goto(c, "idle")
    /\ UNCHANGED <<files, num, sleeps, todo, target, seen>>

Die(c) ==
    /\ c \in Mortal /\ pc[c] # "dead"
    /\ Goto(c, "dead")
    /\ sleeps' = [sleeps EXCEPT ![c] = 0]
    /\ todo' = [todo EXCEPT ![c] = {}]
    /\ target' = [target EXCEPT ![c] = 1]
    /\ seen' = [seen EXCEPT ![c] = c]
    /\ UNCHANGED <<files, num>>

Step(c) ==
    \/ ReadListed(c) \/ JudgeListed(c) \/ RemoveStale(c) \/ AllCleared(c)
    \/ CheckDouble(c) \/ Scan(c) \/ CheckExists(c) \/ Create(c) \/ Write(c)
    \/ Wake(c) \/ ReadMine(c) \/ UnlinkMine(c)

Next == \E c \in Locker : Acquire(c) \/ Release(c) \/ Catch(c) \/ Die(c) \/ Step(c)

Spec == Init /\ [][Next]_vars

-----------------------------------------------------------------------------
TypeOK ==
    /\ Listed \subseteq Number
    /\ files \in [Listed -> LockFile]
    /\ pc \in [Locker -> Labels]
    /\ num \in [Locker -> Nat]
    /\ sleeps \in [Locker -> 0..Retries]
    /\ todo \in [Locker -> SUBSET Number]
    /\ target \in [Locker -> Number]
    /\ seen \in [Locker -> Locker]

Holders == {c \in Locker : pc[c] = "held"}

\* S_clear_file deletes by name, so a clearer may delete another file than the
\* stale one it read (as in Lock.tla); only a death makes that possible.
NobodyDied == \A c \in Locker : pc[c] # "dead"

\* Every holder has a complete lock file of its own, so FilePurger's Is_Locked
\* sees the lock for as long as it is held (SharedLock.bp: "Is_Locked()
\* returns true so long as some lock, somewhere is holding a lock").
HeldHasFile ==
    NobodyDied =>
        \A c \in Holders : Exists(num[c]) /\ files[num[c]] = [by |-> c, written |-> TRUE]

\* "Fully released when no lock files are left": a lock file exists only
\* while its creator is between creat() and unlink(), or after its death.
NoLeftovers ==
    \A n \in Listed :
        /\ pc[files[n].by] \in {"write", "held", "release", "unlink", "dead"}
        /\ num[files[n].by] = n

\* The do-while loop of ShLock_do_obtain counts no further than there are
\* lockers, although files come and go while it looks and those of the dead
\* stay: whoever finds a number taken leaves its owner behind at that number,
\* so at every number the lockers that can still go on become fewer.
NumbersStayLow == \A c \in Locker : num[c] <= Cardinality(Locker)
=============================================================================
