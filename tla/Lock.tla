-------------------------------- MODULE Lock --------------------------------
(* The lock-file protocol of Store/Lock.c, one lock name in one folder.     *)
(*                                                                          *)
(* A Locker is a Lock object; ProcOf maps it to the process it lives in.    *)
(* Every user in the repository (Indexer_init, FilePurger_purge,            *)
(* S_obtain_commit_lock in PolyReader.c) calls Clear_Stale and then Obtain, *)
(* so an acquisition is that pair of calls for the lockers in Clearers, and *)
(* Obtain alone for the others.  Each call to the file system is one step:  *)
(* the processes interleave between them.                                   *)
EXTENDS Naturals

CONSTANTS
    Locker,     \* the Lock objects
    Proc,       \* process ids
    ProcOf,     \* [Locker -> Proc], the process a Lock object lives in
    Agent,      \* agent ids, unique per host as LockFactory.pod asks
    Mortal,     \* the processes that may end (crash or exit)
    Clearers,   \* the lockers that call Clear_Stale before Obtain
    Retries,    \* how often Obtain sleeps: ceil(timeout / LOCK_POLL_INTERVAL)
    NoFile      \* the lock file does not exist

LockFile == [by : Locker, written : BOOLEAN]

ASSUME LockAssumption ==
    /\ ProcOf \in [Locker -> Proc]
    /\ Mortal \subseteq Proc
    /\ Clearers \subseteq Locker
    /\ Retries \in Nat
    /\ NoFile \notin LockFile

VARIABLES
    file,    \* the lock file: NoFile, or its creator and whether its JSON is written
    pc,      \* where each locker is
    sleeps,  \* sleeps left to an obtain in progress
    alive,   \* PID_active
    agent,   \* [Proc -> Agent]: the host a process is on, which does not change
    seen     \* the pid an S_clear_file call has read from the file

vars == <<file, pc, sleeps, alive, agent, seen>>

Labels == {"idle", "clear", "judge", "remove", "exists", "create", "write",
           "asleep", "held", "release", "unlink", "threw", "dead"}

Exists == file # NoFile

\* What S_clear_file reads: a file whose JSON is complete.  Json_slurp_json
\* gives NULL for a file that is missing, empty or cut short.
Readable == Exists /\ file.written

PidOfFile == ProcOf[file.by]

Init ==
    /\ file = NoFile
    /\ pc = [c \in Locker |-> "idle"]
    /\ sleeps = [c \in Locker |-> 0]
    /\ alive = [p \in Proc |-> TRUE]
    /\ agent \in [Proc -> Agent]
    /\ seen = [c \in Locker |-> ProcOf[c]]

Goto(c, label) == pc' = [pc EXCEPT ![c] = label]

-----------------------------------------------------------------------------
(* Lock_obtain and Lock_do_obtain *)

\* The caller acquires: Clear_Stale first (Clearers), then Obtain.
Acquire(c) ==
    /\ pc[c] = "idle"
    /\ Goto(c, IF c \in Clearers THEN "clear" ELSE "exists")
    /\ sleeps' = [sleeps EXCEPT ![c] = Retries]
    /\ UNCHANGED <<file, alive, agent, seen>>

\* Mutated form of Refused: the loop ends one sleep too late.
RefusedLate(c) ==
    IF sleeps[c] >= 0
    THEN Goto(c, "asleep") /\ sleeps' = [sleeps EXCEPT ![c] = @ - 1]
    ELSE Goto(c, "idle") /\ UNCHANGED sleeps

\* Do_Obtain returned false: sleep and try again, or give up.
Refused(c) ==
    IF sleeps[c] > 0
    THEN Goto(c, "asleep") /\ sleeps' = [sleeps EXCEPT ![c] = @ - 1]
    ELSE Goto(c, "idle") /\ UNCHANGED sleeps

CheckExists(c) ==
    /\ pc[c] = "exists"
    /\ IF Exists THEN Refused(c) ELSE Goto(c, "create") /\ UNCHANGED sleeps
    /\ UNCHANGED <<file, alive, agent, seen>>

\* Mutated form of Create: the file is opened without O_EXCL.
CreateShared(c) ==
    /\ pc[c] = "create"
    /\ file' = [by |-> c, written |-> FALSE]
    /\ Goto(c, "write")
    /\ UNCHANGED <<sleeps, alive, agent, seen>>

\* open(O_CREAT|O_EXCL): exactly one creator wins; the file is still empty.
Create(c) ==
    /\ pc[c] = "create"
    /\ IF Exists
       THEN Refused(c) /\ UNCHANGED file
       ELSE /\ file' = [by |-> c, written |-> FALSE]
            /\ Goto(c, "write")
            /\ UNCHANGED sleeps
    /\ UNCHANGED <<alive, agent, seen>>

\* The JSON reaches the inode this locker created; if that file has been
\* unlinked in the meantime, whatever bears the name now is not touched.
Write(c) ==
    /\ pc[c] = "write"
    /\ file' = IF Exists /\ file.by = c THEN [file EXCEPT !.written = TRUE] ELSE file
    /\ Goto(c, "held")
    /\ UNCHANGED <<sleeps, alive, agent, seen>>

Wake(c) ==
    /\ pc[c] = "asleep"
    /\ Goto(c, "exists")
    /\ UNCHANGED <<file, sleeps, alive, agent, seen>>

-----------------------------------------------------------------------------
(* Lock_release: S_clear_file(delete_mine) *)

Release(c) ==
    /\ pc[c] = "held"
    /\ Goto(c, "release")
    /\ UNCHANGED <<file, sleeps, alive, agent, seen>>

\* Any readable file of this process and agent is "mine", whichever Lock
\* object made it; everything else is left alone.
ReadMine(c) ==
    /\ pc[c] = "release"
    /\ Goto(c, IF Readable /\ PidOfFile = ProcOf[c] THEN "unlink" ELSE "idle")
    /\ UNCHANGED <<file, sleeps, alive, agent, seen>>

\* Folder_Delete, or the exception "Can't delete".
DeleteOr(c, label) ==
    /\ IF Exists THEN file' = NoFile /\ Goto(c, label)
                 ELSE Goto(c, "threw") /\ UNCHANGED file
    /\ UNCHANGED <<sleeps, alive, agent, seen>>

UnlinkMine(c) == pc[c] = "unlink" /\ DeleteOr(c, "idle")

-----------------------------------------------------------------------------
(* Lock_clear_stale: S_clear_file(delete_other) on the listed lock file *)

ReadStale(c) ==
    /\ pc[c] = "clear"
    /\ IF Readable /\ agent[PidOfFile] = agent[ProcOf[c]]
       THEN seen' = [seen EXCEPT ![c] = PidOfFile] /\ Goto(c, "judge")
       ELSE Goto(c, "exists") /\ UNCHANGED seen
    /\ UNCHANGED <<file, sleeps, alive, agent>>

\* Mutated form of JudgeStale: the test of PID_active is inverted.
JudgeInverted(c) ==
    /\ pc[c] = "judge"
    /\ Goto(c, IF alive[seen[c]] THEN "remove" ELSE "exists")
    /\ UNCHANGED <<file, sleeps, alive, agent, seen>>

JudgeStale(c) ==
    /\ pc[c] = "judge"
    /\ Goto(c, IF alive[seen[c]] THEN "exists" ELSE "remove")
    /\ UNCHANGED <<file, sleeps, alive, agent, seen>>

\* The file is deleted by name: it may not be the one that was read.
RemoveStale(c) == pc[c] = "remove" /\ DeleteOr(c, "exists")

-----------------------------------------------------------------------------
(* The world around the lock *)

\* The caller handles the exception and may use its Lock object again.
Catch(c) ==
    /\ pc[c] = "threw"
    /\ Goto(c, "idle")
    /\ UNCHANGED <<file, sleeps, alive, agent, seen>>

\* A process ends wherever its lockers are; its lock file stays.
Die(p) ==
    /\ p \in Mortal /\ alive[p]
    /\ alive' = [alive EXCEPT ![p] = FALSE]
    /\ pc' = [c \in Locker |-> IF ProcOf[c] = p THEN "dead" ELSE pc[c]]
    /\ UNCHANGED <<file, sleeps, agent, seen>>

\* A new process is given a pid that was in use before.
ReusePid(p) ==
    /\ ~alive[p]
    /\ alive' = [alive EXCEPT ![p] = TRUE]
    /\ pc' = [c \in Locker |-> IF ProcOf[c] = p THEN "idle" ELSE pc[c]]
    /\ UNCHANGED <<file, sleeps, agent, seen>>

\* The steps a locker takes by itself once a call has been made.
Step(c) ==
    \/ CheckExists(c) \/ Create(c) \/ Write(c) \/ Wake(c)
    \/ ReadMine(c) \/ UnlinkMine(c)
    \/ ReadStale(c) \/ JudgeStale(c) \/ RemoveStale(c)

Next ==
    \/ \E c \in Locker : Acquire(c) \/ Release(c) \/ Catch(c) \/ Step(c)
    \/ \E p \in Proc : Die(p) \/ ReusePid(p)

Spec == Init /\ [][Next]_vars

-----------------------------------------------------------------------------
TypeOK ==
    /\ file \in LockFile \cup {NoFile}
    /\ pc \in [Locker -> Labels]
    /\ sleeps \in [Locker -> 0..Retries]
    /\ alive \in [Proc -> BOOLEAN]
    /\ agent \in [Proc -> Agent]
    /\ seen \in [Locker -> Proc]

Holders == {c \in Locker : pc[c] = "held"}

\* Store/LockFactory.pod: once obtain() returns successfully the object
\* maintains an exclusive lock on the resource.
MutualExclusion == \A c, d \in Holders : c = d

\* What that takes: nobody clears the locks of a host where a process may end,
\* because S_clear_file deletes by name what it has judged before.
NoStealing ==
    \A c \in Clearers, p \in Mortal : agent[ProcOf[c]] # agent[p]

\* Lock_obtain gives the lock to one Lock object at a time, whatever the
\* retries, the objects in one process, and the deaths on other hosts.
SafelyExclusive == NoStealing => MutualExclusion

\* While a lock is held its own complete file is there, so is_locked() is
\* true for everyone and Lock_release will find and delete it.
HeldHasFile ==
    NoStealing => \A c \in Holders : file = [by |-> c, written |-> TRUE]

\* Lock_clear_stale does its work: a complete lock file of this agent whose
\* process has ended does not survive an acquisition that begins after it.
StaleFor(c) ==
    /\ Readable /\ agent[PidOfFile] = agent[ProcOf[c]]
    /\ ~alive[PidOfFile]

StaleCleared ==
    \A c \in Locker :
        pc[c] = "clear" /\ StaleFor(c) ~> ~StaleFor(c) \/ pc[c] = "dead"

\* Under NoStealing the lock file is the abstract mutex: a lock is acquired
\* only when nobody holds it (Mutex.tla), whatever the retries, timeouts and
\* deaths in between.
SafeHolders == IF NoStealing THEN Holders ELSE {}
Abstract == INSTANCE Mutex WITH holders <- SafeHolders
MutexSpec == Abstract!Spec
-----------------------------------------------------------------------------
(* The inductive invariant behind MutualExclusion and HeldHasFile *)

\* From creat() to the unlink() of its release a locker owns the file.
OwnersHaveFile ==
    \A c \in Locker :
        /\ pc[c] = "write" => file = [by |-> c, written |-> FALSE]
        /\ pc[c] \in {"held", "release", "unlink"}
              => file = [by |-> c, written |-> TRUE]

\* A clearer looks only at pids of its own agent, and under NoStealing none
\* of those ever ends: no clearer reaches the unlink().
NobodyRemoves ==
    /\ \A p \in Proc \ Mortal : alive[p]
    /\ \A c \in Locker :
        /\ pc[c] # "remove"
        /\ pc[c] \in {"clear", "judge"} => c \in Clearers
        /\ pc[c] = "judge" => agent[seen[c]] = agent[ProcOf[c]]

LockInv == TypeOK /\ (NoStealing => OwnersHaveFile /\ NobodyRemoves)
=============================================================================
