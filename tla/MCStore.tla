------------------------------ MODULE MCStore ------------------------------
(* What is under Store: the exclusive locks of MCLock, the shared lock of   *)
(* three readers of one snapshot, or the files of one segment; or the runs  *)
(* of a SortExternal, which are written to files.  A behaviour is of one    *)
(* kind; nothing is then asked of the others.                               *)
EXTENDS MCLock

CONSTANTS
    SharedMortal,  \* the readers whose process may end
    Names, SegMeta, MaxLength, Align, MaxDeaths,  \* see CompoundFiles
    Elem, MaxFeeds, MemThresh, RunThresh          \* see SortExternal

VARIABLES kind, files, sharedPc, num, sharedSleeps, todo, target, sharedSeen,
          self, folderSeen, sorter, sorterSeen

sharedVars == <<files, sharedPc, num, sharedSleeps, todo, target, sharedSeen>>
folderVars == <<self, folderSeen>>
sorterVars == <<sorter, sorterSeen>>

Shared == INSTANCE SharedLock WITH
    Mortal <- SharedMortal,
    pc <- sharedPc, sleeps <- sharedSleeps, seen <- sharedSeen

\* The modules are CompoundFiles and SortExternal; their theorems come with
\* them.
Compound == INSTANCE CompoundFilesProofs WITH seen <- folderSeen
Sorter == INSTANCE SortExternalProofs WITH self <- sorter, seen <- sorterSeen

ASSUME StoreAssumption == Compound!Parameters /\ Sorter!Parameters

StoreInit ==
    /\ Init /\ Shared!Init /\ Compound!Init /\ Sorter!Init
    /\ agent[p] = host1   \* one of two hosts that are alike
    /\ \/ kind = "exclusive"
       \/ kind \in {"shared", "files", "sort"} /\ agent[q] = host1

StoreNext ==
    /\ UNCHANGED kind
    /\ \/ kind = "exclusive" /\ Next /\ UNCHANGED <<sharedVars, folderVars, sorterVars>>
       \/ kind = "shared" /\ Shared!Next /\ UNCHANGED <<vars, folderVars, sorterVars>>
       \/ kind = "files" /\ Compound!Next /\ UNCHANGED <<vars, sharedVars, sorterVars>>
       \/ kind = "sort" /\ Sorter!Next /\ UNCHANGED <<vars, sharedVars, folderVars>>

\* A call runs to its end, of either kind of lock: the scheduler does not
\* starve a running process.
LockerStep(x) ==
    /\ UNCHANGED kind
    /\ \/ kind = "exclusive" /\ Step(x) /\ UNCHANGED <<sharedVars, folderVars, sorterVars>>
       \/ kind = "shared" /\ Shared!Step(x) /\ UNCHANGED <<vars, folderVars, sorterVars>>

StoreSpec ==
    /\ StoreInit /\ [][StoreNext]_<<kind, vars, sharedVars, folderVars, sorterVars>>
    /\ \A x \in Locker : WF_<<kind, vars, sharedVars, folderVars, sorterVars>>(LockerStep(x))

\* The numbers in the lock files' names stay at most as high as there are
\* readers, whatever they and the clearers do: the do-while loop of
\* ShLock_do_obtain ends.
SharedNumbersLow == Shared!NumbersStayLow

\* A reader that holds the shared lock has a complete lock file of its own:
\* SharedLock.bp, "Is_Locked() returns true so long as some lock, somewhere is
\* holding a lock".
SharedHeldHasFile == Shared!HeldHasFile

\* No lock file outlives its holder's release: ShLock_release.
SharedNoLeftovers == Shared!NoLeftovers

\* SegmentFilesRight of CompoundFiles: every file of a finished segment is
\* there, with its own bytes, until a purge is asked to delete it, and listing
\* fails only between the deletion of cf.dat and that of cfmeta.json.
SegmentFilesRight == Compound!SegmentFilesRight

\* FetchedInOrder of SortExternal: what was fed is fetched in order, and all of
\* it, however it went through the runs: SortExternal.bp.
FetchedInOrder == Sorter!FetchedInOrder

\* An obtain returns, whatever the other lockers do: it does not poll for ever
\* (Lock_obtain), nor look for a free number for ever (ShLock_do_obtain).
Asking(x) ==
    IF kind = "exclusive" THEN pc[x] \in {"clear", "exists"} ELSE sharedPc[x] \in {"clear", "double"}
Answered(x) ==
    (IF kind = "exclusive" THEN pc[x] ELSE sharedPc[x]) \in {"held", "idle", "threw", "dead"}
LocksReturn == \A x \in Locker : Asking(x) ~> Answered(x)
=============================================================================
