----------------------------- MODULE StoreProofs -----------------------------
(* Lock.tla for any number of lockers, processes and retries; and the       *)
(* shared lock, the files of a segment and the external sorter as the       *)
(* behaviours of MCStore have them: what SharedLockProofs proves holds for  *)
(* any finite set of readers, what CompoundFilesProofs proves for any files *)
(* and what SortExternalProofs proves for any numbers.                      *)
EXTENDS MCStore, FiniteSetTheorems, TLAPS

\* Every variable keeps its type, whoever clears whose locks.
THEOREM TypeCorrect == Spec => []TypeOK
<1>1. Init => TypeOK
  BY LockAssumption DEF Init, TypeOK, Labels
<1>2. TypeOK /\ [Next]_vars => TypeOK'
  <2> SUFFICES ASSUME TypeOK, [Next]_vars PROVE TypeOK'
    OBVIOUS
  <2> USE LockAssumption DEF TypeOK, Labels, Goto, LockFile
  <2>1. ASSUME NEW x \in Locker, Acquire(x) PROVE TypeOK'
    BY <2>1 DEF Acquire
  <2>2. ASSUME NEW x \in Locker, Release(x) PROVE TypeOK'
    BY <2>2 DEF Release
  <2>3. ASSUME NEW x \in Locker, Catch(x) PROVE TypeOK'
    BY <2>3 DEF Catch
  <2>4. ASSUME NEW x \in Locker, Step(x) PROVE TypeOK'
    <3>1. CASE CheckExists(x) BY <3>1 DEF CheckExists, Refused
    <3>2. CASE Create(x)
      <4>1. CASE Exists
        BY <3>2, <4>1 DEF Create, Refused
      <4>2. CASE ~Exists
        <5>1. [by |-> x, written |-> FALSE] \in LockFile
          OBVIOUS
        <5>2. file' = [by |-> x, written |-> FALSE] /\ UNCHANGED <<sleeps, alive, agent, seen>>
          BY <3>2, <4>2 DEF Create
        <5>3. pc' = [pc EXCEPT ![x] = "write"]
          BY <3>2, <4>2 DEF Create
        <5> QED
          BY <5>1, <5>2, <5>3
      <4> QED
        BY <4>1, <4>2
    <3>3. CASE Write(x) BY <3>3 DEF Write, Exists
    <3>4. CASE Wake(x) BY <3>4 DEF Wake
    <3>5. CASE ReadMine(x) BY <3>5 DEF ReadMine
    <3>6. CASE UnlinkMine(x) BY <3>6 DEF UnlinkMine, DeleteOr
    <3>7. CASE ReadStale(x) BY <3>7 DEF ReadStale, Readable, Exists, PidOfFile
    <3>8. CASE JudgeStale(x) BY <3>8 DEF JudgeStale
    <3>9. CASE RemoveStale(x) BY <3>9 DEF RemoveStale, DeleteOr
    <3> QED
      BY <2>4, <3>1, <3>2, <3>3, <3>4, <3>5, <3>6, <3>7, <3>8, <3>9 DEF Step
  <2>5. ASSUME NEW y \in Proc, Die(y) PROVE TypeOK'
    BY <2>5 DEF Die
  <2>6. ASSUME NEW y \in Proc, ReusePid(y) PROVE TypeOK'
    BY <2>6 DEF ReusePid
  <2>7. CASE UNCHANGED vars
    BY <2>7 DEF vars
  <2> QED
    BY <2>1, <2>2, <2>3, <2>4, <2>5, <2>6, <2>7 DEF Next
<1> QED
  BY <1>1, <1>2, PTL DEF Spec

-----------------------------------------------------------------------------
LEMMA OwnedIsAFile ==
  \A x \in Locker, w \in BOOLEAN : [by |-> x, written |-> w] # NoFile
BY LockAssumption DEF LockFile

\* No process changes hosts, so NoStealing holds always or never.
LEMMA AgentsStay ==
  ASSUME [Next]_vars
  PROVE  agent' = agent /\ NoStealing' = NoStealing
<1>1. agent' = agent
  BY DEF Next, vars, Acquire, Release, Catch, Step, CheckExists, Create, Write,
         Wake, ReadMine, UnlinkMine, DeleteOr, ReadStale, JudgeStale, RemoveStale,
         Die, ReusePid
<1> QED
  BY <1>1 DEF NoStealing

\* One step keeps the ownership of the lock file, if no lock can be stolen.
LEMMA StepKeepsOwnership ==
  ASSUME NoStealing, LockInv, TypeOK', [Next]_vars
  PROVE  OwnersHaveFile' /\ NobodyRemoves'
<1> USE LockAssumption DEF LockInv, TypeOK, Labels, Goto, LockFile,
        OwnersHaveFile, NobodyRemoves
<1>1. ASSUME NEW x \in Locker, Acquire(x) PROVE OwnersHaveFile' /\ NobodyRemoves'
  BY <1>1 DEF Acquire
<1>2. ASSUME NEW x \in Locker, Release(x) PROVE OwnersHaveFile' /\ NobodyRemoves'
  BY <1>2 DEF Release
<1>3. ASSUME NEW x \in Locker, Catch(x) PROVE OwnersHaveFile' /\ NobodyRemoves'
  BY <1>3 DEF Catch
<1>4. ASSUME NEW x \in Locker, Step(x) PROVE OwnersHaveFile' /\ NobodyRemoves'
  <2>1. CASE CheckExists(x) BY <2>1 DEF CheckExists, Refused
  <2>2. CASE Create(x)
    <3>1. CASE Exists
      BY <2>2, <3>1 DEF Create, Refused
    <3>2. CASE ~Exists
      \* No locker owns the file, so the creator becomes its only owner.
      <4>1. /\ file' = [by |-> x, written |-> FALSE]
            /\ pc' = [pc EXCEPT ![x] = "write"]
            /\ UNCHANGED <<alive, agent, seen>>
        BY <2>2, <3>2 DEF Create
      <4>2. \A z \in Locker : pc[z] \notin {"write", "held", "release", "unlink"}
        BY <3>2, OwnedIsAFile DEF Exists
      <4> QED
        BY <4>1, <4>2
    <3> QED
      BY <3>1, <3>2
  <2>3. CASE Write(x)
    <3>1. file = [by |-> x, written |-> FALSE] /\ Exists
      BY <2>3, OwnedIsAFile DEF Write, Exists
    <3>2. file' = [by |-> x, written |-> TRUE]
      BY <2>3, <3>1 DEF Write
    <3>3. \A z \in Locker :
             pc[z] \in {"write", "held", "release", "unlink"} => z = x
      <4> SUFFICES ASSUME NEW z \in Locker,
                          pc[z] \in {"write", "held", "release", "unlink"}
                   PROVE  z = x
        OBVIOUS
      <4>1. file.by = z
        OBVIOUS
      <4> QED
        BY <3>1, <4>1
    <3> QED
      BY <2>3, <3>2, <3>3 DEF Write
  <2>4. CASE Wake(x) BY <2>4 DEF Wake
  <2>5. CASE ReadMine(x) BY <2>5 DEF ReadMine
  <2>6. CASE UnlinkMine(x) BY <2>6 DEF UnlinkMine, DeleteOr, Exists
  <2>7. CASE ReadStale(x) BY <2>7 DEF ReadStale, Readable, Exists, PidOfFile
  <2>8. CASE JudgeStale(x)
    \* The pid that was read has the clearer's agent id, so it is immortal.
    <3>1. seen[x] \in Proc \ Mortal
      BY <2>8 DEF JudgeStale, NoStealing
    <3> QED
      BY <2>8, <3>1 DEF JudgeStale
  <2>9. CASE RemoveStale(x) BY <2>9 DEF RemoveStale
  <2> QED
    BY <1>4, <2>1, <2>2, <2>3, <2>4, <2>5, <2>6, <2>7, <2>8, <2>9 DEF Step
<1>5. ASSUME NEW y \in Proc, Die(y) PROVE OwnersHaveFile' /\ NobodyRemoves'
  BY <1>5 DEF Die
<1>6. ASSUME NEW y \in Proc, ReusePid(y) PROVE OwnersHaveFile' /\ NobodyRemoves'
  BY <1>6 DEF ReusePid
<1>7. CASE UNCHANGED vars
  BY <1>7 DEF vars
<1> QED
  BY <1>1, <1>2, <1>3, <1>4, <1>5, <1>6, <1>7 DEF Next

\* The inductive invariant.
THEOREM Ownership == Spec => []LockInv
<1>1. Init => LockInv
  BY LockAssumption DEF Init, LockInv, TypeOK, Labels, OwnersHaveFile, NobodyRemoves
<1>2. LockInv /\ TypeOK' /\ [Next]_vars => LockInv'
  BY StepKeepsOwnership, AgentsStay DEF LockInv
<1> QED
  BY <1>1, <1>2, TypeCorrect, PTL DEF Spec

\* Two Lock objects never hold the lock at the same time, for any number of
\* them, as long as nobody clears the locks of processes that may end.
THEOREM Exclusive == Spec => []SafelyExclusive
<1>1. LockInv => SafelyExclusive
  <2> SUFFICES ASSUME LockInv, NoStealing, NEW x \in Holders, NEW z \in Holders
               PROVE  x = z
    BY DEF SafelyExclusive, MutualExclusion
  <2>1. file.by = x /\ file.by = z
    BY DEF LockInv, OwnersHaveFile, Holders
  <2> QED
    BY <2>1
<1> QED
  BY <1>1, Ownership, PTL

\* A held lock has its complete file in the folder, under the same condition.
THEOREM HeldFile == Spec => []HeldHasFile
<1>1. LockInv => HeldHasFile
  BY DEF LockInv, OwnersHaveFile, HeldHasFile, Holders
<1> QED
  BY <1>1, Ownership, PTL

-----------------------------------------------------------------------------
\* A step of the lock file is a step, or a stutter, of the abstract mutex.
LEMMA StepRefines ==
  ASSUME LockInv, LockInv', [Next]_vars
  PROVE  [Abstract!Next]_SafeHolders
<1>0. CASE ~NoStealing
  BY <1>0, AgentsStay DEF SafeHolders
<1> SUFFICES ASSUME NoStealing PROVE [Abstract!Next]_SafeHolders
  BY <1>0
<1>a. SafeHolders = Holders /\ SafeHolders' = Holders'
  BY AgentsStay DEF SafeHolders
<1>b. OwnersHaveFile /\ OwnersHaveFile'
  BY AgentsStay DEF LockInv
<1> DEFINE One == \A x, z \in Holders : x = z
<1>1. One /\ One'
  BY <1>b DEF OwnersHaveFile, Holders
<1> USE <1>a, <1>b DEF LockInv, TypeOK, Labels, Goto, Holders
<1>2. ASSUME NEW x \in Locker, Write(x) PROVE Abstract!Acquire(x)
  <2>1. Holders = {}
    BY <1>2 DEF Write, OwnersHaveFile
  <2>2. Holders' = {x}
    BY <1>2, <2>1 DEF Write
  <2> QED
    BY <2>1, <2>2 DEF Abstract!Acquire
<1>3. ASSUME NEW x \in Locker, Release(x) PROVE Abstract!Vacate
  <2>1. x \in Holders /\ Holders' = Holders \ {x}
    BY <1>3 DEF Release
  <2> QED
    BY <2>1, <1>1 DEF Abstract!Vacate
<1>4. ASSUME NEW y \in Proc, Die(y) PROVE Abstract!Vacate \/ Holders' = Holders
  <2>1. Holders' = {x \in Holders : ProcOf[x] # y}
    BY <1>4 DEF Die
  <2> QED
    BY <2>1, <1>1 DEF Abstract!Vacate
<1>5. ASSUME NEW y \in Proc, ReusePid(y)
      PROVE Abstract!Vacate \/ Holders' = Holders
  <2>1. Holders' = {x \in Holders : ProcOf[x] # y}
    BY <1>5 DEF ReusePid
  <2> QED
    BY <2>1, <1>1 DEF Abstract!Vacate
<1>6. ASSUME NEW x \in Locker, Acquire(x) \/ Catch(x) PROVE Holders' = Holders
  BY <1>6 DEF Acquire, Catch
<1>7. ASSUME NEW x \in Locker, Step(x), ~Write(x) PROVE Holders' = Holders
  BY <1>7 DEF Step, CheckExists, Create, Wake, ReadMine, UnlinkMine, ReadStale,
              JudgeStale, RemoveStale, DeleteOr, Refused
<1>8. CASE UNCHANGED vars
  BY <1>8 DEF vars
<1> QED
  BY <1>2, <1>3, <1>4, <1>5, <1>6, <1>7, <1>8 DEF Next, Abstract!Next

\* The lock file implements the abstract mutex, if no lock can be stolen.
THEOREM ImplementsMutex == Spec => MutexSpec
<1>1. Init => Abstract!Init
  BY DEF Init, Abstract!Init, Holders, SafeHolders
<1>2. LockInv /\ LockInv' /\ [Next]_vars => [Abstract!Next]_SafeHolders
  BY StepRefines
<1> QED
  BY <1>1, <1>2, Ownership, PTL DEF Spec, MutexSpec, Abstract!Spec

-----------------------------------------------------------------------------
(* The shared lock                                                          *)

Readers == INSTANCE SharedLockProofs WITH
    Mortal <- SharedMortal,
    pc <- sharedPc, sleeps <- sharedSleeps, seen <- sharedSeen

-----------------------------------------------------------------------------
LEMMA Constants ==
  ASSUME IsFiniteSet(Locker)
  PROVE  Readers!Parameters
BY LockAssumption DEF Readers!Parameters, Readers!IsFiniteSet, IsFiniteSet

LEMMA ReadersStep == Shared!Next => Readers!Next
BY DEF
        Shared!Acquire, Readers!Acquire, Shared!ReadListed, Readers!ReadListed,
        Shared!JudgeListed, Readers!JudgeListed, Shared!RemoveStale,
        Readers!RemoveStale, Shared!AllCleared, Readers!AllCleared,
        Shared!CheckDouble, Readers!CheckDouble, Shared!Scan, Readers!Scan,
        Shared!CheckExists, Readers!CheckExists, Shared!Create, Readers!Create,
        Shared!Write, Readers!Write, Shared!Wake, Readers!Wake, Shared!Release,
        Readers!Release, Shared!ReadMine, Readers!ReadMine, Shared!UnlinkMine,
        Readers!UnlinkMine, Shared!Catch, Readers!Catch, Shared!With,
        Readers!With, Shared!Without, Readers!Without, Shared!Die, Readers!Die, Shared!Next, Readers!Next,
        Shared!Step, Readers!Step, Shared!Goto, Readers!Goto, Shared!Exists,
        Readers!Exists, Shared!Refused, Readers!Refused, Shared!Listed,
        Readers!Listed

LEMMA ReadersSpec == StoreSpec => Readers!Spec
<1>1. StoreInit => Readers!Init
  BY DEF StoreInit, Shared!Init, Readers!Init, Shared!Number, Readers!Number
<1>2. [StoreNext]_<<kind, vars, sharedVars, folderVars, sorterVars>> => [Readers!Next]_(Readers!vars)
  BY ReadersStep DEF StoreNext, sharedVars, Readers!vars
<1> QED
  BY <1>1, <1>2, PTL DEF StoreSpec, Readers!Spec

-----------------------------------------------------------------------------
\* However many readers there are, and whatever they scan, clear and leave
\* behind: ShLock_do_obtain counts no further than to their number.
THEOREM SharedNumbersAlwaysLow ==
  ASSUME IsFiniteSet(Locker)
  PROVE  StoreSpec => []SharedNumbersLow
<1>1. Readers!NumbersStayLow => SharedNumbersLow
  BY DEF SharedNumbersLow, Readers!NumbersStayLow, Shared!NumbersStayLow,
         Readers!Cardinality, Shared!Cardinality
<1>2. Readers!Spec => []Readers!NumbersStayLow
  BY Constants, Readers!NumbersLow
<1> QED
  BY <1>1, <1>2, ReadersSpec, PTL

\* ShLock_is_locked answers TRUE while a reader holds the lock, as long as none
\* has died: the holder's own file is there, and complete.
THEOREM SharedHeldFile ==
  ASSUME IsFiniteSet(Locker)
  PROVE  StoreSpec => []SharedHeldHasFile
<1>1. Readers!HeldHasFile => SharedHeldHasFile
  BY DEF SharedHeldHasFile, Readers!HeldHasFile, Shared!HeldHasFile, Readers!Holders,
         Shared!Holders, Readers!NobodyDied, Shared!NobodyDied, Readers!Exists,
         Shared!Exists, Readers!Listed, Shared!Listed
<1>2. Readers!Spec => []Readers!HeldHasFile
  BY Constants, Readers!SharedHeldFile, PTL
<1> QED
  BY <1>1, <1>2, ReadersSpec, PTL

\* ShLock_release leaves no file behind, nor does an obtain that failed.
THEOREM NothingLeft ==
  ASSUME IsFiniteSet(Locker)
  PROVE  StoreSpec => []SharedNoLeftovers
<1>1. Readers!NoLeftovers => SharedNoLeftovers
  BY DEF SharedNoLeftovers, Readers!NoLeftovers, Shared!NoLeftovers, Readers!Listed,
         Shared!Listed, Readers!Exists, Shared!Exists, Readers!Number, Shared!Number
<1>2. Readers!Spec => []Readers!NoLeftovers
  BY Constants, Readers!NothingLeft
<1> QED
  BY <1>1, <1>2, ReadersSpec, PTL

-----------------------------------------------------------------------------
(* The files of a segment                                                   *)

LEMMA FilesSpec == StoreSpec => Compound!Spec
<1>1. StoreInit => Compound!Init
  BY DEF StoreInit
<1>2. [StoreNext]_<<kind, vars, sharedVars, folderVars, sorterVars>> => [Compound!Next]_(Compound!vars)
  BY DEF StoreNext, folderVars, Compound!vars
<1> QED
  BY <1>1, <1>2, PTL DEF StoreSpec, Compound!Spec

\* However many files a segment has and however long they are, at whatever
\* step of CFWriter_Consolidate or of a purge a process dies and whenever
\* another looks into the directory: every file of a finished segment is there
\* with its own bytes until it is deleted.
THEOREM SegmentFilesAlwaysRight == StoreSpec => []SegmentFilesRight
<1>1. Compound!SegmentFilesRight => SegmentFilesRight
  BY DEF SegmentFilesRight
<1>2. Compound!Spec => []Compound!SegmentFilesRight
  BY StoreAssumption, Compound!SegmentFilesAlwaysRight
<1> QED
  BY <1>1, <1>2, FilesSpec, PTL

-----------------------------------------------------------------------------
(* The external sorter                                                      *)

LEMMA SorterSpec == StoreSpec => Sorter!Spec
<1>1. StoreInit => Sorter!Init
  BY DEF StoreInit
<1>2. [StoreNext]_<<kind, vars, sharedVars, folderVars, sorterVars>> => [Sorter!Next]_(Sorter!vars)
  BY DEF StoreNext, sorterVars, Sorter!vars
<1> QED
  BY <1>1, <1>2, PTL DEF StoreSpec, Sorter!Spec

\* Whatever numbers are fed, and however few of them fit into the memory of the
\* sorter or of a run: SortEx_fetch gives them back in order, each as often as
\* it was fed, and ends when none is left.
THEOREM AlwaysFetchedInOrder == StoreSpec => []FetchedInOrder
<1>1. Sorter!FetchedInOrder => FetchedInOrder
  BY DEF FetchedInOrder
<1>2. Sorter!Spec => []Sorter!FetchedInOrder
  BY StoreAssumption, Sorter!AlwaysFetchedInOrder
<1> QED
  BY <1>1, <1>2, SorterSpec, PTL
=============================================================================
