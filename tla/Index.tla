-------------------------------- MODULE Index --------------------------------
(* One index directory, shared by the processes that write it and the       *)
(* processes that read it: Indexer.c with FilePurger.c, IndexManager.c,     *)
(* Snapshot.c and SegWriter.c on one side, PolyReader_do_open on the other. *)
(*                                                                          *)
(* The files of the directory are abstracted to who wrote them: a file is   *)
(* absent (0) or bears the stamp of the indexing session that wrote its     *)
(* contents.  A segment is its segmeta.json and its data files, which       *)
(* Folder_Finish_Segment turns into one compound file.  The locks are       *)
(* taken here as Lock.tla and SharedLock.tla show them to be when no stale  *)
(* lock is cleared by two processes at once: atomic, exclusive (write,      *)
(* commit) or shared (read locks), left behind by a process that dies and   *)
(* taken over by the next one that wants them.                              *)
EXTENDS Naturals

CONSTANTS
    Indexer,     \* processes that open Indexers
    Reader,      \* processes that open IndexReaders
    Locking,     \* the readers that are given a LockFactory
    Sticky,      \* the readers whose open files the system will not delete
    Mortal,      \* the processes that may die
    MayTruncate, \* do some sessions pass truncate => 1?
    MaxSession,  \* bound: indexing sessions in a behaviour
    Nobody       \* no process

Process == Indexer \cup Reader

ASSUME IndexAssumption ==
    /\ Locking \subseteq Reader
    /\ Sticky \subseteq Reader
    /\ Indexer \cap Reader = {}
    /\ Mortal \subseteq Process
    /\ Nobody \notin Process
    /\ MayTruncate \in BOOLEAN
    /\ MaxSession \in Nat

\* Sessions, generations of snapshot and schema files and segment numbers all
\* count from 1, and none of them outruns the sessions.
Gen == 1..MaxSession
Stamp == 0..MaxSession

\* The files of the index other than snapshots, as <<kind, number>>.
File == {"schema", "meta", "data"} \X Gen
Contents == [File -> Stamp]
Nothing == [f \in File |-> 0]

\* What a snapshot file lists; NoSnap: there is no such file.
Snap == [segs : SUBSET Gen, schema : Gen]
NoSnap == [segs |-> {}, schema |-> 0]

VARIABLES
    snapshots,  \* [Gen -> Snap or NoSnap]: snapshot_<g>.json
    temps,      \* [Gen -> Snap or NoSnap]: snapshot_<g>.json.temp
    disk,       \* the other files
    compound,   \* the segments whose data is in cf.dat
    writer,     \* the process named in the write lock, or Nobody
    commitLock, \* the process named in the commit lock, or Nobody
    readLocks,  \* [Gen -> SUBSET Reader]: the read locks on each snapshot
    dead,       \* the processes that have died
    session,    \* the number of indexing sessions so far
    job,        \* the indexing session of writer
    rd,         \* [Reader -> what PolyReader_do_open has in hand]
    published   \* history: [Gen -> Contents], what was committed as <g>

storage == <<snapshots, temps, disk, compound, published>>
locks == <<writer, commitLock, readLocks>>
vars == <<storage, locks, dead, session, job, rd>>

-----------------------------------------------------------------------------
(* Helpers *)

OnDisk == {g \in Gen : snapshots[g] # NoSnap}

\* IxFileNames_latest_snapshot: the highest generation, 0 if there is none.
IsLatest(g) ==
    \/ g = 0 /\ OnDisk = {}
    \/ g \in OnDisk /\ \A h \in OnDisk : h <= g

SnapOf(g) == IF g = 0 THEN NoSnap ELSE snapshots[g]

\* Snapshot_list
Entries(snap) ==
    ({"meta", "data"} \X snap.segs)
        \cup (IF snap.schema = 0 THEN {} ELSE {<<"schema", snap.schema>>})

\* Mutated form of IsNextSeg: the lowest number that is not in use.
IsFreeSeg(n, snap) == n \notin snap.segs /\ \A m \in Gen : m < n => m \in snap.segs

\* IxManager_make_new_segment: one more than the highest number listed.
IsNextSeg(n, snap) ==
    /\ \A m \in snap.segs : m < n
    /\ n = 1 \/ n - 1 \in snap.segs

\* The files of a snapshot are all there, as they were when it was committed.
Intact(g, f) == disk[f] = published[g][f] /\ disk[f] # 0
SegmentsIntact(g) ==
    \A f \in Entries(snapshots[g]) : f[1] # "schema" => Intact(g, f)
SchemaIntact(g) == Intact(g, <<"schema", snapshots[g].schema>>)

NoJob == [pc |-> "none", base |-> 0, segs |-> {}, schema |-> 0, seg |-> 0,
          changed |-> FALSE, gen |-> 0, current |-> 0, todo |-> {}, snaps |-> {},
          failed |-> FALSE]

Closed == [pc |-> "closed", gen |-> 0, lastGen |-> 0, todo |-> {}, view |-> Nothing]

\* A file that is open cannot be deleted, on some systems.
Stuck(f) == \E r \in Sticky : rd[r].pc \in {"elements", "open"} /\ rd[r].view[f] # 0

Free(lock) == lock = Nobody \/ lock \in dead

Init ==
    /\ snapshots = [g \in Gen |-> NoSnap]
    /\ temps = [g \in Gen |-> NoSnap]
    /\ disk = Nothing
    /\ compound = {}
    /\ writer = Nobody
    /\ commitLock = Nobody
    /\ readLocks = [g \in Gen |-> {}]
    /\ dead = {}
    /\ session = 0
    /\ job = NoJob
    /\ rd = [r \in Reader |-> Closed]
    /\ published = [g \in Gen |-> Nothing]

-----------------------------------------------------------------------------
(* Indexer_init *)

\* Get the write lock, read the latest snapshot and open a PolyReader on it.
\* A truncating session starts from an empty snapshot.
Begin(p, truncate) ==
    /\ p \notin dead /\ Free(writer)
    /\ session < MaxSession
    /\ truncate => MayTruncate
    /\ writer' = p
    /\ session' = session + 1
    /\ \E g \in 0..MaxSession :
          /\ IsLatest(g)
          /\ job' = [NoJob EXCEPT
                       !.pc = "purge",
                       !.base = g,
                       !.current = g,
                       !.segs = IF truncate THEN {} ELSE SnapOf(g).segs,
                       !.schema = IF truncate THEN 0 ELSE SnapOf(g).schema]
    /\ UNCHANGED <<storage, commitLock, readLocks, dead, rd>>

\* SegWriter_Prep_Seg_Dir.  The number of the new segment counts on from the
\* latest snapshot, even when truncating.  Leftovers of a session that did not
\* commit are deleted; but a leftover compound file makes Folder_Exists deny
\* the segment directory, and Folder_MkDir then throws out of Indexer_init
\* with the write lock held.
PrepSegDir ==
    /\ job.pc = "prep" /\ writer \notin dead
    /\ \E n \in Gen :
          /\ IsNextSeg(n, SnapOf(job.base))
          /\ IF n \in compound
             THEN job' = [NoJob EXCEPT !.pc = "stuck"] /\ UNCHANGED disk
             ELSE /\ disk' = [disk EXCEPT ![<<"meta", n>>] = 0, ![<<"data", n>>] = 0]
                  /\ job' = [job EXCEPT !.pc = "work", !.seg = n]
    /\ UNCHANGED <<snapshots, temps, compound, published, locks, dead, session, rd>>

-----------------------------------------------------------------------------
(* FilePurger_purge, for Indexer_init and for Indexer_commit *)

\* Mutated form of Unlocked: the read locks are not looked at.
NotCurrent == OnDisk \ {job.current}

\* The files and snapshots S_discover_unused puts up for deletion: those that
\* are listed only by snapshots that nobody has locked.
Unlocked == {g \in OnDisk \ {job.current} : readLocks[g] = {}}
Spared == (OnDisk \cup {job.current}) \ Unlocked
\* Mutated form of Purgables: current files are not taken off the candidates.
AllCandidates == UNION {Entries(snapshots[g]) : g \in Unlocked}
Purgables ==
    (UNION {Entries(snapshots[g]) : g \in Unlocked})
        \ (UNION {Entries(SnapOf(g)) : g \in Spared})

PurgeBegin ==
    /\ job.pc \in {"purge", "committed"} /\ writer \notin dead
    /\ Free(commitLock)
    /\ commitLock' = writer
    /\ job' = [job EXCEPT !.pc = IF @ = "purge" THEN "purging" ELSE "cleaning",
                          !.todo = Purgables, !.snaps = Unlocked, !.failed = FALSE]
    /\ UNCHANGED <<storage, writer, readLocks, dead, session, rd>>

\* What follows a purge: the session's work, or its end.
AfterPurge == IF job.pc \in {"purge", "purging"} THEN "prep" ELSE "ending"

\* "Can't obtain commit lock, skipping deletion of obsolete files"
PurgeSkip ==
    /\ job.pc \in {"purge", "committed"} /\ writer \notin dead
    /\ ~Free(commitLock)
    /\ job' = [job EXCEPT !.pc = AfterPurge]
    /\ UNCHANGED <<storage, locks, dead, session, rd>>

\* Reverse lexical order: segments before schemas, newer before older, and
\* segmeta.json before the data.
After(f, h) ==
    LET kind(x) == IF x[1] = "schema" THEN 0 ELSE 1
    IN  \/ kind(f) > kind(h)
        \/ kind(f) = kind(h) /\ f[2] > h[2]
        \/ f[2] = h[2] /\ f[1] = "meta" /\ h[1] = "data"
        \/ f = h

NextToGo(f) == f \in job.todo /\ \A h \in job.todo : After(f, h)

Purge ==
    /\ job.pc \in {"purging", "cleaning"} /\ writer \notin dead
    /\ \E f \in job.todo :
          /\ NextToGo(f) /\ ~Stuck(f)
          /\ disk' = [disk EXCEPT ![f] = 0]
          /\ compound' = compound \ (IF f[1] = "data" THEN {f[2]} ELSE {})
          /\ job' = [job EXCEPT !.todo = @ \ {f}]
    /\ UNCHANGED <<snapshots, temps, published, locks, dead, session, rd>>

\* Folder_Delete returns false.
PurgeFails ==
    /\ job.pc \in {"purging", "cleaning"} /\ writer \notin dead
    /\ \E f \in job.todo :
          /\ NextToGo(f) /\ Stuck(f)
          /\ job' = [job EXCEPT !.todo = @ \ {f}, !.failed = TRUE]
    /\ UNCHANGED <<storage, locks, dead, session, rd>>

\* Mutated form of PurgeSnapshot: the snapshots go before their files.
PurgeSnapshotFirst ==
    /\ job.pc \in {"purging", "cleaning"} /\ writer \notin dead
    /\ ~job.failed
    /\ \E g \in job.snaps :
          /\ snapshots' = [snapshots EXCEPT ![g] = NoSnap]
          /\ job' = [job EXCEPT !.snaps = @ \ {g}]
    /\ UNCHANGED <<temps, disk, compound, published, locks, dead, session, rd>>

\* The snapshot files go last, and only if all their files went.
PurgeSnapshot ==
    /\ job.pc \in {"purging", "cleaning"} /\ writer \notin dead
    /\ job.todo = {} /\ ~job.failed
    /\ \E g \in job.snaps :
          /\ snapshots' = [snapshots EXCEPT ![g] = NoSnap]
          /\ job' = [job EXCEPT !.snaps = @ \ {g}]
    /\ UNCHANGED <<temps, disk, compound, published, locks, dead, session, rd>>

PurgeEnd ==
    /\ job.pc \in {"purging", "cleaning"} /\ writer \notin dead
    /\ job.todo = {} /\ (job.failed \/ job.snaps = {})
    /\ commitLock' = Nobody
    /\ job' = [job EXCEPT !.pc = AfterPurge, !.snaps = {}, !.failed = FALSE]
    /\ UNCHANGED <<storage, writer, readLocks, dead, session, rd>>

-----------------------------------------------------------------------------
(* The session's work, and Indexer_prepare_commit *)

\* Add_Doc, Add_Index, Delete_By_Term, Delete_By_Query: files appear in the
\* directory of the new segment.
AddDocs ==
    /\ job.pc = "work" /\ writer \notin dead
    /\ disk' = [disk EXCEPT ![<<"data", job.seg>>] = session]
    /\ job' = [job EXCEPT !.changed = TRUE]
    /\ UNCHANGED <<snapshots, temps, compound, published, locks, dead, session, rd>>

\* SegWriter_Merge_Segment, called by Optimize and by Prepare_Commit.
MergeSegment ==
    /\ job.pc = "work" /\ writer \notin dead
    /\ \E n \in job.segs : job' = [job EXCEPT !.segs = @ \ {n}, !.changed = TRUE]
    /\ disk' = [disk EXCEPT ![<<"data", job.seg>>] = session]
    /\ UNCHANGED <<snapshots, temps, compound, published, locks, dead, session, rd>>

\* Add a new segment and write a new snapshot file if docs or segs were added,
\* or segs merged, or if the index is being initialized.
NeedsCommit == job.changed \/ (job.segs = {} /\ job.schema = 0)

\* SegWriter_Finish
FinishSegment ==
    /\ job.pc = "work" /\ writer \notin dead
    /\ NeedsCommit
    /\ disk' = [disk EXCEPT ![<<"data", job.seg>>] = session,
                            ![<<"meta", job.seg>>] = session]
    /\ job' = [job EXCEPT !.pc = "finished", !.segs = @ \cup {job.seg}]
    /\ UNCHANGED <<snapshots, temps, compound, published, locks, dead, session, rd>>

\* Mutated form of WriteSchema: the new schema is not entered in the snapshot.
WriteSchemaUnlisted ==
    /\ job.pc = "finished" /\ writer \notin dead
    /\ disk' = [disk EXCEPT ![<<"schema", job.schema + 1>>] = session]
    /\ job' = [job EXCEPT !.pc = "schema"]
    /\ UNCHANGED <<snapshots, temps, compound, published, locks, dead, session, rd>>

\* Schema_Write: the next generation, counted from this session's snapshot,
\* is renamed over whatever has that name.
WriteSchema ==
    /\ job.pc = "finished" /\ writer \notin dead
    /\ disk' = [disk EXCEPT ![<<"schema", job.schema + 1>>] = session]
    /\ job' = [job EXCEPT !.pc = "schema", !.schema = @ + 1]
    /\ UNCHANGED <<snapshots, temps, compound, published, locks, dead, session, rd>>

\* Folder_Finish_Segment
Consolidate ==
    /\ job.pc = "schema" /\ writer \notin dead
    /\ compound' = compound \cup {job.seg}
    /\ job' = [job EXCEPT !.pc = "consolidated"]
    /\ UNCHANGED <<snapshots, temps, disk, published, locks, dead, session, rd>>

\* IxManager_Make_Snapshot_Filename and Snapshot_Write_File; a temporary
\* snapshot that is in the way is deleted.
WriteTemp ==
    /\ job.pc = "consolidated" /\ writer \notin dead
    /\ \E g \in 0..MaxSession :
          /\ IsLatest(g)
          /\ temps' = [temps EXCEPT ![g + 1] = [segs |-> job.segs, schema |-> job.schema]]
          /\ job' = [job EXCEPT !.pc = "prepared", !.gen = g + 1]
    /\ UNCHANGED <<snapshots, disk, compound, published, locks, dead, session, rd>>

-----------------------------------------------------------------------------
(* Indexer_commit and Indexer_destroy *)

\* The rename of the temporary snapshot file is the commit.
Rename ==
    /\ job.pc = "prepared" /\ writer \notin dead
    /\ snapshots' = [snapshots EXCEPT ![job.gen] = temps[job.gen]]
    /\ temps' = [temps EXCEPT ![job.gen] = NoSnap]
    /\ published' = [published EXCEPT ![job.gen] =
                       [f \in File |-> IF f \in Entries(temps[job.gen])
                                       THEN disk[f] ELSE 0]]
    /\ job' = [job EXCEPT !.pc = "committed", !.current = job.gen]
    /\ UNCHANGED <<disk, compound, locks, dead, session, rd>>

\* The write lock is released: after a commit, after a commit() that had
\* nothing to commit, or because the Indexer is destroyed without one.
End ==
    /\ job.pc \in {"work", "prepared", "ending"} /\ writer \notin dead
    /\ writer' = Nobody
    /\ job' = NoJob
    /\ UNCHANGED <<storage, commitLock, readLocks, dead, session, rd>>

-----------------------------------------------------------------------------
(* PolyReader_do_open *)

\* Mutated form of Open: without the commit lock.
OpenUncovered(r) ==
    /\ rd[r].pc = "closed" /\ r \notin dead
    /\ rd' = [rd EXCEPT ![r] = [Closed EXCEPT !.pc = "pick"]]
    /\ UNCHANGED <<storage, locks, dead, session, job>>

\* Get the commit lock first, if there is a LockFactory.
Open(r) ==
    /\ rd[r].pc = "closed" /\ r \notin dead
    /\ IF r \in Locking THEN Free(commitLock) /\ commitLock' = r
                        ELSE UNCHANGED commitLock
    /\ rd' = [rd EXCEPT ![r] = [Closed EXCEPT !.pc = "pick"]]
    /\ UNCHANGED <<storage, writer, readLocks, dead, session, job>>

\* S_release_commit_lock
ReleaseCommit(r) == commitLock' = IF r \in Locking THEN Nobody ELSE commitLock

\* S_release_read_lock
ReleaseRead(r) == readLocks' = [readLocks EXCEPT ![rd[r].gen] = @ \ {r}]

\* Choose the most recent snapshot file; none means an empty index.
Pick(r) ==
    /\ rd[r].pc = "pick" /\ r \notin dead
    /\ \E g \in 0..MaxSession :
          /\ IsLatest(g)
          /\ IF g = 0
             THEN rd' = [rd EXCEPT ![r] = Closed] /\ ReleaseCommit(r)
             ELSE /\ rd' = [rd EXCEPT ![r].gen = g,
                                      ![r].pc = IF r \in Locking THEN "lock" ELSE "read"]
                  /\ UNCHANGED commitLock
    /\ UNCHANGED <<storage, writer, readLocks, dead, session, job>>

\* S_obtain_read_lock: Clear_Stale, then Obtain.
ReadLock(r) ==
    /\ rd[r].pc = "lock" /\ r \notin dead
    /\ readLocks' = [readLocks EXCEPT ![rd[r].gen] = (@ \ dead) \cup {r}]
    /\ rd' = [rd EXCEPT ![r].pc = "read"]
    /\ UNCHANGED <<storage, writer, commitLock, dead, session, job>>

\* Mutated form of Fail: no second try.
FailAtOnce(r) ==
    /\ ReleaseRead(r)
    /\ rd' = [rd EXCEPT ![r] = Closed]
    /\ ReleaseCommit(r)

\* Something could not be opened: try again if the index has moved on since
\* the last failure, otherwise throw.
Fail(r) ==
    /\ ReleaseRead(r)
    /\ IF rd[r].lastGen < rd[r].gen
       THEN /\ rd' = [rd EXCEPT ![r] = [Closed EXCEPT !.pc = "pick",
                                                      !.lastGen = rd[r].gen]]
            /\ UNCHANGED commitLock
       ELSE rd' = [rd EXCEPT ![r] = Closed] /\ ReleaseCommit(r)

\* PolyReader_try_read_snapshot
ReadSnapshot(r) ==
    /\ rd[r].pc = "read" /\ r \notin dead
    /\ IF rd[r].gen \in OnDisk
       THEN /\ rd' = [rd EXCEPT ![r].pc = "elements",
                                ![r].todo = Entries(snapshots[rd[r].gen])]
            /\ UNCHANGED <<commitLock, readLocks>>
       ELSE Fail(r)
    /\ UNCHANGED <<storage, writer, dead, session, job>>

\* S_try_open_elements: the schema, every segmeta.json, then the data.
Due(r, f) ==
    /\ f \in rd[r].todo
    /\ f[1] = "schema" \/ \A h \in rd[r].todo : h[1] # "schema"
    /\ f[1] = "data" => \A h \in rd[r].todo : h[1] = "data"

Take(r, f) ==
    /\ rd' = [rd EXCEPT ![r].todo = @ \ {f}, ![r].view[f] = disk[f]]
    /\ UNCHANGED <<commitLock, readLocks>>

OpenElement(r) ==
    /\ rd[r].pc = "elements" /\ r \notin dead
    /\ \E f \in rd[r].todo : Due(r, f) /\ disk[f] # 0 /\ Take(r, f)
    /\ UNCHANGED <<storage, writer, dead, session, job>>

\* A missing schema or segmeta.json is an error, and so are data files that
\* Folder_Exists still found and Folder_Open_In does not.
ElementMissing(r) ==
    /\ rd[r].pc = "elements" /\ r \notin dead
    /\ \E f \in rd[r].todo : Due(r, f) /\ disk[f] = 0
    /\ Fail(r)
    /\ UNCHANGED <<storage, writer, dead, session, job>>

\* Data files that are not there are taken for a segment that never had any:
\* DefDocReader_init and S_has_data ask Folder_Exists first.
DataMissing(r) ==
    /\ rd[r].pc = "elements" /\ r \notin dead
    /\ \E f \in rd[r].todo : Due(r, f) /\ f[1] = "data" /\ disk[f] = 0 /\ Take(r, f)
    /\ UNCHANGED <<storage, writer, dead, session, job>>

\* S_init_sub_readers; the commit lock is released, the read lock is kept.
Opened(r) ==
    /\ rd[r].pc = "elements" /\ r \notin dead
    /\ rd[r].todo = {}
    /\ rd' = [rd EXCEPT ![r].pc = "open"]
    /\ ReleaseCommit(r)
    /\ UNCHANGED <<storage, writer, readLocks, dead, session, job>>

\* IxReader_close
Close(r) ==
    /\ rd[r].pc = "open" /\ r \notin dead
    /\ ReleaseRead(r)
    /\ rd' = [rd EXCEPT ![r] = Closed]
    /\ UNCHANGED <<storage, writer, commitLock, dead, session, job>>

-----------------------------------------------------------------------------
\* A process dies: its memory and open files are gone, its lock files stay.
Die(p) ==
    /\ p \in Mortal \ dead
    /\ dead' = dead \cup {p}
    /\ job' = IF p = writer THEN NoJob ELSE job
    /\ rd' = IF p \in Reader THEN [rd EXCEPT ![p] = Closed] ELSE rd
    /\ UNCHANGED <<storage, locks, session>>

IndexerStep ==
    \/ PrepSegDir \/ PurgeBegin \/ PurgeSkip \/ Purge \/ PurgeFails \/ PurgeSnapshot \/ PurgeEnd
    \/ AddDocs \/ MergeSegment \/ FinishSegment \/ WriteSchema \/ Consolidate
    \/ WriteTemp \/ Rename \/ End

OpenStep(r) ==
    \/ Pick(r) \/ ReadLock(r) \/ ReadSnapshot(r) \/ OpenElement(r)
    \/ ElementMissing(r) \/ DataMissing(r) \/ Opened(r)

Next ==
    \/ IndexerStep
    \/ \E p \in Indexer, truncate \in BOOLEAN : Begin(p, truncate)
    \/ \E r \in Reader : Open(r) \/ OpenStep(r) \/ Close(r)
    \/ \E p \in Process : Die(p)

Spec == Init /\ [][Next]_vars

-----------------------------------------------------------------------------
JobPC == {"none", "purge", "purging", "prep", "work", "finished", "schema",
          "consolidated", "prepared", "committed", "cleaning", "ending", "stuck"}
ReaderPC == {"closed", "pick", "lock", "read", "elements", "open"}

JobState ==
    [pc : JobPC, base : Stamp, segs : SUBSET Gen, schema : Stamp, seg : Stamp,
     changed : BOOLEAN, gen : Stamp, current : Stamp, todo : SUBSET File,
     snaps : SUBSET Gen, failed : BOOLEAN]
ReaderState ==
    [pc : ReaderPC, gen : Stamp, lastGen : Stamp, todo : SUBSET File, view : Contents]

\* Every variable holds a value of its kind: a snapshot always lists a schema
\* (Indexer_prepare_commit) and no file number outruns the sessions.
TypeOK ==
    /\ snapshots \in [Gen -> Snap \cup {NoSnap}]
    /\ temps \in [Gen -> Snap \cup {NoSnap}]
    /\ disk \in Contents
    /\ compound \subseteq Gen
    /\ writer \in Indexer \cup {Nobody}
    /\ commitLock \in Process \cup {Nobody}
    /\ readLocks \in [Gen -> SUBSET Reader]
    /\ dead \subseteq Process
    /\ session \in Stamp
    /\ job \in JobState
    /\ rd \in [Reader -> ReaderState]
    /\ published \in [Gen -> Contents]

\* A crash of the Indexer at any step, a session given up or a purge (Indexer.c,
\* FilePurger.c) leaves the files that the newest snapshot lists, the schema
\* included, as they were when it was committed.
LatestIntact ==
    \A g \in OnDisk : IsLatest(g) => SegmentsIntact(g) /\ SchemaIntact(g)

\* From the moment PolyReader_do_open, called with a LockFactory, has chosen a
\* snapshot until the reader is closed, no Indexer deletes or overwrites a
\* file of that snapshot: the commit lock covers it before the read lock does.
ReaderProtected ==
    \A r \in Locking :
        rd[r].pc \in {"lock", "read", "elements", "open"} =>
            /\ rd[r].gen \in OnDisk
            /\ SegmentsIntact(rd[r].gen) /\ SchemaIntact(rd[r].gen)

\* A reader, locking or not, never combines files of different commits,
\* however long PolyReader_do_open takes between one file and the next.
NoMixedView ==
    \A r \in Reader : rd[r].pc = "open" =>
        \A f \in File : rd[r].view[f] \in {0, published[rd[r].gen][f]}

\* PolyReader_do_open never takes the race with an Indexer for damage: it
\* retries, and an error is thrown only if a newer snapshot did not help.
NoFalseAlarm ==
    [][\A r \in Reader :
         rd[r].pc \in {"read", "elements"} /\ r \notin dead' => rd'[r].pc # "closed"]_vars

\* No file is lost track of, whatever FilePurger could not delete and wherever
\* an Indexer died: each is listed by a snapshot that a later purge will read,
\* or bears the number that the next session will clear or overwrite.
NoOrphans ==
    \A f \in File : disk[f] # 0 =>
        \/ \E g \in OnDisk : f \in Entries(snapshots[g])
        \/ \A g \in Stamp : IsLatest(g) =>
              IF f[1] = "schema" THEN f[2] = SnapOf(g).schema + 1
                                 ELSE IsNextSeg(f[2], SnapOf(g))

-----------------------------------------------------------------------------
(* The inductive invariant, for sessions that do not truncate: what makes    *)
(* the properties above true from one step to the next.                      *)

\* The generation of the newest snapshot.
Newest == CHOOSE g \in Stamp : IsLatest(g)

\* The session has yet to rename its snapshot.
Uncommitted == {"purge", "purging", "prep", "work", "finished", "schema",
                "consolidated", "prepared"}
Purging == {"purging", "cleaning"}

\* Nothing outruns the sessions: the session in progress is one more than all
\* that have left a snapshot.
Counted ==
    /\ \A g \in Gen : snapshots[g].schema <= session /\ temps[g].schema <= session
    /\ \A g \in OnDisk : g <= session
    /\ job.schema <= session
    /\ job.pc \in Uncommitted =>
          /\ session # 0
          /\ \A g \in OnDisk : g < session /\ snapshots[g].schema < session
    /\ job.pc \in {"purge", "purging", "prep", "work", "finished"} => job.schema < session
    /\ job.pc \in {"schema", "consolidated", "prepared"} => job.schema # 0
    /\ job.pc \in {"work", "finished", "schema", "consolidated", "prepared"} => job.seg \in Gen
    /\ job.pc = "prepared" => job.gen # 0 /\ job.gen <= session

\* An Indexer at work holds the write lock and lives; there is a newest
\* snapshot, which is the session's base until it commits one of its own.
Serial ==
    /\ \E g \in Stamp : IsLatest(g)
    /\ job.pc # "none" => writer \in Indexer \ dead
    /\ job.pc \notin {"none", "stuck"} => job.current = Newest
    /\ job.pc \in Uncommitted => job.base = Newest

\* The session's snapshot: the segments of its base that were not merged, and
\* its own, whose files are there by the time it is listed.
Prepared ==
    job.pc \in Uncommitted =>
        LET base == SnapOf(Newest) IN
        /\ job.segs \subseteq base.segs \cup
              (IF job.pc \in {"purge", "purging", "prep"} THEN {} ELSE {job.seg})
        /\ job.pc \notin {"purge", "purging", "prep"} => IsNextSeg(job.seg, base)
        /\ IF job.pc \in {"schema", "consolidated", "prepared"}
           THEN job.schema = base.schema + 1 /\ disk[<<"schema", job.schema>>] # 0
           ELSE job.schema = base.schema
        /\ job.pc \in {"finished", "schema", "consolidated", "prepared"} =>
              /\ job.seg \in job.segs
              /\ disk[<<"meta", job.seg>>] # 0 /\ disk[<<"data", job.seg>>] # 0
        /\ job.pc = "prepared" =>
              /\ job.gen = Newest + 1
              /\ temps[job.gen] = [segs |-> job.segs, schema |-> job.schema]

\* What was committed: no generation after the newest, no segment number after
\* the newest snapshot's highest, no schema after its schema.
Past(g, f) ==
    /\ g <= Newest
    /\ IF f[1] = "schema" THEN f[2] <= SnapOf(Newest).schema
                          ELSE \E n \in SnapOf(Newest).segs : f[2] <= n
History ==
    \A g \in Gen, f \in File :
        /\ g \in OnDisk => (f \in Entries(snapshots[g]) <=> published[g][f] # 0)
        /\ published[g][f] # 0 => disk[f] \in {0, published[g][f]} /\ Past(g, f)

\* The newest snapshot's files are there.
Whole(g) == \A f \in Entries(snapshots[g]) : disk[f] # 0
NewestWhole == Newest # 0 => Whole(Newest)

\* What a purge is still to delete is neither in the newest snapshot nor in one
\* that an open reader has locked; what is gone already is not in any snapshot
\* that stays.
PurgeSafe ==
    job.pc \in Purging =>
        /\ commitLock = writer
        /\ job.snaps \subseteq OnDisk \ {job.current}
        /\ job.todo \cap Entries(SnapOf(job.current)) = {}
        /\ \A r \in Locking : rd[r].pc = "open" =>
              rd[r].gen \notin job.snaps /\ job.todo \cap Entries(snapshots[rd[r].gen]) = {}
        /\ ~job.failed =>
              \A g \in job.snaps : \A f \in Entries(snapshots[g]) :
                  \/ disk[f] = 0 \/ f \in job.todo
                  \/ \E h \in OnDisk \ job.snaps : f \in Entries(snapshots[h])

\* A reader has chosen a generation that was committed, later than the one it
\* failed with; what it has read so far is of that commit.
ReadsOne(r) ==
    LET hand == rd[r] IN
    /\ r \in dead => hand = Closed
    /\ hand.pc \notin {"closed", "pick"} => hand.gen # 0 /\ hand.gen <= Newest
    /\ hand.pc = "pick" => hand.lastGen = 0 \/ hand.lastGen < Newest
    /\ hand.pc \in {"pick", "lock", "read"} => hand.view = Nothing
    /\ hand.pc \in {"lock", "read", "elements"} => hand.lastGen < hand.gen
    /\ hand.pc \in {"elements", "open"} =>
          \A f \in File : hand.view[f] \in {0, published[hand.gen][f]}
    /\ hand.pc = "elements" => \A f \in hand.todo : published[hand.gen][f] # 0

\* A reader with a LockFactory has the commit lock while it opens and the read
\* lock from then on; its snapshot is whole, and so is what it reads.
Guarded(r) ==
    LET hand == rd[r] IN
    /\ hand.pc \in {"pick", "lock", "read", "elements"} => commitLock = r
    /\ hand.pc \in {"read", "elements", "open"} => r \in readLocks[hand.gen]
    /\ hand.pc \in {"lock", "read", "elements", "open"} =>
          hand.gen \in OnDisk /\ Whole(hand.gen)
    /\ hand.pc \in {"elements", "open"} =>
          \A f \in File : f \in hand.todo \/ hand.view[f] = published[hand.gen][f]
    /\ hand.pc = "open" => hand.todo = {}

IndexInv ==
    /\ TypeOK /\ Counted /\ Serial /\ Prepared /\ History /\ NewestWhole /\ PurgeSafe
    /\ \A r \in Reader : ReadsOne(r)
    /\ \A r \in Locking : Guarded(r)

-----------------------------------------------------------------------------
\* What the readers with a LockFactory see, from the moment they choose a
\* snapshot.
Seen == [r \in Locking |->
           IF rd[r].pc = "open" THEN rd[r].view
           ELSE IF rd[r].pc \in {"lock", "read", "elements"}
                THEN published[rd[r].gen] ELSE Nothing]

\* With a LockFactory, opening a reader is atomic: the reader sees the whole of
\* the version that was newest when PolyReader_do_open listed the directory.
Atomic == INSTANCE Versions WITH
    Reader <- Locking,
    Version <- Gen,
    newest <- Newest,
    history <- published,
    seen <- Seen

VersionsSpec == Atomic!Spec

\* SegWriter_Prep_Seg_Dir: "Clear stale segment files from crashed indexing
\* sessions": Indexer_init gets past what an earlier session left behind.
LeftoversCleared == job.pc # "stuck"
=============================================================================
