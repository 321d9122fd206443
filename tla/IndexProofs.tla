---------------------------- MODULE IndexProofs ----------------------------
(* Index.tla for any indexers and readers, whichever of them lock and may   *)
(* die, and any number of sessions.  IndexInv is inductive, together with   *)
(* NoOrphans, as long as no session truncates; each of its parts has a      *)
(* lemma that says how a step keeps it.                                     *)
EXTENDS Index, TLAPS

-----------------------------------------------------------------------------
(* Numbers and entries                                                      *)

LEMMA Numbers ==
  /\ 0 \in Stamp
  /\ \A g \in Gen : g \in Stamp /\ g # 0 /\ g \in Nat
  /\ \A g \in Stamp : g \in Nat /\ (g # 0 => g \in Gen)
  /\ \A g \in Nat, h \in Stamp : g <= h => g \in Stamp
BY IndexAssumption DEF Gen, Stamp

LEMMA EntriesAreFiles ==
  ASSUME NEW snap \in Snap \cup {NoSnap}
  PROVE  Entries(snap) \in SUBSET File
<1>1. snap.segs \in SUBSET Gen
  BY DEF Snap, NoSnap
<1>2. snap.schema \in Gen \/ snap.schema = 0
  BY DEF Snap, NoSnap
<1> QED
  BY <1>1, <1>2 DEF Entries, File

\* One action at a time.
LEMMA TypeStep ==
  ASSUME TypeOK, Counted, [Next]_vars
  PROVE  TypeOK'
<1> USE Numbers, IndexAssumption DEF TypeOK, storage, locks, JobState, ReaderState
<1>1. ASSUME NEW p \in Indexer, NEW truncate \in BOOLEAN, Begin(p, truncate)
      PROVE  TypeOK'
  <2>1. session' \in Stamp
    BY <1>1 DEF Begin, Stamp
  <2>2. \A g \in Stamp : SnapOf(g).segs \in SUBSET Gen /\ SnapOf(g).schema \in Stamp
    BY DEF SnapOf, Snap, NoSnap
  <2>3. PICK g \in Stamp :
           job' = [NoJob EXCEPT !.pc = "purge", !.base = g, !.current = g,
                                !.segs = IF truncate THEN {} ELSE SnapOf(g).segs,
                                !.schema = IF truncate THEN 0 ELSE SnapOf(g).schema]
    BY <1>1 DEF Begin, Stamp
  <2>6. job' \in JobState
    <3>1. CASE truncate
      BY <2>3, <3>1 DEF NoJob, JobPC
    <3>2. CASE ~truncate
      BY <2>2, <2>3, <3>2 DEF NoJob, JobPC
    <3> QED
      BY <3>1, <3>2
  <2> QED
    BY <1>1, <2>1, <2>6 DEF Begin
<1>2. CASE PrepSegDir
  <2>1. PICK n \in Gen :
           IF n \in compound
           THEN job' = [NoJob EXCEPT !.pc = "stuck"] /\ UNCHANGED disk
           ELSE /\ disk' = [disk EXCEPT ![<<"meta", n>>] = 0, ![<<"data", n>>] = 0]
                /\ job' = [job EXCEPT !.pc = "work", !.seg = n]
    BY <1>2 DEF PrepSegDir
  <2>2. CASE n \in compound
    <3>1. NoJob \in JobState
      BY DEF NoJob, JobPC
    <3>2. job' \in JobState
      BY <2>1, <2>2, <3>1 DEF JobPC
    <3> QED
      BY <1>2, <2>1, <2>2, <3>2 DEF PrepSegDir
  <2>3. CASE n \notin compound
    <3>1. job' \in JobState
      <4>1. n \in Stamp /\ "work" \in JobPC
        BY DEF JobPC
      <4> QED
        BY <2>1, <2>3, <4>1
    <3>2. disk' \in Contents
      BY <2>1, <2>3 DEF Contents
    <3> QED
      BY <1>2, <3>1, <3>2 DEF PrepSegDir
  <2> QED
    BY <2>2, <2>3
<1>3. CASE PurgeBegin
  <2>1. Purgables \in SUBSET File
    BY EntriesAreFiles DEF Purgables, Unlocked, OnDisk
  <2>2. Unlocked \in SUBSET Gen
    BY DEF Unlocked, OnDisk
  <2>3. commitLock' \in Process \cup {Nobody}
    BY <1>3 DEF PurgeBegin, Process
  <2> QED
    BY <1>3, <2>1, <2>2, <2>3 DEF PurgeBegin, JobPC
<1>4. CASE PurgeSkip
  BY <1>4 DEF PurgeSkip, AfterPurge, JobPC
<1>5. CASE Purge
  <2>1. PICK f \in job.todo :
           /\ disk' = [disk EXCEPT ![f] = 0]
           /\ compound' = compound \ (IF f[1] = "data" THEN {f[2]} ELSE {})
           /\ job' = [job EXCEPT !.todo = @ \ {f}]
    BY <1>5 DEF Purge
  <2> QED
    BY <1>5, <2>1 DEF Purge, Contents
<1>6. CASE PurgeFails
  <2>1. PICK f \in job.todo : job' = [job EXCEPT !.todo = @ \ {f}, !.failed = TRUE]
    BY <1>6 DEF PurgeFails
  <2> QED
    BY <1>6, <2>1 DEF PurgeFails
<1>7. CASE PurgeSnapshot
  BY <1>7 DEF PurgeSnapshot
<1>8. CASE PurgeEnd
  BY <1>8 DEF PurgeEnd, AfterPurge, JobPC
<1>9. CASE AddDocs
  BY <1>9 DEF AddDocs, Contents
<1>10. CASE MergeSegment
  <2>1. PICK n \in job.segs : job' = [job EXCEPT !.segs = @ \ {n}, !.changed = TRUE]
    BY <1>10 DEF MergeSegment
  <2> QED
    BY <1>10, <2>1 DEF MergeSegment, Contents
<1>11. CASE FinishSegment
  BY <1>11 DEF FinishSegment, Counted, Contents, JobPC
<1>12. CASE WriteSchema
  <2>1. job.schema + 1 \in Stamp
    BY <1>12 DEF WriteSchema, Counted, Stamp
  <2> QED
    BY <1>12, <2>1 DEF WriteSchema, Contents, JobPC
<1>13. CASE Consolidate
  BY <1>13 DEF Consolidate, Counted, JobPC
<1>14. CASE WriteTemp
  <2>1. PICK g \in Stamp :
           /\ IsLatest(g)
           /\ temps' = [temps EXCEPT ![g + 1] = [segs |-> job.segs, schema |-> job.schema]]
           /\ job' = [job EXCEPT !.pc = "prepared", !.gen = g + 1]
    BY <1>14 DEF WriteTemp, Stamp
  <2>2. g + 1 \in Stamp
    BY <1>14, <2>1 DEF WriteTemp, Counted, IsLatest, Stamp, Uncommitted
  <2>3. [segs |-> job.segs, schema |-> job.schema] \in Snap
    BY <1>14 DEF WriteTemp, Counted, Snap
  <2>4. temps' \in [Gen -> Snap \cup {NoSnap}]
    BY <2>1, <2>3
  <2> QED
    BY <1>14, <2>1, <2>2, <2>4 DEF WriteTemp, JobPC
<1>15. CASE Rename
  BY <1>15 DEF Rename, JobPC, Contents
<1>16. CASE End
  BY <1>16 DEF End, NoJob, JobPC
<1>17. ASSUME NEW r \in Reader, Open(r) PROVE TypeOK'
  BY <1>17 DEF Open, Closed, ReaderPC, Process, Nothing, Contents
<1>18. ASSUME NEW r \in Reader, Close(r) PROVE TypeOK'
  BY <1>18 DEF Close, ReleaseRead, Closed, ReaderPC, Nothing, Contents
<1>19. ASSUME NEW p \in Process, Die(p) PROVE TypeOK'
  BY <1>19 DEF Die, Closed, NoJob, JobPC, ReaderPC, Nothing, Contents
<1>20. ASSUME NEW r \in Reader, OpenStep(r) PROVE TypeOK'
  <2>1. CASE Pick(r)
    <3>1. PICK g \in Stamp :
             IF g = 0
             THEN rd' = [rd EXCEPT ![r] = Closed] /\ ReleaseCommit(r)
             ELSE /\ rd' = [rd EXCEPT ![r].gen = g,
                                      ![r].pc = IF r \in Locking THEN "lock" ELSE "read"]
                  /\ UNCHANGED commitLock
      BY <2>1 DEF Pick, Stamp
    <3>2. CASE g = 0
      BY <2>1, <3>1, <3>2 DEF Pick, ReleaseCommit, Closed, ReaderPC, Nothing, Contents
    <3>3. CASE g # 0
      <4>1. rd' \in [Reader -> ReaderState]
        BY <3>1, <3>3 DEF ReaderPC
      <4> QED
        BY <2>1, <3>1, <3>3, <4>1 DEF Pick
    <3> QED
      BY <3>2, <3>3
  <2>2. CASE ReadLock(r)
    <3>1. readLocks' \in [Gen -> SUBSET Reader]
      BY <2>2 DEF ReadLock
    <3> QED
      BY <2>2, <3>1 DEF ReadLock, ReaderPC
  <2>3. ASSUME Fail(r), UNCHANGED <<storage, writer, dead, session, job>> PROVE TypeOK'
    <3>1. readLocks' \in [Gen -> SUBSET Reader]
      BY <2>3 DEF Fail, ReleaseRead
    <3>2. commitLock' \in Process \cup {Nobody}
      BY <2>3 DEF Fail, ReleaseCommit
    <3>3. rd' \in [Reader -> ReaderState]
      <4>1. Closed \in ReaderState
        BY DEF Closed, ReaderPC, Nothing, Contents
      <4>2. [Closed EXCEPT !.pc = "pick", !.lastGen = rd[r].gen] \in ReaderState
        BY <4>1 DEF ReaderPC
      <4> QED
        <5>1. CASE rd[r].lastGen < rd[r].gen
          BY <2>3, <4>2, <5>1 DEF Fail
        <5>2. CASE ~(rd[r].lastGen < rd[r].gen)
          BY <2>3, <4>1, <5>2 DEF Fail
        <5> QED
          BY <5>1, <5>2
    <3> QED
      BY <2>3, <3>1, <3>2, <3>3
  <2>4. CASE ReadSnapshot(r)
    <3>1. CASE rd[r].gen \in OnDisk
      <4>1. Entries(snapshots[rd[r].gen]) \in SUBSET File
        BY <3>1, EntriesAreFiles DEF OnDisk
      <4> QED
        BY <2>4, <3>1, <4>1 DEF ReadSnapshot, ReaderPC
    <3>2. CASE rd[r].gen \notin OnDisk
      BY <2>3, <2>4, <3>2 DEF ReadSnapshot
    <3> QED
      BY <3>1, <3>2
  <2>5. ASSUME NEW f \in rd[r].todo, Take(r, f), UNCHANGED <<storage, writer, dead, session, job>>
        PROVE TypeOK'
    <3>1. disk[f] \in Stamp
      BY <2>5 DEF Contents
    <3>2. rd' \in [Reader -> ReaderState]
      <4>1. [rd[r].view EXCEPT ![f] = disk[f]] \in Contents
        BY <3>1 DEF Contents
      <4>2. rd' = [rd EXCEPT ![r] = [rd[r] EXCEPT !.todo = @ \ {f}, !.view = [@ EXCEPT ![f] = disk[f]]]]
        BY <2>5 DEF Take
      <4> QED
        <5>1. [rd[r] EXCEPT !.todo = @ \ {f}, !.view = [@ EXCEPT ![f] = disk[f]]] \in ReaderState
          BY <4>1
        <5> QED
          BY <4>2, <5>1
    <3> QED
      BY <2>5, <3>2 DEF Take
  <2>6. CASE OpenElement(r)
    BY <2>5, <2>6 DEF OpenElement
  <2>7. CASE ElementMissing(r)
    BY <2>3, <2>7 DEF ElementMissing
  <2>8. CASE DataMissing(r)
    BY <2>5, <2>8 DEF DataMissing
  <2>9. CASE Opened(r)
    BY <2>9 DEF Opened, ReleaseCommit, ReaderPC
  <2> QED
    BY <1>20, <2>1, <2>2, <2>4, <2>6, <2>7, <2>8, <2>9 DEF OpenStep
<1>21. CASE UNCHANGED vars
  BY <1>21 DEF vars
<1> QED
  BY <1>1, <1>2, <1>3, <1>4, <1>5, <1>6, <1>7, <1>8, <1>9, <1>10, <1>11, <1>12, <1>13,
     <1>14, <1>15, <1>16, <1>17, <1>18, <1>19, <1>20, <1>21 DEF Next, IndexerStep

LEMMA CountedStep ==
  ASSUME TypeOK, Counted, TypeOK', [Next]_vars
  PROVE  Counted'
<1> USE Numbers, IndexAssumption DEF TypeOK, storage, locks, JobState, Counted, Uncommitted, OnDisk
<1>0. ASSUME UNCHANGED <<snapshots, temps, session, job>> PROVE Counted'
  BY <1>0
<1>1. ASSUME NEW p \in Indexer, NEW truncate \in BOOLEAN, Begin(p, truncate)
      PROVE  Counted'
  BY <1>1 DEF Begin, SnapOf, NoSnap, NoJob, Stamp, Snap
<1>2. CASE PrepSegDir
  <2>1. PICK n \in Gen : IF n \in compound THEN job' = [NoJob EXCEPT !.pc = "stuck"]
                         ELSE job' = [job EXCEPT !.pc = "work", !.seg = n]
    BY <1>2 DEF PrepSegDir
  <2>2. CASE n \in compound
    BY <1>2, <2>1, <2>2 DEF PrepSegDir, NoJob
  <2>3. CASE n \notin compound
    <3>1. job'.pc = "work" /\ job'.seg = n /\ job'.schema = job.schema
      BY <2>1, <2>3
    <3>2. job.pc = "prep" /\ UNCHANGED <<snapshots, temps, session>>
      BY <1>2 DEF PrepSegDir
    <3> QED
      BY <3>1, <3>2
  <2> QED
    BY <2>2, <2>3
<1>3. CASE PurgeBegin
  BY <1>3 DEF PurgeBegin
<1>4. CASE PurgeSkip
  BY <1>4 DEF PurgeSkip, AfterPurge
<1>5. CASE Purge
  BY <1>5 DEF Purge
<1>6. CASE PurgeFails
  BY <1>6 DEF PurgeFails
<1>7. CASE PurgeSnapshot
  <2>1. PICK g \in job.snaps :
           /\ snapshots' = [snapshots EXCEPT ![g] = NoSnap]
           /\ job' = [job EXCEPT !.snaps = @ \ {g}]
    BY <1>7 DEF PurgeSnapshot
  <2>2. NoSnap.schema = 0
    BY DEF NoSnap
  <2>3. \A h \in Gen : snapshots'[h] \in {snapshots[h], NoSnap}
    BY <2>1
  <2>4. \A h \in Gen : snapshots'[h].schema <= session
    BY <2>2, <2>3
  <2>5. \A h \in OnDisk' : h \in OnDisk /\ snapshots'[h] = snapshots[h]
    BY <2>3
  <2> QED
    BY <1>7, <2>1, <2>4, <2>5 DEF PurgeSnapshot
<1>8. CASE PurgeEnd
  BY <1>8 DEF PurgeEnd, AfterPurge
<1>9. CASE AddDocs
  BY <1>9 DEF AddDocs
<1>10. CASE MergeSegment
  BY <1>10 DEF MergeSegment
<1>11. CASE FinishSegment
  BY <1>11 DEF FinishSegment
<1>12. CASE WriteSchema
  BY <1>12 DEF WriteSchema, Stamp
<1>13. CASE Consolidate
  BY <1>13 DEF Consolidate
<1>14. CASE WriteTemp
  BY <1>14 DEF WriteTemp, IsLatest
<1>15. CASE Rename
  <2>1. job.pc = "prepared" /\ job.gen \in Gen /\ job.gen <= session
    BY <1>15 DEF Rename
  <2>2. NoSnap.schema = 0
    BY DEF NoSnap
  <2>3. \A h \in Gen : /\ snapshots'[h] \in {snapshots[h], temps[h]}
                       /\ temps'[h] \in {temps[h], NoSnap}
                       /\ h # job.gen => snapshots'[h] = snapshots[h]
    BY <1>15, <2>1 DEF Rename
  <2>4. \A h \in Gen : snapshots'[h].schema <= session /\ temps'[h].schema <= session
    BY <2>2, <2>3
  <2>5. \A h \in OnDisk' : h = job.gen \/ h \in OnDisk
    BY <2>3
  <2>6. job'.pc = "committed" /\ job'.schema = job.schema /\ session' = session
    BY <1>15 DEF Rename
  <2> QED
    BY <2>1, <2>4, <2>5, <2>6
<1>16. CASE End
  BY <1>16 DEF End, NoJob
<1>17. ASSUME NEW p \in Process, Die(p) PROVE Counted'
  BY <1>17 DEF Die, NoJob
<1>18. ASSUME NEW r \in Reader, Open(r) \/ OpenStep(r) \/ Close(r) PROVE Counted'
  BY <1>0, <1>18 DEF Open, Close, OpenStep, Pick, ReadLock, ReadSnapshot, OpenElement,
                     ElementMissing, DataMissing, Opened
<1>19. CASE UNCHANGED vars
  BY <1>0, <1>19 DEF vars
<1> QED
  BY <1>1, <1>2, <1>3, <1>4, <1>5, <1>6, <1>7, <1>8, <1>9, <1>10, <1>11, <1>12, <1>13,
     <1>14, <1>15, <1>16, <1>17, <1>18, <1>19 DEF Next, IndexerStep

-----------------------------------------------------------------------------
(* The newest snapshot, and what a step does to the directory               *)

LEMMA LatestOf ==
  ASSUME NEW S \in SUBSET Gen, NEW n \in Stamp,
         \/ n = 0 /\ S = {}
         \/ n \in S /\ \A h \in S : h <= n
  PROVE  n = CHOOSE g \in Stamp : \/ g = 0 /\ S = {}
                                  \/ g \in S /\ \A h \in S : h <= g
<1>1. ASSUME NEW g \in Stamp, \/ g = 0 /\ S = {}
                              \/ g \in S /\ \A h \in S : h <= g
      PROVE  g = n
  BY <1>1, Numbers
<1> QED
  BY <1>1

LEMMA NewestIs ==
  /\ \A n \in Stamp : IsLatest(n) => Newest = n
  /\ \A n \in Stamp : IsLatest(n)' => Newest' = n
<1>1. OnDisk \in SUBSET Gen /\ OnDisk' \in SUBSET Gen
  BY DEF OnDisk
<1>2. ASSUME NEW n \in Stamp, IsLatest(n) PROVE Newest = n
  BY <1>1, <1>2, LatestOf DEF IsLatest, Newest
<1>3. ASSUME NEW n \in Stamp, IsLatest(n)' PROVE Newest' = n
  BY <1>1, <1>3, LatestOf DEF IsLatest, Newest
<1> QED
  BY <1>2, <1>3

LEMMA NewestIsLatest ==
  ASSUME Serial
  PROVE  /\ Newest \in Stamp /\ IsLatest(Newest)
         /\ \A g \in OnDisk : g <= Newest
         /\ Newest # 0 => Newest \in OnDisk /\ SnapOf(Newest) = snapshots[Newest]
<1>1. Newest \in Stamp /\ IsLatest(Newest)
  BY NewestIs DEF Serial
<1> QED
  BY <1>1, Numbers DEF IsLatest, SnapOf

\* Only Rename adds a snapshot, and it becomes the newest; only a purge takes
\* one away, and never the newest.
RenameStep ==
    /\ job.pc = "prepared" /\ job'.pc = "committed"
    /\ job.gen \in Gen /\ job.gen = Newest + 1 /\ Newest' = job.gen
    /\ OnDisk' = OnDisk \cup {job.gen}
    /\ snapshots'[job.gen] = [segs |-> job.segs, schema |-> job.schema]
    /\ \A g \in Gen \ {job.gen} : snapshots'[g] = snapshots[g] /\ published'[g] = published[g]
    /\ \A f \in File : published'[job.gen][f] = IF f \in Entries(snapshots'[job.gen])
                                                THEN disk[f] ELSE 0
    /\ UNCHANGED <<disk, rd, commitLock, readLocks>>
OtherStep ==
    /\ published' = published
    /\ OnDisk' \subseteq OnDisk
    /\ \A g \in OnDisk' : snapshots'[g] = snapshots[g]
    /\ Newest' = Newest /\ SnapOf(Newest)' = SnapOf(Newest)

\* Which actions touch which variables.
ReaderStep == \E r \in Reader : Open(r) \/ OpenStep(r) \/ Close(r)
LEMMA Frames ==
  ASSUME [Next]_vars
  PROVE  /\ PurgeSnapshot \/ Rename \/ UNCHANGED <<snapshots, published>>
         /\ PrepSegDir \/ Purge \/ AddDocs \/ MergeSegment \/ FinishSegment \/ WriteSchema
               \/ UNCHANGED disk
         /\ WriteTemp \/ Rename \/ UNCHANGED temps
         /\ ReaderStep \/ (\E p \in Process : Die(p)) \/ UNCHANGED rd
         /\ ReaderStep => UNCHANGED <<storage, writer, dead, session, job>>
         /\ (\E p \in Process : Die(p)) \/ UNCHANGED dead
<1> USE DEF storage, locks
<1>1. ASSUME IndexerStep
      PROVE  /\ PurgeSnapshot \/ Rename \/ UNCHANGED <<snapshots, published>>
             /\ PrepSegDir \/ Purge \/ AddDocs \/ MergeSegment \/ FinishSegment \/ WriteSchema
                   \/ UNCHANGED disk
             /\ WriteTemp \/ Rename \/ UNCHANGED temps
             /\ UNCHANGED <<rd, dead>>
  <2>1. CASE PrepSegDir \/ Purge \/ AddDocs \/ MergeSegment \/ FinishSegment \/ WriteSchema
    BY <2>1 DEF PrepSegDir, Purge, AddDocs, MergeSegment, FinishSegment, WriteSchema
  <2>2. CASE PurgeBegin \/ PurgeSkip \/ PurgeFails \/ PurgeEnd \/ End
    BY <2>2 DEF PurgeBegin, PurgeSkip, PurgeFails, PurgeEnd, End
  <2>3. CASE PurgeSnapshot \/ Consolidate \/ WriteTemp \/ Rename
    BY <2>3 DEF PurgeSnapshot, Consolidate, WriteTemp, Rename
  <2> QED
    BY <1>1, <2>1, <2>2, <2>3 DEF IndexerStep
<1>2. ASSUME NEW p \in Indexer, NEW truncate \in BOOLEAN, Begin(p, truncate)
      PROVE  UNCHANGED <<storage, dead, rd>>
  BY <1>2 DEF Begin
<1>3. ReaderStep => UNCHANGED <<storage, writer, dead, session, job>>
  BY DEF ReaderStep, Open, OpenStep, Close, Pick, ReadLock, ReadSnapshot, OpenElement,
         ElementMissing, DataMissing, Opened
<1>4. ASSUME NEW p \in Process, Die(p) PROVE UNCHANGED storage
  BY <1>4 DEF Die
<1>5. CASE UNCHANGED vars
  BY <1>3, <1>5 DEF vars
<1> QED
  BY <1>1, <1>2, <1>3, <1>4, <1>5 DEF Next, ReaderStep

LEMMA SnapshotsStep ==
  ASSUME IndexInv, [Next]_vars
  PROVE  \/ Rename /\ RenameStep
         \/ /\ OtherStep /\ ~Rename
            /\ UNCHANGED snapshots \/ (PurgeSnapshot /\ UNCHANGED rd)
<1> USE Numbers DEF storage
<1>a. Newest \in Stamp /\ IsLatest(Newest)
  BY NewestIsLatest DEF IndexInv
<1>1. CASE UNCHANGED <<snapshots, published>> /\ ~Rename
  <2>1. OnDisk' = OnDisk
    BY <1>1 DEF OnDisk
  <2>2. IsLatest(Newest) => Newest' = Newest
    <3>1. ASSUME NEW n \in Stamp, IsLatest(n) PROVE IsLatest(n)'
      BY <2>1, <3>1 DEF IsLatest
    <3> QED
      BY <1>a, <3>1, NewestIs
  <2>3. SnapOf(Newest)' = SnapOf(Newest)
    BY <1>1, <1>a, <2>2 DEF SnapOf
  <2> QED
    <3>1. Newest' = Newest /\ OnDisk' \subseteq OnDisk
      BY <1>a, <2>1, <2>2
    <3>2. \A g \in OnDisk' : snapshots'[g] = snapshots[g]
      BY <1>1
    <3>3. published' = published /\ snapshots' = snapshots
      BY <1>1
    <3>4. OtherStep
      BY <2>3, <3>1, <3>2, <3>3 DEF OtherStep
    <3> QED
      BY <1>1, <3>3, <3>4
<1>2. CASE PurgeSnapshot
  <2>1. PICK g \in job.snaps : snapshots' = [snapshots EXCEPT ![g] = NoSnap]
    BY <1>2 DEF PurgeSnapshot
  <2>2. g \in OnDisk /\ g # Newest
    BY <1>2, <2>1 DEF PurgeSnapshot, IndexInv, PurgeSafe, Purging, Serial
  <2>3. OnDisk' = OnDisk \ {g} /\ \A h \in OnDisk' : snapshots'[h] = snapshots[h]
    BY <2>1, <2>2 DEF OnDisk, IndexInv, TypeOK
  <2>4. Newest # 0
    BY <1>a, <2>2 DEF IsLatest, OnDisk
  <2>5. Newest \in OnDisk' /\ \A h \in OnDisk' : h <= Newest
    BY <1>a, <2>2, <2>3, <2>4 DEF IsLatest
  <2>6. \A n \in Stamp : n \in OnDisk' /\ (\A h \in OnDisk' : h <= n) => Newest' = n
    BY NewestIs DEF IsLatest
  <2>7. Newest' = Newest
    BY <1>a, <2>5, <2>6
  <2>8. SnapOf(Newest)' = SnapOf(Newest)
    BY <2>3, <2>4, <2>5, <2>7 DEF SnapOf
  <2> QED
    <3>1. ~Rename
      BY <1>2 DEF PurgeSnapshot, Rename
    <3> QED
      BY <1>2, <2>3, <2>7, <2>8, <3>1 DEF OtherStep, PurgeSnapshot
<1>3. CASE Rename
  <2>1. /\ job.pc = "prepared" /\ job.gen = Newest + 1 /\ job.gen \in Gen
        /\ temps[job.gen] = [segs |-> job.segs, schema |-> job.schema] /\ job.schema # 0
    BY <1>3, <1>a DEF Rename, IndexInv, Prepared, Uncommitted, Counted, TypeOK, JobState, Stamp, Gen
  <2>2. temps[job.gen] # NoSnap
    BY <2>1 DEF NoSnap
  <2>3. /\ snapshots' = [snapshots EXCEPT ![job.gen] = temps[job.gen]]
        /\ snapshots \in [Gen -> Snap \cup {NoSnap}]
        /\ published \in [Gen -> Contents]
    BY <1>3 DEF Rename, IndexInv, TypeOK
  <2>4. OnDisk' = OnDisk \cup {job.gen}
    BY <2>1, <2>2, <2>3 DEF OnDisk
  <2>5. \A h \in OnDisk' : h <= job.gen
    BY <1>a, <2>1, <2>4 DEF IsLatest, OnDisk
  <2>6. Newest' = job.gen
    BY <2>1, <2>4, <2>5, NewestIs DEF IsLatest
  <2>7. snapshots'[job.gen] = [segs |-> job.segs, schema |-> job.schema]
    BY <2>1, <2>3
  <2>8. /\ \A g \in Gen \ {job.gen} : snapshots'[g] = snapshots[g] /\ published'[g] = published[g]
        /\ published'[job.gen] = [f \in File |-> IF f \in Entries(temps[job.gen])
                                                 THEN disk[f] ELSE 0]
    BY <1>3, <2>1, <2>3 DEF Rename
  <2>9. UNCHANGED <<disk, rd, commitLock, readLocks>> /\ job'.pc = "committed"
    BY <1>3 DEF Rename, locks, IndexInv, TypeOK, JobState
  <2> QED
    BY <1>3, <2>1, <2>4, <2>6, <2>7, <2>8, <2>9 DEF RenameStep
<1> QED
  <2>1. CASE Rename
    BY <1>3, <2>1
  <2>2. CASE ~Rename
    BY <1>1, <1>2, <2>2, Frames
  <2> QED
    BY <2>1, <2>2

\* The files a session may write: none of them has been committed.
New(f) == IF f[1] = "schema" THEN f[2] = SnapOf(Newest).schema + 1
                             ELSE IsNextSeg(f[2], SnapOf(Newest))

LEMMA NewestSnap ==
  ASSUME IndexInv
  PROVE  SnapOf(Newest) \in Snap \cup {NoSnap} /\ SnapOf(Newest).schema \in Stamp
         /\ SnapOf(Newest).segs \in SUBSET Gen
<1>1. SnapOf(Newest) \in Snap \cup {NoSnap}
  BY NewestIsLatest, Numbers DEF IndexInv, TypeOK, SnapOf
<1> QED
  BY <1>1, Numbers DEF Snap, NoSnap

LEMMA NewIsFresh ==
  ASSUME IndexInv, NEW f \in File, New(f)
  PROVE  /\ \A g \in Gen : published[g][f] = 0
         /\ \A g \in OnDisk : f \notin Entries(snapshots[g])
<1>1. f[2] \in Nat /\ SnapOf(Newest).schema \in Nat /\ SnapOf(Newest).segs \in SUBSET Nat
  BY NewestSnap, Numbers DEF File
<1>2. \A g \in Gen : ~Past(g, f)
  BY <1>1 DEF New, Past, IsNextSeg
<1>3. \A g \in Gen : published[g][f] = 0
  BY <1>2 DEF IndexInv, History
<1> QED
  BY <1>3 DEF IndexInv, History, OnDisk

\* A step deletes what is up for purging, or writes and clears what is new.
LEMMA DiskStep ==
  ASSUME IndexInv, [Next]_vars, NEW f \in File
  PROVE  \/ disk'[f] = disk[f]
         \/ Purge /\ f \in job.todo /\ disk'[f] = 0
         \/ New(f)
<1>a. disk \in [File -> Stamp]
  BY DEF IndexInv, TypeOK, Contents
<1>b. ASSUME job.pc \in {"work", "finished"} PROVE IsNextSeg(job.seg, SnapOf(Newest))
  BY <1>b DEF IndexInv, Prepared, Uncommitted
<1>1. CASE PrepSegDir
  <2>1. PICK n \in Gen :
           /\ IsNextSeg(n, SnapOf(job.base))
           /\ disk' = disk \/ disk' = [disk EXCEPT ![<<"meta", n>>] = 0, ![<<"data", n>>] = 0]
    BY <1>1 DEF PrepSegDir
  <2>2. job.base = Newest
    BY <1>1 DEF PrepSegDir, IndexInv, Serial, Uncommitted
  <2>3. CASE f \in {<<"meta", n>>, <<"data", n>>}
    BY <2>1, <2>2, <2>3 DEF New
  <2>4. CASE f \notin {<<"meta", n>>, <<"data", n>>}
    BY <1>a, <2>1, <2>4
  <2> QED
    BY <2>3, <2>4
<1>2. CASE Purge
  BY <1>a, <1>2 DEF Purge
<1>3. CASE AddDocs \/ MergeSegment \/ FinishSegment
  <2>1. CASE f \in {<<"meta", job.seg>>, <<"data", job.seg>>}
    <3>1. IsNextSeg(job.seg, SnapOf(Newest))
      BY <1>b, <1>3 DEF AddDocs, MergeSegment, FinishSegment
    <3>2. f[1] # "schema" /\ f[2] = job.seg
      BY <2>1
    <3> QED
      BY <3>1, <3>2 DEF New
  <2>2. CASE f \notin {<<"meta", job.seg>>, <<"data", job.seg>>}
    BY <1>a, <1>3, <2>2 DEF AddDocs, MergeSegment, FinishSegment
  <2> QED
    BY <2>1, <2>2
<1>4. CASE WriteSchema
  <2>1. job.schema = SnapOf(Newest).schema
    BY <1>4 DEF WriteSchema, IndexInv, Prepared, Uncommitted
  <2>2. CASE f = <<"schema", job.schema + 1>>
    BY <2>1, <2>2 DEF New
  <2>3. CASE f # <<"schema", job.schema + 1>>
    BY <1>a, <1>4, <2>3 DEF WriteSchema
  <2> QED
    BY <2>2, <2>3
<1> QED
  BY <1>1, <1>2, <1>3, <1>4, Frames

\* So what is gone from a committed file was purged.
LEMMA CommittedStep ==
  ASSUME IndexInv, [Next]_vars, NEW g \in Gen, NEW f \in File, published[g][f] # 0
  PROVE  disk'[f] = disk[f] \/ (Purge /\ f \in job.todo /\ disk'[f] = 0)
BY DiskStep, NewIsFresh

-----------------------------------------------------------------------------
(* The parts of the invariant about what was committed                      *)

LEMMA RenameKeepsHistory ==
  ASSUME IndexInv, RenameStep
  PROVE  History' /\ NewestWhole'
<1> DEFINE base == SnapOf(Newest)
           fresh == snapshots'[job.gen]
<1>1. /\ Newest \in Stamp /\ base.schema \in Stamp /\ base.segs \in SUBSET Gen
      /\ Newest' = job.gen /\ job.gen \in Gen /\ job.gen = Newest + 1
      /\ SnapOf(Newest)' = fresh
  BY NewestSnap, NewestIsLatest, Numbers DEF IndexInv, RenameStep, SnapOf
<1>2. /\ fresh.segs = job.segs /\ fresh.schema = job.schema
      /\ job.schema = base.schema + 1
      /\ job.segs \subseteq base.segs \cup {job.seg} /\ job.seg \in job.segs
      /\ IsNextSeg(job.seg, base)
      /\ disk[<<"schema", job.schema>>] # 0
      /\ disk[<<"meta", job.seg>>] # 0 /\ disk[<<"data", job.seg>>] # 0
  BY DEF RenameStep, IndexInv, Prepared, Uncommitted
<1>3. ASSUME NEW f \in Entries(fresh) PROVE disk[f] # 0
  <2>1. CASE f = <<"schema", job.schema>> \/ f \in {"meta", "data"} \X {job.seg}
    BY <1>2, <2>1
  <2>2. CASE f \in {"meta", "data"} \X base.segs
    <3>1. Newest # 0 /\ base = snapshots[Newest]
      BY <2>2, NewestIsLatest DEF SnapOf, NoSnap, IndexInv
    <3> QED
      BY <2>2, <3>1 DEF IndexInv, NewestWhole, Whole, Entries
  <2> QED
    BY <1>2, <2>1, <2>2 DEF Entries
<1>4. NewestWhole'
  BY <1>1, <1>3 DEF NewestWhole, Whole, RenameStep
<1>5. ASSUME NEW g \in Gen, NEW f \in File, g \in OnDisk'
      PROVE  f \in Entries(snapshots'[g]) <=> published'[g][f] # 0
  <2>1. CASE g = job.gen
    BY <1>3, <2>1 DEF RenameStep
  <2>2. CASE g # job.gen
    BY <1>5, <2>2 DEF RenameStep, IndexInv, History
  <2> QED
    BY <2>1, <2>2
<1>6. ASSUME NEW g \in Gen, NEW f \in File, published'[g][f] # 0
      PROVE  disk'[f] \in {0, published'[g][f]} /\ Past(g, f)'
  <2>1. CASE g = job.gen
    <3>1. f \in Entries(fresh) /\ published'[g][f] = disk[f] /\ disk' = disk
      BY <1>6, <2>1 DEF RenameStep
    <3>2. IF f[1] = "schema" THEN f[2] = fresh.schema ELSE f[2] \in fresh.segs
      BY <3>1 DEF Entries
    <3> QED
      BY <1>1, <1>2, <2>1, <3>1, <3>2, Numbers DEF Past, File
  <2>2. CASE g # job.gen
    <3>1. published'[g] = published[g] /\ disk' = disk
      BY <2>2 DEF RenameStep
    <3>2. disk[f] \in {0, published[g][f]} /\ Past(g, f)
      BY <1>6, <3>1 DEF IndexInv, History
    <3>3. f[2] \in Nat /\ g \in Nat /\ base.segs \in SUBSET Nat /\ base.schema \in Nat
      BY <1>1, Numbers DEF File
    <3>4. Past(g, f)'
      <4>1. g <= job.gen
        BY <1>1, <3>2, <3>3, Numbers DEF Past
      <4>2. CASE f[1] = "schema"
        <5>1. f[2] <= fresh.schema
          BY <1>2, <3>2, <3>3, <4>2 DEF Past
        <5> QED
          BY <1>1, <4>1, <4>2, <5>1 DEF Past
      <4>3. CASE f[1] # "schema"
        <5>1. PICK n \in base.segs : f[2] <= n
          BY <3>2, <4>3 DEF Past
        <5>2. n < job.seg /\ job.seg \in Nat
          BY <1>2, Numbers DEF IsNextSeg, IndexInv, TypeOK, JobState
        <5>3. job.seg \in fresh.segs /\ f[2] <= job.seg
          BY <1>2, <3>3, <5>1, <5>2
        <5> QED
          BY <1>1, <4>1, <4>3, <5>3 DEF Past
      <4> QED
        BY <4>2, <4>3
    <3> QED
      BY <3>1, <3>2, <3>4
  <2> QED
    BY <2>1, <2>2
<1> QED
  BY <1>4, <1>5, <1>6 DEF History

LEMMA HistoryStep ==
  ASSUME IndexInv, [Next]_vars
  PROVE  History' /\ NewestWhole'
<1>1. CASE RenameStep
  BY <1>1, RenameKeepsHistory
<1>2. CASE OtherStep
  <2>1. ASSUME NEW g \in Gen, NEW f \in File, published[g][f] # 0
        PROVE  disk'[f] \in {0, published[g][f]} /\ Past(g, f)'
    <3>1. disk[f] \in {0, published[g][f]} /\ Past(g, f)
      BY <2>1 DEF IndexInv, History
    <3>2. disk'[f] \in {0, disk[f]}
      BY <2>1, CommittedStep
    <3> QED
      BY <1>2, <3>1, <3>2 DEF OtherStep, Past
  <2>2. History'
    BY <1>2, <2>1 DEF IndexInv, History, OtherStep
  <2>3. ASSUME Newest # 0, NEW f \in Entries(snapshots[Newest])
        PROVE  disk'[f] # 0
    <3>1. Newest \in OnDisk /\ SnapOf(Newest) = snapshots[Newest] /\ Newest \in Gen
      BY <2>3, NewestIsLatest, Numbers DEF IndexInv
    <3>2. f \in File /\ disk[f] # 0
      BY <2>3, <3>1, NewestSnap, EntriesAreFiles DEF IndexInv, NewestWhole, Whole
    <3>3. published[Newest][f] # 0
      BY <3>1, <3>2 DEF IndexInv, History
    <3>4. ~(Purge /\ f \in job.todo)
      BY <3>1 DEF Purge, IndexInv, PurgeSafe, Purging, Serial
    <3> QED
      BY <3>1, <3>2, <3>3, <3>4, CommittedStep
  <2>4. NewestWhole'
    <3> SUFFICES ASSUME Newest # 0 PROVE \A f \in Entries(snapshots'[Newest]) : disk'[f] # 0
      BY <1>2 DEF NewestWhole, Whole, OtherStep
    <3>1. snapshots'[Newest] = snapshots[Newest]
      BY <1>2, NewestIsLatest DEF OtherStep, SnapOf, IndexInv
    <3> QED
      BY <2>3, <3>1
  <2> QED
    BY <2>2, <2>4
<1> QED
  BY <1>1, <1>2, SnapshotsStep

-----------------------------------------------------------------------------
(* The parts about the session in progress                                  *)

LEMMA SomeNewest ==
  ASSUME IndexInv, [Next]_vars
  PROVE  \E g \in Stamp : IsLatest(g)'
<1>1. CASE RenameStep
  <2>1. job.gen \in OnDisk' /\ OnDisk' = OnDisk \cup {job.gen} /\ job.gen \in Stamp
    BY <1>1, Numbers DEF RenameStep
  <2>2. \A h \in OnDisk : h <= job.gen
    BY <1>1, NewestIsLatest, Numbers DEF RenameStep, OnDisk, IndexInv
  <2>3. \A h \in OnDisk' : h <= job.gen
    BY <2>1, <2>2, Numbers
  <2> QED
    BY <2>1, <2>3 DEF IsLatest
<1>2. CASE OtherStep
  <2>1. CASE Newest = 0
    BY <1>2, <2>1, NewestIsLatest, Numbers DEF OtherStep, IsLatest, OnDisk, IndexInv
  <2>2. CASE Newest # 0
    <3>1. /\ Newest \in Gen /\ Newest \in OnDisk /\ snapshots'[Newest] = snapshots[Newest]
          /\ \A g \in OnDisk : g <= Newest
      BY <1>2, <2>2, NewestIsLatest, Numbers DEF OtherStep, SnapOf, IndexInv
    <3>2. Newest \in OnDisk'
      BY <3>1 DEF OnDisk
    <3> QED
      BY <1>2, <3>1, <3>2, Numbers DEF OtherStep, IsLatest
  <2> QED
    BY <2>1, <2>2
<1> QED
  BY <1>1, <1>2, SnapshotsStep

\* An Indexer at work stays the writer until it ends or dies.
LEMMA WriterStep ==
  ASSUME IndexInv, [Next]_vars, job'.pc # "none"
  PROVE  writer' \in Indexer \ dead'
<1> USE DEF locks
<1>a. job.pc # "none" => writer \in Indexer \ dead
  BY DEF IndexInv, Serial
<1>b. job'.pc # "none"
  OBVIOUS
<1>1. CASE IndexerStep
  <2>1. ~End
    BY <1>b DEF End, NoJob
  <2>2. CASE PrepSegDir \/ PurgeBegin \/ PurgeSkip
    BY <2>2, <1>a DEF PrepSegDir, PurgeBegin, PurgeSkip
  <2>3. CASE Purge \/ PurgeFails \/ PurgeSnapshot \/ PurgeEnd
    BY <2>3, <1>a DEF Purge, PurgeFails, PurgeSnapshot, PurgeEnd
  <2>4. CASE AddDocs \/ MergeSegment \/ FinishSegment \/ WriteSchema
    BY <2>4, <1>a DEF AddDocs, MergeSegment, FinishSegment, WriteSchema
  <2>5. CASE Consolidate \/ WriteTemp \/ Rename
    BY <2>5, <1>a DEF Consolidate, WriteTemp, Rename
  <2> QED
    BY <1>1, <2>1, <2>2, <2>3, <2>4, <2>5 DEF IndexerStep
<1>2. ASSUME NEW p \in Indexer, NEW truncate \in BOOLEAN, Begin(p, truncate)
      PROVE  writer' \in Indexer \ dead'
  BY <1>2 DEF Begin
<1>3. CASE ReaderStep
  BY <1>3, <1>a, Frames
<1>4. ASSUME NEW p \in Process, Die(p) PROVE writer' \in Indexer \ dead'
  BY <1>4, <1>a DEF Die, NoJob
<1>5. CASE UNCHANGED vars
  BY <1>5, <1>a DEF vars
<1> QED
  BY <1>1, <1>2, <1>3, <1>4, <1>5 DEF Next, ReaderStep

Based ==
    /\ job.pc \notin {"none", "stuck"} => job.current = Newest
    /\ job.pc \in Uncommitted => job.base = Newest

LEMMA SerialStep ==
  ASSUME IndexInv, [Next]_vars
  PROVE  Serial'
<1>a. Based /\ job \in JobState
  BY DEF IndexInv, Serial, TypeOK, Based
<1> USE <1>a DEF Uncommitted, JobState, Based
<1>1. ASSUME RenameStep, Rename PROVE Based'
  BY <1>1 DEF Rename, RenameStep
<1>2. ASSUME Newest' = Newest, ~Rename PROVE Based'
  <2> USE <1>2
  <2>1. ASSUME job' = job PROVE Based'
    BY <2>1
  <2>2. ASSUME PrepSegDir PROVE Based'
    <3>1. PICK n \in Gen : \/ job' = [NoJob EXCEPT !.pc = "stuck"]
                           \/ job' = [job EXCEPT !.pc = "work", !.seg = n]
      BY <2>2 DEF PrepSegDir
    <3> QED
      BY <2>2, <3>1 DEF PrepSegDir, NoJob
  <2>3. ASSUME PurgeBegin PROVE Based'
    BY <2>3 DEF PurgeBegin
  <2>4. ASSUME PurgeSkip \/ PurgeEnd PROVE Based'
    BY <2>4 DEF PurgeSkip, PurgeEnd, AfterPurge
  <2>5. ASSUME Purge \/ PurgeFails \/ PurgeSnapshot PROVE Based'
    <3>1. job'.pc = job.pc /\ job'.base = job.base /\ job'.current = job.current
      BY <2>5 DEF Purge, PurgeFails, PurgeSnapshot
    <3> QED
      BY <3>1
  <2>6. ASSUME AddDocs \/ FinishSegment \/ WriteSchema \/ Consolidate PROVE Based'
    BY <2>6 DEF AddDocs, FinishSegment, WriteSchema, Consolidate
  <2>7. ASSUME MergeSegment \/ WriteTemp PROVE Based'
    <3>1. /\ job'.base = job.base /\ job'.current = job.current
          /\ job.pc \in Uncommitted
      BY <2>7 DEF MergeSegment, WriteTemp
    <3> QED
      BY <3>1
  <2>8. ASSUME End PROVE Based'
    BY <2>8 DEF End, NoJob
  <2>9. ASSUME NEW p \in Process, Die(p) PROVE Based'
    BY <2>9 DEF Die, NoJob
  <2>10. ASSUME NEW p \in Indexer, NEW truncate \in BOOLEAN, Begin(p, truncate)
         PROVE  Based'
    <3>1. PICK g \in Stamp : /\ IsLatest(g)
                             /\ job'.base = g /\ job'.current = g
      BY <2>10 DEF Begin, NoJob, Stamp
    <3>2. g = Newest
      BY <3>1, NewestIs
    <3> QED
      BY <3>1, <3>2
  <2>11. ASSUME ReaderStep \/ UNCHANGED vars PROVE Based'
    BY <2>1, <2>11, Frames DEF vars
  <2> QED
    BY <2>2, <2>3, <2>4, <2>5, <2>6, <2>7, <2>8, <2>9, <2>10, <2>11, <1>2
       DEF Next, IndexerStep, ReaderStep
<1>3. Based'
  <2>1. CASE Rename /\ RenameStep
    BY <1>1, <2>1
  <2>2. CASE OtherStep /\ ~Rename
    BY <1>2, <2>2 DEF OtherStep
  <2> QED
    BY <2>1, <2>2, SnapshotsStep
<1>4. job'.pc # "none" => writer' \in Indexer \ dead'
  BY WriterStep
<1> QED
  BY <1>3, <1>4, SomeNewest DEF Serial

\* Prepared, of a session, the snapshot it started from and the files.
Ready(j, base, newest, d, t) ==
    /\ j.segs \subseteq base.segs \cup
          (IF j.pc \in {"purge", "purging", "prep"} THEN {} ELSE {j.seg})
    /\ j.pc \notin {"purge", "purging", "prep"} => IsNextSeg(j.seg, base)
    /\ IF j.pc \in {"schema", "consolidated", "prepared"}
       THEN j.schema = base.schema + 1 /\ d[<<"schema", j.schema>>] # 0
       ELSE j.schema = base.schema
    /\ j.pc \in {"finished", "schema", "consolidated", "prepared"} =>
          /\ j.seg \in j.segs
          /\ d[<<"meta", j.seg>>] # 0 /\ d[<<"data", j.seg>>] # 0
    /\ j.pc = "prepared" =>
          /\ j.gen = newest + 1
          /\ t[j.gen] = [segs |-> j.segs, schema |-> j.schema]

LEMMA PreparedStep ==
  ASSUME IndexInv, [Next]_vars, TypeOK', Counted', MayTruncate = FALSE
  PROVE  Prepared'
<1> DEFINE base == SnapOf(Newest)
<1>a. /\ Prepared => (job.pc \in Uncommitted => Ready(job, base, Newest, disk, temps))
      /\ (job'.pc \in Uncommitted => Ready(job', base', Newest', disk', temps')) => Prepared'
  BY DEF Prepared, Ready, IsNextSeg
<1>b. /\ job.pc \in Uncommitted => Ready(job, base, Newest, disk, temps)
      /\ job \in JobState /\ disk \in [File -> Stamp] /\ temps \in [Gen -> Snap \cup {NoSnap}]
      /\ job.pc \in Uncommitted => job.base = Newest
      /\ session \in Nat /\ (job.pc \in Uncommitted => session # 0)
      /\ job.pc \in {"work", "finished", "schema", "consolidated", "prepared"} => job.seg \in Gen
  BY <1>a DEF IndexInv, TypeOK, Contents, Serial, Counted, Stamp
<1>c. job'.pc \in Uncommitted => Newest' = Newest /\ base' = base
  BY SnapshotsStep DEF RenameStep, OtherStep, Uncommitted
<1> DEFINE Goal == job'.pc \in Uncommitted => Ready(job', base, Newest, disk', temps')
<1> HIDE DEF base
<1> SUFFICES Goal
  BY <1>a, <1>c
<1> USE DEF Uncommitted, JobState
<1>0. ASSUME UNCHANGED <<disk, temps>>, UNCHANGED job \/ job'.pc \notin Uncommitted PROVE Goal
  BY <1>0, <1>b
<1>1. ASSUME NEW p \in Indexer, NEW truncate \in BOOLEAN, Begin(p, truncate) PROVE Goal
  <2>1. PICK g \in Stamp :
           /\ IsLatest(g)
           /\ job'.segs = SnapOf(g).segs /\ job'.schema = SnapOf(g).schema /\ job'.pc = "purge"
    BY <1>1 DEF Begin, NoJob, Stamp
  <2>2. g = Newest
    BY <2>1, NewestIs
  <2> QED
    BY <2>1, <2>2 DEF Ready, base
<1>2. CASE PrepSegDir
  <2>1. PICK n \in Gen :
           /\ IsNextSeg(n, SnapOf(job.base))
           /\ \/ job' = [NoJob EXCEPT !.pc = "stuck"]
              \/ job' = [job EXCEPT !.pc = "work", !.seg = n]
    BY <1>2 DEF PrepSegDir
  <2>2. job.pc = "prep" /\ IsNextSeg(n, base)
    BY <1>2, <1>b, <2>1 DEF PrepSegDir, base
  <2> QED
    BY <1>b, <2>1, <2>2 DEF Ready, NoJob
<1>3. CASE PurgeBegin
  BY <1>3, <1>b DEF PurgeBegin, Ready
<1>4. CASE PurgeSkip \/ PurgeEnd
  BY <1>4, <1>b DEF PurgeSkip, PurgeEnd, AfterPurge, Ready
<1>5. CASE Purge \/ PurgeFails \/ PurgeSnapshot
  <2>1. /\ job.pc \in Purging /\ job'.pc = job.pc
        /\ job'.segs = job.segs /\ job'.schema = job.schema
    BY <1>5, <1>b DEF Purge, PurgeFails, PurgeSnapshot, Purging
  <2> QED
    BY <1>b, <2>1 DEF Ready, Purging
<1>6. CASE AddDocs
  BY <1>6, <1>b DEF AddDocs, Ready
<1>7. CASE MergeSegment
  <2>1. PICK n \in job.segs : job' = [job EXCEPT !.segs = @ \ {n}, !.changed = TRUE]
    BY <1>7 DEF MergeSegment
  <2> QED
    BY <1>7, <1>b, <2>1 DEF MergeSegment, Ready
<1>8. CASE FinishSegment
  <2>1. /\ job.pc = "work" /\ session # 0
        /\ job'.pc = "finished" /\ job'.segs = job.segs \cup {job.seg}
        /\ job'.seg = job.seg /\ job'.schema = job.schema
    BY <1>8, <1>b DEF FinishSegment
  <2>2. <<"data", job.seg>> \in File /\ <<"meta", job.seg>> \in File
    BY <1>b, <2>1 DEF File
  <2>3. disk'[<<"meta", job.seg>>] # 0 /\ disk'[<<"data", job.seg>>] # 0
    BY <1>8, <1>b, <2>1, <2>2 DEF FinishSegment
  <2> QED
    BY <1>b, <2>1, <2>3 DEF Ready
<1>9. CASE WriteSchema
  <2>1. /\ job.pc = "finished" /\ session # 0
        /\ job'.pc = "schema" /\ job'.segs = job.segs
        /\ job'.seg = job.seg /\ job'.schema = job.schema + 1
    BY <1>9, <1>b DEF WriteSchema
  <2>2. job'.schema \in Gen
    BY <2>1, Numbers DEF TypeOK, Counted
  <2>3. /\ <<"data", job.seg>> \in File /\ <<"meta", job.seg>> \in File
        /\ <<"schema", job.schema + 1>> \in File
    BY <1>b, <2>1, <2>2 DEF File
  <2>4. /\ disk'[<<"schema", job.schema + 1>>] # 0
        /\ disk'[<<"meta", job.seg>>] = disk[<<"meta", job.seg>>]
        /\ disk'[<<"data", job.seg>>] = disk[<<"data", job.seg>>]
    BY <1>9, <1>b, <2>1, <2>3 DEF WriteSchema
  <2> QED
    BY <1>b, <2>1, <2>4 DEF Ready
<1>10. CASE Consolidate
  BY <1>10, <1>b DEF Consolidate, Ready
<1>11. CASE WriteTemp
  <2>1. PICK g \in Stamp :
           /\ IsLatest(g)
           /\ temps' = [temps EXCEPT ![g + 1] = [segs |-> job.segs, schema |-> job.schema]]
           /\ job' = [job EXCEPT !.pc = "prepared", !.gen = g + 1]
    BY <1>11 DEF WriteTemp, Stamp
  <2>2. g = Newest /\ job'.pc = "prepared" /\ job'.gen = g + 1
    BY <1>b, <2>1, NewestIs
  <2>3. g + 1 \in Gen
    BY <2>2, Numbers DEF TypeOK, Counted
  <2>4. temps'[g + 1] = [segs |-> job.segs, schema |-> job.schema]
    BY <1>b, <2>1, <2>3
  <2>5. UNCHANGED disk /\ job.pc = "consolidated"
    BY <1>11 DEF WriteTemp
  <2> QED
    BY <1>b, <2>1, <2>2, <2>4, <2>5 DEF Ready
<1>12. CASE Rename \/ End
  <2>1. CASE Rename
    <3>1. job'.pc = "committed"
      BY <1>b, <2>1 DEF Rename
    <3> QED
      BY <3>1
  <2>2. CASE End
    BY <2>2 DEF End, NoJob
  <2> QED
    BY <1>12, <2>1, <2>2
<1>13. ASSUME NEW p \in Process, Die(p) PROVE Goal
  BY <1>0, <1>13 DEF Die, NoJob, storage
<1>14. CASE ReaderStep \/ UNCHANGED vars
  BY <1>0, <1>14, Frames DEF vars, storage
<1> QED
  BY <1>1, <1>2, <1>3, <1>4, <1>5, <1>6, <1>7, <1>8, <1>9, <1>10, <1>11, <1>12, <1>13, <1>14
     DEF Next, IndexerStep, ReaderStep

-----------------------------------------------------------------------------
(* Purging, and the locks                                                   *)

\* What a step of one reader leaves alone.
LEMMA OneReader ==
  ASSUME TypeOK, NEW r \in Reader, Open(r) \/ OpenStep(r) \/ Close(r)
  PROVE  /\ \A q \in Reader \ {r} : rd'[q] = rd[q]
         /\ \A q \in Reader \ {r}, g \in Gen :
               q \in readLocks[g] \ dead => q \in readLocks'[g]
         /\ r \notin Locking => commitLock' = commitLock
<1> USE DEF TypeOK
<1>1. CASE Open(r)
  BY <1>1 DEF Open, locks
<1>2. CASE Close(r)
  BY <1>2 DEF Close, ReleaseRead
<1>3. CASE Pick(r)
  BY <1>3 DEF Pick, ReleaseCommit
<1>4. CASE ReadLock(r)
  BY <1>4 DEF ReadLock
<1>5. ASSUME Fail(r)
      PROVE  /\ \A q \in Reader \ {r} : rd'[q] = rd[q]
             /\ \A q \in Reader \ {r}, g \in Gen : q \in readLocks[g] => q \in readLocks'[g]
             /\ r \notin Locking => commitLock' = commitLock
  <2>1. CASE rd[r].lastGen < rd[r].gen
    BY <1>5, <2>1 DEF Fail, ReleaseRead
  <2>2. CASE ~(rd[r].lastGen < rd[r].gen)
    BY <1>5, <2>2 DEF Fail, ReleaseRead, ReleaseCommit
  <2> QED
    BY <2>1, <2>2
<1>6. CASE ReadSnapshot(r)
  <2>1. CASE rd[r].gen \in OnDisk
    BY <1>6, <2>1 DEF ReadSnapshot
  <2>2. CASE rd[r].gen \notin OnDisk
    BY <1>5, <1>6, <2>2 DEF ReadSnapshot
  <2> QED
    BY <2>1, <2>2
<1>7. CASE OpenElement(r) \/ DataMissing(r)
  <2>1. PICK f : Take(r, f)
    BY <1>7 DEF OpenElement, DataMissing
  <2> QED
    BY <2>1 DEF Take
<1>8. CASE ElementMissing(r)
  BY <1>5, <1>8 DEF ElementMissing
<1>9. CASE Opened(r)
  BY <1>9 DEF Opened, ReleaseCommit
<1> QED
  BY <1>1, <1>2, <1>3, <1>4, <1>6, <1>7, <1>8, <1>9 DEF OpenStep

\* While an Indexer has the commit lock, no reader with a LockFactory starts
\* to open or goes on opening.
LEMMA ReadersWait ==
  ASSUME IndexInv, ReaderStep, commitLock \in Indexer \ dead
  PROVE  /\ commitLock' = commitLock
         /\ \A q \in Locking : rd'[q] = rd[q] \/ rd'[q] = Closed
<1>1. PICK r \in Reader : Open(r) \/ OpenStep(r) \/ Close(r)
  BY DEF ReaderStep
<1>2. \A q \in Reader \ {r} : rd'[q] = rd[q]
  BY <1>1, OneReader DEF IndexInv
<1>3. CASE r \in Locking
  <2>1. commitLock # r /\ ~Free(commitLock)
    BY IndexAssumption DEF Free, Process
  <2>2. ~Open(r)
    BY <1>3, <2>1 DEF Open
  <2>3. ~OpenStep(r)
    <3>1. rd[r].pc \notin {"pick", "lock", "read", "elements"}
      BY <1>3, <2>1 DEF IndexInv, Guarded
    <3> QED
      BY <3>1 DEF OpenStep, Pick, ReadLock, ReadSnapshot, OpenElement, ElementMissing,
                  DataMissing, Opened
  <2>4. Close(r)
    BY <1>1, <2>2, <2>3
  <2> QED
    BY <1>2, <2>4, IndexAssumption DEF Close, IndexInv, TypeOK
<1>4. CASE r \notin Locking
  BY <1>1, <1>2, <1>4, OneReader, IndexAssumption DEF IndexInv
<1> QED
  BY <1>3, <1>4

LEMMA InPurgables ==
  ASSUME NEW f
  PROVE  f \in Purgables <=> /\ \E g \in Unlocked : f \in Entries(snapshots[g])
                             /\ \A g \in Spared : f \notin Entries(SnapOf(g))
<1> DEFINE gone == UNION {Entries(snapshots[g]) : g \in Unlocked}
           kept == UNION {Entries(SnapOf(g)) : g \in Spared}
<1>1. f \in gone <=> \E g \in Unlocked : f \in Entries(snapshots[g])
  BY Zenon
<1>2. f \in kept <=> \E g \in Spared : f \in Entries(SnapOf(g))
  BY Zenon
<1>3. Purgables = gone \ kept
  BY DEF Purgables
<1> HIDE DEF gone, kept
<1> QED
  BY <1>1, <1>2, <1>3

LEMMA PurgeSafeStep ==
  ASSUME IndexInv, [Next]_vars, TypeOK'
  PROVE  PurgeSafe'
<1> SUFFICES ASSUME job'.pc \in Purging PROVE PurgeSafe'
  BY DEF PurgeSafe
<1> USE DEF Purging, JobState
<1>a. /\ job \in JobState /\ disk \in [File -> Stamp] /\ snapshots \in [Gen -> Snap \cup {NoSnap}]
      /\ rd \in [Reader -> ReaderState] /\ Locking \subseteq Reader
  BY IndexAssumption DEF IndexInv, TypeOK, Contents
<1>b. job.pc \in Purging =>
         /\ commitLock = writer /\ writer \in Indexer \ dead
         /\ job.snaps \subseteq OnDisk \ {job.current}
         /\ job.current = Newest
  BY DEF IndexInv, PurgeSafe, Serial
<1>c. job.pc \in Purging =>
         /\ job.todo \cap Entries(SnapOf(job.current)) = {}
         /\ \A r \in Locking : rd[r].pc = "open" =>
               rd[r].gen \notin job.snaps /\ job.todo \cap Entries(snapshots[rd[r].gen]) = {}
         /\ ~job.failed =>
               \A g \in job.snaps : \A f \in Entries(snapshots[g]) :
                  \/ disk[f] = 0 \/ f \in job.todo
                  \/ \E h \in OnDisk \ job.snaps : f \in Entries(snapshots[h])
  BY DEF IndexInv, PurgeSafe
<1>1. CASE PurgeBegin
  <2>1. /\ job' = [job EXCEPT !.pc = IF @ = "purge" THEN "purging" ELSE "cleaning",
                             !.todo = Purgables, !.snaps = Unlocked, !.failed = FALSE]
        /\ commitLock' = writer /\ writer' = writer
        /\ UNCHANGED <<snapshots, disk, rd>>
        /\ job.pc \in {"purge", "committed"}
    BY <1>1 DEF PurgeBegin, storage
  <2>2. job'.todo = Purgables /\ job'.snaps = Unlocked /\ job'.current = job.current
    BY <1>a, <2>1
  <2>3. Unlocked \subseteq OnDisk \ {job.current} /\ job.current \in Spared
    BY DEF Unlocked, Spared
  <2>4. Purgables \cap Entries(SnapOf(job.current)) = {}
    BY <2>3, InPurgables
  <2>5. ASSUME NEW r \in Locking, rd[r].pc = "open"
        PROVE  rd[r].gen \notin Unlocked /\ Purgables \cap Entries(snapshots[rd[r].gen]) = {}
    <3>1. rd[r].gen \in OnDisk /\ r \in readLocks[rd[r].gen]
      BY <2>5 DEF IndexInv, Guarded
    <3>2. rd[r].gen \in Spared /\ rd[r].gen \notin Unlocked
      BY <3>1 DEF Unlocked, Spared
    <3>3. SnapOf(rd[r].gen) = snapshots[rd[r].gen]
      BY <3>1, Numbers DEF SnapOf, OnDisk
    <3> QED
      BY <3>2, <3>3, InPurgables
  <2>6. ASSUME NEW g \in Unlocked, NEW f \in Entries(snapshots[g]), f \notin Purgables
        PROVE  \E h \in OnDisk \ Unlocked : f \in Entries(snapshots[h])
    <3>1. PICK h \in Spared : f \in Entries(SnapOf(h))
      BY <2>6, InPurgables
    <3>2. h # 0
      BY <3>1 DEF SnapOf, Entries, NoSnap
    <3>3. h \in OnDisk
      <4>1. job.current = Newest
        BY <2>1 DEF IndexInv, Serial
      <4> QED
        BY <3>1, <3>2, <4>1, NewestIsLatest DEF Spared, IndexInv
    <3> QED
      BY <3>1, <3>2, <3>3 DEF Spared, SnapOf
  <2>7. OnDisk' = OnDisk /\ SnapOf(job.current)' = SnapOf(job.current)
    BY <2>1, <2>2 DEF OnDisk, SnapOf
  <2> QED
    BY <2>1, <2>2, <2>3, <2>4, <2>5, <2>6, <2>7 DEF PurgeSafe
<1>2. CASE Purge
  <2>1. PICK f \in job.todo :
           /\ disk' = [disk EXCEPT ![f] = 0]
           /\ job' = [job EXCEPT !.todo = @ \ {f}]
    BY <1>2 DEF Purge
  <2>2. /\ job.pc \in Purging /\ UNCHANGED <<snapshots, commitLock, writer, rd>>
        /\ f \in File
    BY <1>2, <1>a, <2>1 DEF Purge, locks
  <2>3. /\ job'.todo = job.todo \ {f} /\ job'.snaps = job.snaps
        /\ job'.current = job.current /\ job'.failed = job.failed
    BY <1>a, <2>1
  <2>4. \A h \in File : disk'[h] = disk[h] \/ (h = f /\ disk'[h] = 0)
    BY <1>a, <2>1
  <2>5. OnDisk' = OnDisk /\ SnapOf(job.current)' = SnapOf(job.current)
    BY <2>2, <2>3 DEF OnDisk, SnapOf
  <2>6. \A g \in Gen : Entries(snapshots[g]) \subseteq File
    BY <1>a, EntriesAreFiles
  <2>7. \A g \in job.snaps : g \in Gen
    BY <1>a
  <2>8. ASSUME ~job.failed, NEW g \in job.snaps, NEW h \in Entries(snapshots[g])
        PROVE  \/ disk'[h] = 0 \/ h \in job'.todo
               \/ \E k \in OnDisk \ job.snaps : h \in Entries(snapshots[k])
    <3>1. h \in File
      BY <2>6, <2>7
    <3>2. \/ disk[h] = 0 \/ h \in job.todo
          \/ \E k \in OnDisk \ job.snaps : h \in Entries(snapshots[k])
      BY <1>c, <2>2, <2>8
    <3>3. CASE h = f
      BY <1>a, <2>1, <3>1, <3>3
    <3>4. CASE h # f
      BY <2>3, <2>4, <3>1, <3>2, <3>4
    <3> QED
      BY <3>3, <3>4
  <2> QED
    BY <1>b, <1>c, <2>2, <2>3, <2>5, <2>8 DEF PurgeSafe
<1>3. CASE PurgeFails
  <2>1. PICK f \in job.todo : job' = [job EXCEPT !.todo = @ \ {f}, !.failed = TRUE]
    BY <1>3 DEF PurgeFails
  <2>2. job.pc \in Purging /\ UNCHANGED <<snapshots, commitLock, writer, rd, disk>>
    BY <1>3 DEF PurgeFails, storage, locks
  <2>3. /\ job'.todo = job.todo \ {f} /\ job'.snaps = job.snaps
        /\ job'.current = job.current /\ job'.failed
    BY <1>a, <2>1
  <2>4. OnDisk' = OnDisk /\ SnapOf(job.current)' = SnapOf(job.current)
    BY <2>2, <2>3 DEF OnDisk, SnapOf
  <2> QED
    BY <1>b, <1>c, <2>2, <2>3, <2>4 DEF PurgeSafe
<1>4. CASE PurgeSnapshot
  <2>1. PICK g \in job.snaps :
           /\ snapshots' = [snapshots EXCEPT ![g] = NoSnap]
           /\ job' = [job EXCEPT !.snaps = @ \ {g}]
    BY <1>4 DEF PurgeSnapshot
  <2>2. job.pc \in Purging /\ UNCHANGED <<commitLock, writer, rd, disk>>
    BY <1>4 DEF PurgeSnapshot, locks
  <2>3. /\ job'.todo = job.todo /\ job'.snaps = job.snaps \ {g}
        /\ job'.current = job.current /\ job'.failed = job.failed
    BY <1>a, <2>1
  <2>4. /\ OnDisk' = OnDisk \ {g} /\ g \in OnDisk /\ g # job.current
        /\ \A h \in Gen \ {g} : snapshots'[h] = snapshots[h]
    BY <1>a, <1>b, <2>1, <2>2 DEF OnDisk
  <2>5. SnapOf(job.current)' = SnapOf(job.current)
    BY <1>a, <2>3, <2>4, Numbers DEF SnapOf
  <2>6. \A r \in Locking : rd[r].pc = "open" =>
           rd[r].gen # g /\ snapshots'[rd[r].gen] = snapshots[rd[r].gen]
    <3>1. \A r \in Locking : rd[r].pc = "open" => rd[r].gen \in Gen
      BY DEF IndexInv, Guarded, OnDisk
    <3> QED
      BY <1>c, <2>2, <2>4, <3>1
  <2>7. \A h \in job.snaps \ {g} : snapshots'[h] = snapshots[h]
    BY <1>a, <2>4
  <2>8. \A h \in OnDisk \ job.snaps :
           h \in OnDisk' \ (job.snaps \ {g}) /\ snapshots'[h] = snapshots[h]
    BY <2>4 DEF OnDisk
  <2> QED
    BY <1>b, <1>c, <2>2, <2>3, <2>4, <2>5, <2>6, <2>7, <2>8 DEF PurgeSafe
<1>5. ASSUME UNCHANGED <<storage, job, commitLock, writer>>,
             \A q \in Locking : rd'[q] = rd[q] \/ rd'[q] = Closed
      PROVE  PurgeSafe'
  <2>1. \A q \in Locking : rd'[q].pc = "open" => rd'[q] = rd[q]
    BY <1>5 DEF Closed
  <2> QED
    BY <1>5, <1>b, <1>c, <2>1 DEF PurgeSafe, OnDisk, SnapOf, storage
<1>6. CASE ReaderStep
  <2>1. UNCHANGED <<storage, writer, dead, job>>
    BY <1>6, Frames
  <2>2. commitLock \in Indexer \ dead
    BY <1>b, <2>1
  <2> QED
    BY <1>5, <1>6, <2>1, <2>2, ReadersWait
<1>7. ASSUME NEW p \in Process, Die(p) PROVE PurgeSafe'
  <2>1. job' = job /\ UNCHANGED <<storage, locks>>
    BY <1>7 DEF Die, NoJob
  <2>2. \A q \in Locking : rd'[q] = rd[q] \/ rd'[q] = Closed
    BY <1>7, <1>a DEF Die
  <2> QED
    BY <1>5, <2>1, <2>2 DEF locks
<1>8. CASE UNCHANGED vars
  BY <1>5, <1>8 DEF vars, locks
<1>9. ASSUME NEW p \in Indexer, NEW truncate \in BOOLEAN, Begin(p, truncate)
      PROVE  FALSE
  BY <1>9 DEF Begin, NoJob
<1>10. ~(PrepSegDir \/ PurgeSkip \/ PurgeEnd \/ AddDocs)
  <2>1. ~PrepSegDir
    BY <1>a DEF PrepSegDir, NoJob
  <2> QED
    BY <1>a, <2>1 DEF PurgeSkip, PurgeEnd, AfterPurge, AddDocs
<1>11. ~(MergeSegment \/ FinishSegment \/ WriteSchema \/ Consolidate)
  BY <1>a DEF MergeSegment, FinishSegment, WriteSchema, Consolidate
<1>12. ~(WriteTemp \/ Rename \/ End)
  <2>1. ~End
    BY DEF End, NoJob
  <2> QED
    BY <1>a, <2>1 DEF WriteTemp, Rename
<1> QED
  BY <1>1, <1>2, <1>3, <1>4, <1>6, <1>7, <1>8, <1>9, <1>10, <1>11, <1>12
     DEF Next, IndexerStep, ReaderStep

-----------------------------------------------------------------------------
(* The readers                                                              *)

\* What a reader cannot open belongs to a snapshot that has been superseded,
\* and one newer than the last it failed with: it tries again.
LEMMA FailRetries ==
  ASSUME IndexInv, NEW r \in Reader,
         (ReadSnapshot(r) /\ rd[r].gen \notin OnDisk) \/ ElementMissing(r)
  PROVE  /\ rd[r].gen < Newest
         /\ rd'[r] = [Closed EXCEPT !.pc = "pick", !.lastGen = rd[r].gen]
         /\ commitLock' = commitLock
<1>a. /\ rd \in [Reader -> ReaderState] /\ ReadsOne(r) /\ rd[r].pc \in {"read", "elements"}
      /\ Fail(r)
  BY DEF IndexInv, TypeOK, ReadSnapshot, ElementMissing
<1>b. /\ rd[r].gen # 0 /\ rd[r].gen <= Newest /\ rd[r].lastGen < rd[r].gen
      /\ rd[r].gen \in Gen
  BY <1>a, Numbers DEF ReadsOne, ReaderState
<1>c. /\ Newest \in Stamp /\ (Newest # 0 => Newest \in OnDisk /\ Newest \in Gen)
  BY NewestIsLatest, Numbers DEF IndexInv
<1>1. rd[r].gen # Newest
  <2>1. CASE rd[r].gen \notin OnDisk
    BY <1>b, <1>c, <2>1
  <2>2. CASE ElementMissing(r)
    <3>1. PICK f \in rd[r].todo : disk[f] = 0
      BY <2>2 DEF ElementMissing
    <3>2. f \in File /\ published[rd[r].gen][f] # 0
      BY <1>a, <2>2, <3>1 DEF ReadsOne, ReaderState, ElementMissing
    <3>3. ~(Newest # 0 /\ f \in Entries(snapshots[Newest]))
      BY <3>1 DEF IndexInv, NewestWhole, Whole
    <3> QED
      BY <1>b, <1>c, <3>2, <3>3 DEF IndexInv, History
  <2> QED
    BY <2>1, <2>2
<1> QED
  BY <1>a, <1>b, <1>c, <1>1, Numbers DEF Fail

\* A step of another process: the commit that a reader looks at is as it was.
LEMMA ReadsOneKept ==
  ASSUME IndexInv, [Next]_vars, NEW r \in Reader, rd'[r] = rd[r], r \in dead' => r \in dead
  PROVE  ReadsOne(r)'
<1>1. ReadsOne(r) /\ rd \in [Reader -> ReaderState] /\ Newest \in Nat
  BY NewestIsLatest, Numbers DEF IndexInv, TypeOK
<1>2. rd[r].gen \in Nat /\ rd[r].lastGen \in Nat
  BY <1>1, Numbers DEF ReaderState
<1>3. CASE OtherStep
  BY <1>1, <1>3 DEF OtherStep, ReadsOne
<1>4. CASE RenameStep
  <2>1. Newest' = Newest + 1
    BY <1>4 DEF RenameStep
  <2>2. rd[r].gen # 0 /\ rd[r].gen <= Newest => published'[rd[r].gen] = published[rd[r].gen]
    BY <1>1, <1>4, Numbers DEF RenameStep, ReaderState
  <2> QED
    BY <1>1, <1>2, <2>1, <2>2 DEF ReadsOne
<1> QED
  BY <1>3, <1>4, SnapshotsStep

LEMMA ReadsOneOwn ==
  ASSUME IndexInv, [Next]_vars, NEW r \in Reader, Open(r) \/ OpenStep(r) \/ Close(r)
  PROVE  ReadsOne(r)'
<1>a. /\ ReadsOne(r) /\ rd \in [Reader -> ReaderState] /\ Newest \in Nat
      /\ UNCHANGED <<storage, dead, job>>
  BY NewestIsLatest, Numbers, Frames DEF IndexInv, TypeOK, ReaderStep
<1>b. r \notin dead /\ Newest' = Newest /\ published' = published
  BY <1>a, SnapshotsStep DEF Open, OpenStep, Close, Pick, ReadLock, ReadSnapshot, OpenElement,
     ElementMissing, DataMissing, Opened, RenameStep, OtherStep
<1>1. ASSUME rd'[r] = Closed PROVE ReadsOne(r)'
  BY <1>1 DEF ReadsOne, Closed
<1>2. CASE Open(r)
  <2>1. rd'[r] = [Closed EXCEPT !.pc = "pick"]
    BY <1>2, <1>a DEF Open
  <2> QED
    BY <1>a, <1>b, <2>1 DEF ReadsOne, Closed
<1>3. CASE Pick(r)
  <2>1. PICK g \in Stamp :
           /\ IsLatest(g)
           /\ IF g = 0 THEN rd' = [rd EXCEPT ![r] = Closed]
                       ELSE rd' = [rd EXCEPT ![r].gen = g,
                                      ![r].pc = IF r \in Locking THEN "lock" ELSE "read"]
    BY <1>3 DEF Pick, Stamp
  <2>2. g = Newest
    BY <2>1, NewestIs
  <2>3. CASE g = 0
    BY <1>1, <1>a, <2>1, <2>3
  <2>4. CASE g # 0
    <3>1. /\ rd'[r].gen = Newest /\ rd'[r].pc \in {"lock", "read"}
          /\ rd'[r].lastGen = rd[r].lastGen /\ rd'[r].view = rd[r].view
      BY <1>a, <2>1, <2>2, <2>4 DEF ReaderState
    <3> QED
      BY <1>a, <1>b, <1>3, <2>2, <2>4, <3>1 DEF ReadsOne, Pick
  <2> QED
    BY <2>3, <2>4
<1>4. CASE ReadLock(r)
  <2>1. rd'[r] = [rd[r] EXCEPT !.pc = "read"]
    BY <1>4, <1>a DEF ReadLock
  <2> QED
    BY <1>4, <1>a, <1>b, <2>1 DEF ReadsOne, ReaderState, ReadLock
<1>5. ASSUME (ReadSnapshot(r) /\ rd[r].gen \notin OnDisk) \/ ElementMissing(r)
      PROVE  ReadsOne(r)'
  <2>1. /\ rd'[r].pc = "pick" /\ rd'[r].lastGen = rd[r].gen /\ rd'[r].view = Nothing
        /\ rd[r].gen < Newest
    BY <1>5, FailRetries DEF Closed
  <2> QED
    BY <1>a, <1>b, <2>1 DEF ReadsOne
<1>6. CASE ReadSnapshot(r) /\ rd[r].gen \in OnDisk
  <2>1. rd'[r] = [rd[r] EXCEPT !.pc = "elements", !.todo = Entries(snapshots[rd[r].gen])]
    BY <1>6, <1>a DEF ReadSnapshot
  <2>2. rd[r].gen \in Gen /\ snapshots[rd[r].gen] \in Snap \cup {NoSnap}
    BY <1>6 DEF OnDisk, IndexInv, TypeOK
  <2>3. \A f \in Entries(snapshots[rd[r].gen]) : published[rd[r].gen][f] # 0
    BY <1>6, <2>2, EntriesAreFiles DEF IndexInv, History
  <2>4. rd[r].view = Nothing
    BY <1>6, <1>a DEF ReadsOne, ReadSnapshot
  <2> QED
    BY <1>6, <1>a, <1>b, <2>1, <2>3, <2>4 DEF ReadsOne, ReaderState, ReadSnapshot, Nothing
<1>7. CASE OpenElement(r) \/ DataMissing(r)
  <2>1. PICK f \in rd[r].todo :
           rd' = [rd EXCEPT ![r].todo = @ \ {f}, ![r].view[f] = disk[f]]
    BY <1>7 DEF OpenElement, DataMissing, Take
  <2>2. rd[r].pc = "elements" /\ f \in File /\ rd[r].view \in [File -> Stamp] /\ rd[r].gen \in Gen
    BY <1>7, <1>a, Numbers DEF OpenElement, DataMissing, ReaderState, ReadsOne, Contents
  <2>3. disk[f] \in {0, published[rd[r].gen][f]}
    BY <1>a, <2>2 DEF ReadsOne, IndexInv, History
  <2>4. rd'[r] = [rd[r] EXCEPT !.todo = @ \ {f}, !.view = [@ EXCEPT ![f] = disk[f]]]
    BY <1>a, <2>1
  <2>5. /\ rd'[r].pc = "elements" /\ rd'[r].gen = rd[r].gen /\ rd'[r].lastGen = rd[r].lastGen
        /\ rd'[r].todo \subseteq rd[r].todo /\ rd'[r].view = [rd[r].view EXCEPT ![f] = disk[f]]
    BY <1>a, <2>2, <2>4 DEF ReaderState
  <2> QED
    BY <1>a, <1>b, <2>2, <2>3, <2>5 DEF ReadsOne
<1>8. CASE Opened(r)
  <2>1. rd'[r] = [rd[r] EXCEPT !.pc = "open"]
    BY <1>8, <1>a DEF Opened
  <2> QED
    BY <1>8, <1>a, <1>b, <2>1 DEF ReadsOne, ReaderState, Opened
<1>9. CASE Close(r)
  BY <1>1, <1>9, <1>a DEF Close
<1> QED
  BY <1>2, <1>3, <1>4, <1>5, <1>6, <1>7, <1>8, <1>9 DEF OpenStep

LEMMA ReadsOneStep ==
  ASSUME IndexInv, [Next]_vars
  PROVE  \A r \in Reader : ReadsOne(r)'
<1> SUFFICES ASSUME NEW r \in Reader PROVE ReadsOne(r)'
  OBVIOUS
<1>1. CASE ReaderStep
  <2>1. PICK q \in Reader : Open(q) \/ OpenStep(q) \/ Close(q)
    BY <1>1 DEF ReaderStep
  <2>2. CASE q = r
    BY <2>1, <2>2, ReadsOneOwn
  <2>3. CASE q # r
    BY <1>1, <2>1, <2>3, OneReader, ReadsOneKept, Frames DEF IndexInv
  <2> QED
    BY <2>2, <2>3
<1>2. ASSUME NEW p \in Process, Die(p) PROVE ReadsOne(r)'
  <2>1. CASE r = p
    <3>1. rd'[r] = Closed
      BY <1>2, <2>1 DEF Die, IndexInv, TypeOK
    <3> QED
      BY <3>1 DEF ReadsOne, Closed
  <2>2. CASE r # p
    <3>1. rd'[r] = rd[r] /\ (r \in dead' => r \in dead)
      BY <1>2, <2>2 DEF Die, IndexInv, TypeOK
    <3> QED
      BY <3>1, ReadsOneKept
  <2> QED
    BY <2>1, <2>2
<1> QED
  BY <1>1, <1>2, Frames, ReadsOneKept

\* Nobody takes the commit lock from a reader that is opening, and nobody but
\* the reader itself gives up a read lock.
LEMMA LocksKept ==
  ASSUME IndexInv, [Next]_vars, NEW r \in Locking, rd[r].pc # "closed",
         \A q \in Reader : Open(q) \/ OpenStep(q) \/ Close(q) => q # r
  PROVE  /\ rd[r].pc \in {"pick", "lock", "read", "elements"} => commitLock' = r
         /\ \A g \in Gen : r \in readLocks[g] => r \in readLocks'[g]
<1>a. /\ r \in Reader /\ r \notin dead /\ r \notin Indexer /\ r # Nobody
      /\ \A q \in Locking : rd[q].pc \in {"pick", "lock", "read", "elements"} => commitLock = q
  BY IndexAssumption DEF IndexInv, ReadsOne, Guarded, Closed, Process
<1>1. CASE ReaderStep
  <2>1. PICK q \in Reader : (Open(q) \/ OpenStep(q) \/ Close(q)) /\ q # r
    BY <1>1 DEF ReaderStep
  <2>2. \A g \in Gen : r \in readLocks[g] => r \in readLocks'[g]
    BY <1>a, <2>1, OneReader DEF IndexInv
  <2>3. ASSUME commitLock = r PROVE commitLock' = r
    <3>1. CASE q \notin Locking
      BY <2>1, <2>3, <3>1, OneReader DEF IndexInv
    <3>2. CASE q \in Locking
      <4>1. rd[q].pc \notin {"pick", "lock", "read", "elements"}
        BY <1>a, <2>1, <2>3, <3>2
      <4>2. ~Open(q)
        BY <1>a, <2>3, <3>2 DEF Open, Free
      <4>3. ~OpenStep(q)
        BY <4>1 DEF OpenStep, Pick, ReadLock, ReadSnapshot, OpenElement, ElementMissing,
                    DataMissing, Opened
      <4> QED
        BY <2>1, <2>3, <4>2, <4>3 DEF Close
    <3> QED
      BY <3>1, <3>2
  <2> QED
    BY <1>a, <2>2, <2>3
<1>2. CASE PurgeBegin
  BY <1>2, <1>a DEF PurgeBegin, Free
<1>3. CASE PurgeEnd
  <2>1. commitLock \in Indexer
    BY <1>3 DEF PurgeEnd, IndexInv, PurgeSafe, Purging, Serial
  <2> QED
    BY <1>3, <1>a, <2>1 DEF PurgeEnd
<1>4. ASSUME UNCHANGED <<commitLock, readLocks>>
      PROVE  /\ rd[r].pc \in {"pick", "lock", "read", "elements"} => commitLock' = r
             /\ \A g \in Gen : r \in readLocks[g] => r \in readLocks'[g]
  BY <1>4, <1>a
<1>5. ASSUME IndexerStep, ~PurgeBegin, ~PurgeEnd PROVE UNCHANGED <<commitLock, readLocks>>
  <2> USE DEF locks
  <2>1. CASE PrepSegDir \/ PurgeSkip \/ Purge \/ PurgeFails \/ PurgeSnapshot
    BY <2>1 DEF PrepSegDir, PurgeSkip, Purge, PurgeFails, PurgeSnapshot
  <2>2. CASE AddDocs \/ MergeSegment \/ FinishSegment \/ WriteSchema
    BY <2>2 DEF AddDocs, MergeSegment, FinishSegment, WriteSchema
  <2>3. CASE Consolidate \/ WriteTemp \/ Rename \/ End
    BY <2>3 DEF Consolidate, WriteTemp, Rename, End
  <2> QED
    BY <1>5, <2>1, <2>2, <2>3 DEF IndexerStep
<1>6. ASSUME NEW p \in Indexer, NEW truncate \in BOOLEAN, Begin(p, truncate)
      PROVE  UNCHANGED <<commitLock, readLocks>>
  BY <1>6 DEF Begin
<1>7. ASSUME NEW p \in Process, Die(p) PROVE UNCHANGED <<commitLock, readLocks>>
  BY <1>7 DEF Die, locks
<1>8. CASE UNCHANGED vars
  BY <1>4, <1>8 DEF vars, locks
<1> QED
  BY <1>1, <1>2, <1>3, <1>4, <1>5, <1>6, <1>7, <1>8 DEF Next, ReaderStep

\* A snapshot that a reader has under either lock is not purged.
LEMMA WholeKept ==
  ASSUME IndexInv, [Next]_vars, NEW r \in Locking,
         rd[r].pc \in {"lock", "read", "elements", "open"}
  PROVE  /\ rd[r].gen \in OnDisk' /\ Whole(rd[r].gen)
         /\ snapshots'[rd[r].gen] = snapshots[rd[r].gen]
         /\ published'[rd[r].gen] = published[rd[r].gen]
         /\ \A f \in Entries(snapshots[rd[r].gen]) : disk'[f] # 0
<1> DEFINE g == rd[r].gen
<1>a. /\ g \in OnDisk /\ g \in Gen /\ Whole(g) /\ g <= Newest /\ Newest \in Nat /\ g \in Nat
      /\ snapshots[g] \in Snap \cup {NoSnap}
  BY NewestIsLatest, Numbers, IndexAssumption
     DEF IndexInv, Guarded, ReadsOne, OnDisk, TypeOK
<1>b. job.pc \in Purging => rd[r].pc = "open"
  BY IndexAssumption DEF IndexInv, PurgeSafe, Guarded, Serial, Purging
<1>c. job.pc \in Purging => g \notin job.snaps /\ job.todo \cap Entries(snapshots[g]) = {}
  BY <1>b DEF IndexInv, PurgeSafe
<1> HIDE DEF g
<1>1. /\ g \in OnDisk'
      /\ snapshots'[g] = snapshots[g] /\ published'[g] = published[g]
  <2>1. CASE RenameStep
    BY <1>a, <2>1 DEF RenameStep
  <2>2. CASE OtherStep /\ UNCHANGED snapshots
    BY <1>a, <2>2 DEF OtherStep, OnDisk
  <2>3. CASE OtherStep /\ PurgeSnapshot
    <3>1. PICK h \in job.snaps : snapshots' = [snapshots EXCEPT ![h] = NoSnap]
      BY <2>3 DEF PurgeSnapshot
    <3>2. h # g
      BY <1>c, <2>3, <3>1 DEF PurgeSnapshot, Purging
    <3>3. snapshots'[g] = snapshots[g]
      BY <1>a, <3>1, <3>2 DEF IndexInv, TypeOK
    <3> QED
      BY <1>a, <2>3, <3>3 DEF OtherStep, OnDisk
  <2> QED
    BY <2>1, <2>2, <2>3, SnapshotsStep
<1>2. ASSUME NEW f \in Entries(snapshots[g]) PROVE disk'[f] # 0
  <2>1. f \in File /\ disk[f] # 0
    BY <1>a, EntriesAreFiles DEF Whole
  <2>2. published[g][f] # 0
    BY <1>a, <2>1 DEF IndexInv, History
  <2>3. ~(Purge /\ f \in job.todo)
    BY <1>c DEF Purge, Purging
  <2> QED
    BY <1>a, <2>1, <2>2, <2>3, CommittedStep
<1> QED
  BY <1>a, <1>1, <1>2 DEF g

LEMMA GuardedKept ==
  ASSUME IndexInv, [Next]_vars, NEW r \in Locking, rd'[r] = rd[r],
         \A q \in Reader : Open(q) \/ OpenStep(q) \/ Close(q) => q # r
  PROVE  Guarded(r)'
<1>a. Guarded(r) /\ rd \in [Reader -> ReaderState] /\ r \in Reader
  BY IndexAssumption DEF IndexInv, TypeOK
<1>1. CASE rd[r].pc \in {"lock", "read", "elements", "open"}
  <2>1. /\ rd[r].gen \in OnDisk' /\ snapshots'[rd[r].gen] = snapshots[rd[r].gen]
        /\ published'[rd[r].gen] = published[rd[r].gen]
        /\ \A f \in Entries(snapshots[rd[r].gen]) : disk'[f] # 0
    BY <1>1, WholeKept
  <2>2. rd[r].gen \in Gen
    BY <1>1, <1>a DEF Guarded, OnDisk
  <2>3. /\ rd[r].pc \in {"pick", "lock", "read", "elements"} => commitLock' = r
        /\ r \in readLocks[rd[r].gen] => r \in readLocks'[rd[r].gen]
    BY <1>1, <2>2, LocksKept
  <2> QED
    BY <1>a, <1>1, <2>1, <2>3 DEF Guarded, Whole
<1>2. CASE rd[r].pc = "pick"
  BY <1>2, <1>a, LocksKept DEF Guarded
<1>3. CASE rd[r].pc = "closed"
  BY <1>3 DEF Guarded
<1> QED
  BY <1>a, <1>1, <1>2, <1>3 DEF ReaderState, ReaderPC

LEMMA GuardedOwn ==
  ASSUME IndexInv, [Next]_vars, NEW r \in Locking, Open(r) \/ OpenStep(r) \/ Close(r)
  PROVE  Guarded(r)'
<1>a. /\ Guarded(r) /\ ReadsOne(r) /\ rd \in [Reader -> ReaderState] /\ r \in Reader
      /\ UNCHANGED <<snapshots, disk, published>> /\ OnDisk' = OnDisk
      /\ readLocks \in [Gen -> SUBSET Reader]
  BY IndexAssumption, Frames DEF IndexInv, TypeOK, ReaderStep, storage, OnDisk
<1>b. rd[r].pc \in {"lock", "read", "elements", "open"} =>
         /\ rd[r].gen \in OnDisk /\ Whole(rd[r].gen) /\ rd[r].gen \in Gen
         /\ snapshots[rd[r].gen] \in Snap \cup {NoSnap}
         /\ \A f \in File : published[rd[r].gen][f] # 0 <=> f \in Entries(snapshots[rd[r].gen])
         /\ \A f \in File : published[rd[r].gen][f] # 0 => disk[f] \in {0, published[rd[r].gen][f]}
  BY <1>a DEF Guarded, OnDisk, IndexInv, TypeOK, History
<1>1. ASSUME rd'[r] = Closed PROVE Guarded(r)'
  BY <1>1 DEF Guarded, Closed
<1>2. CASE Open(r)
  <2>1. rd'[r] = [Closed EXCEPT !.pc = "pick"] /\ commitLock' = r
    BY <1>2, <1>a DEF Open
  <2> QED
    BY <2>1 DEF Guarded, Closed
<1>3. CASE Pick(r)
  <2>1. PICK g \in Stamp :
           /\ IsLatest(g)
           /\ IF g = 0 THEN rd' = [rd EXCEPT ![r] = Closed]
                       ELSE /\ rd' = [rd EXCEPT ![r].gen = g,
                                        ![r].pc = IF r \in Locking THEN "lock" ELSE "read"]
                            /\ UNCHANGED commitLock
    BY <1>3 DEF Pick, Stamp
  <2>2. g = Newest
    BY <2>1, NewestIs
  <2>3. CASE g = 0
    BY <1>1, <1>a, <2>1, <2>3
  <2>4. CASE g # 0
    <3>1. rd'[r].gen = Newest /\ rd'[r].pc = "lock" /\ commitLock' = r
      BY <1>a, <1>3, <2>1, <2>2, <2>4 DEF ReaderState, Guarded, Pick
    <3>2. Newest \in OnDisk /\ Whole(Newest)
      BY <2>2, <2>4, NewestIsLatest DEF IndexInv, NewestWhole
    <3> QED
      BY <1>a, <3>1, <3>2 DEF Guarded, Whole
  <2> QED
    BY <2>3, <2>4
<1>4. CASE ReadLock(r)
  <2>1. /\ rd'[r] = [rd[r] EXCEPT !.pc = "read"] /\ rd[r].pc = "lock"
        /\ commitLock' = commitLock
    BY <1>4, <1>a DEF ReadLock
  <2>2. r \in readLocks'[rd[r].gen]
    BY <1>4, <1>a, <1>b, <2>1 DEF ReadLock
  <2>3. rd'[r].pc = "read" /\ rd'[r].gen = rd[r].gen
    BY <1>a, <2>1 DEF ReaderState
  <2> QED
    BY <1>a, <1>b, <2>1, <2>2, <2>3 DEF Guarded, Whole
<1>5. ASSUME (ReadSnapshot(r) /\ rd[r].gen \notin OnDisk) \/ ElementMissing(r)
      PROVE  Guarded(r)'
  <2>1. commitLock = r
    BY <1>5, <1>a DEF Guarded, ReadSnapshot, ElementMissing
  <2>2. rd'[r].pc = "pick" /\ commitLock' = r
    BY <1>5, <1>a, <2>1, FailRetries DEF Closed
  <2> QED
    BY <2>2 DEF Guarded
<1>6. CASE ReadSnapshot(r) /\ rd[r].gen \in OnDisk
  <2>1. /\ rd'[r] = [rd[r] EXCEPT !.pc = "elements", !.todo = Entries(snapshots[rd[r].gen])]
        /\ UNCHANGED <<commitLock, readLocks>> /\ rd[r].pc = "read"
    BY <1>6, <1>a DEF ReadSnapshot
  <2>2. /\ rd'[r].pc = "elements" /\ rd'[r].gen = rd[r].gen /\ rd'[r].view = Nothing
        /\ rd'[r].todo = Entries(snapshots[rd[r].gen])
    BY <1>a, <2>1 DEF ReaderState, ReadsOne
  <2> QED
    BY <1>a, <1>b, <2>1, <2>2 DEF Guarded, Whole, Nothing
<1>7. CASE OpenElement(r) \/ DataMissing(r)
  <2>1. PICK f \in rd[r].todo :
           /\ rd' = [rd EXCEPT ![r].todo = @ \ {f}, ![r].view[f] = disk[f]]
           /\ UNCHANGED <<commitLock, readLocks>>
    BY <1>7 DEF OpenElement, DataMissing, Take
  <2>2. rd[r].pc = "elements" /\ f \in File /\ rd[r].view \in [File -> Stamp]
    BY <1>7, <1>a DEF OpenElement, DataMissing, ReaderState, Contents
  <2>3. disk[f] = published[rd[r].gen][f]
    BY <1>a, <1>b, <2>2 DEF ReadsOne, Whole
  <2>4. rd'[r] = [rd[r] EXCEPT !.todo = @ \ {f}, !.view = [@ EXCEPT ![f] = disk[f]]]
    BY <1>a, <2>1
  <2>5. /\ rd'[r].pc = "elements" /\ rd'[r].gen = rd[r].gen
        /\ rd'[r].todo = rd[r].todo \ {f} /\ rd'[r].view = [rd[r].view EXCEPT ![f] = disk[f]]
    BY <1>a, <2>2, <2>4 DEF ReaderState
  <2>6. \A h \in File : h \in rd'[r].todo \/ rd'[r].view[h] = published[rd[r].gen][h]
    BY <1>a, <2>2, <2>3, <2>5 DEF Guarded
  <2> QED
    BY <1>a, <1>b, <2>1, <2>2, <2>5, <2>6 DEF Guarded, Whole
<1>8. CASE Opened(r)
  <2>1. /\ rd'[r] = [rd[r] EXCEPT !.pc = "open"] /\ rd[r].todo = {} /\ rd[r].pc = "elements"
        /\ UNCHANGED readLocks
    BY <1>8, <1>a DEF Opened
  <2>2. /\ rd'[r].pc = "open" /\ rd'[r].gen = rd[r].gen /\ rd'[r].view = rd[r].view
        /\ rd'[r].todo = {}
    BY <1>a, <2>1 DEF ReaderState
  <2> QED
    BY <1>a, <1>b, <2>1, <2>2 DEF Guarded, Whole
<1>9. CASE Close(r)
  BY <1>1, <1>9, <1>a DEF Close
<1> QED
  BY <1>2, <1>3, <1>4, <1>5, <1>6, <1>7, <1>8, <1>9 DEF OpenStep

LEMMA GuardedStep ==
  ASSUME IndexInv, [Next]_vars
  PROVE  \A r \in Locking : Guarded(r)'
<1> SUFFICES ASSUME NEW r \in Locking PROVE Guarded(r)'
  OBVIOUS
<1>a. r \in Reader
  BY IndexAssumption
<1>1. CASE Open(r) \/ OpenStep(r) \/ Close(r)
  BY <1>1, GuardedOwn
<1>2. ASSUME ~(Open(r) \/ OpenStep(r) \/ Close(r)), rd'[r] = rd[r] PROVE Guarded(r)'
  BY <1>2, GuardedKept
<1>3. ASSUME ~(Open(r) \/ OpenStep(r) \/ Close(r)), ReaderStep PROVE rd'[r] = rd[r]
  <2>1. PICK q \in Reader : (Open(q) \/ OpenStep(q) \/ Close(q)) /\ q # r
    BY <1>3 DEF ReaderStep
  <2> QED
    BY <1>a, <2>1, OneReader DEF IndexInv
<1>4. ASSUME NEW p \in Process, Die(p) PROVE rd'[r] = rd[r] \/ rd'[r] = Closed
  BY <1>4, <1>a DEF Die, IndexInv, TypeOK
<1>5. ASSUME rd'[r] = Closed PROVE Guarded(r)'
  BY <1>5 DEF Guarded, Closed
<1> QED
  BY <1>1, <1>2, <1>3, <1>4, <1>5, Frames

-----------------------------------------------------------------------------
(* No file is lost track of                                                 *)

LEMMA NextSegIsUnique ==
  ASSUME NEW snap, snap.segs \in SUBSET Nat, NEW m \in Nat, NEW n \in Nat,
         IsNextSeg(m, snap), IsNextSeg(n, snap)
  PROVE  m = n
BY DEF IsNextSeg

Listed(f) == \E g \in OnDisk : f \in Entries(snapshots[g])

LEMMA NoOrphansIs ==
  /\ Serial => (NoOrphans <=> \A f \in File : disk[f] # 0 => Listed(f) \/ New(f))
  /\ Serial' => (NoOrphans' <=> \A f \in File : disk'[f] # 0 => Listed(f)' \/ New(f)')
<1>1. /\ Serial => \A g \in Stamp : IsLatest(g) <=> g = Newest
      /\ Serial' => \A g \in Stamp : IsLatest(g)' <=> g = Newest'
  BY NewestIs DEF Serial
<1>2. (Serial => Newest \in Stamp) /\ (Serial' => Newest' \in Stamp)
  BY NewestIs DEF Serial
<1> QED
  BY <1>1, <1>2 DEF NoOrphans, Listed, New

LEMMA NoOrphansStep ==
  ASSUME IndexInv, [Next]_vars, Serial', NoOrphans
  PROVE  NoOrphans'
<1> DEFINE base == SnapOf(Newest)
<1>a. \A f \in File : disk[f] # 0 => Listed(f) \/ New(f)
  BY NoOrphansIs DEF IndexInv
<1> SUFFICES ASSUME NEW f \in File, disk'[f] # 0 PROVE Listed(f)' \/ New(f)'
  BY NoOrphansIs
<1>1. CASE RenameStep
  <2>1. Listed(f) \/ New(f)
    BY <1>a, <1>1 DEF RenameStep
  <2>2. CASE Listed(f)
    <3>1. PICK g \in OnDisk : f \in Entries(snapshots[g])
      BY <2>2 DEF Listed
    <3>2. g # job.gen /\ g \in Gen
      BY <1>1, NewestIsLatest, Numbers DEF RenameStep, OnDisk, IndexInv
    <3> QED
      BY <1>1, <3>1, <3>2 DEF RenameStep, Listed
  <2>3. CASE New(f)
    <3>1. /\ base.schema \in Nat /\ base.segs \in SUBSET Nat
          /\ job.schema = base.schema + 1 /\ job.schema # 0
          /\ IsNextSeg(job.seg, base) /\ job.seg \in job.segs /\ job.seg \in Nat
      BY <1>1, NewestSnap, Numbers
         DEF RenameStep, IndexInv, Prepared, Uncommitted, TypeOK, JobState
    <3>2. f \in {"schema", "meta", "data"} \X Gen /\ f[2] \in Nat
      BY Numbers DEF File
    <3>3. IF f[1] = "schema" THEN f[2] = job.schema ELSE f[2] = job.seg
      BY <2>3, <3>1, <3>2, NextSegIsUnique DEF New
    <3>4. snapshots'[job.gen].segs = job.segs /\ snapshots'[job.gen].schema = job.schema
      BY <1>1 DEF RenameStep
    <3>5. f \in Entries(snapshots'[job.gen])
      BY <3>1, <3>2, <3>3, <3>4 DEF Entries
    <3> QED
      BY <1>1, <3>5 DEF RenameStep, Listed
  <2> QED
    BY <2>1, <2>2, <2>3
<1>2. CASE OtherStep /\ (UNCHANGED snapshots \/ PurgeSnapshot)
  <2>1. New(f) => New(f)'
    BY <1>2 DEF OtherStep, New, IsNextSeg
  <2>2. disk'[f] = disk[f] \/ New(f)
    BY DiskStep
  <2>3. ASSUME Listed(f), disk'[f] = disk[f] PROVE Listed(f)'
    <3>1. PICK g \in OnDisk : f \in Entries(snapshots[g])
      BY <2>3 DEF Listed
    <3>2. CASE UNCHANGED snapshots
      BY <3>1, <3>2 DEF Listed, OnDisk
    <3>3. CASE PurgeSnapshot
      <4>1. PICK h \in job.snaps : snapshots' = [snapshots EXCEPT ![h] = NoSnap]
        BY <3>3 DEF PurgeSnapshot
      <4>2. \A k \in OnDisk \ {h} : k \in OnDisk' /\ snapshots'[k] = snapshots[k]
        BY <4>1 DEF OnDisk, IndexInv, TypeOK
      <4>3. CASE g # h
        BY <3>1, <4>2, <4>3 DEF Listed
      <4>4. CASE g = h
        <5>1. PICK k \in OnDisk \ job.snaps : f \in Entries(snapshots[k])
          BY <2>3, <3>1, <3>3, <4>4 DEF PurgeSnapshot, IndexInv, PurgeSafe, Purging
        <5> QED
          BY <4>2, <5>1 DEF Listed
      <4> QED
        BY <4>3, <4>4
    <3> QED
      BY <1>2, <3>2, <3>3
  <2> QED
    BY <1>a, <2>1, <2>2, <2>3
<1> QED
  BY <1>1, <1>2, SnapshotsStep

-----------------------------------------------------------------------------
(* The theorems                                                             *)

LEMMA CountedInit == Init => TypeOK /\ Counted
<1> SUFFICES ASSUME Init PROVE TypeOK /\ Counted
  OBVIOUS
<1> USE Numbers DEF Init
<1>1. Nothing \in Contents
  BY DEF Nothing, Contents
<1>2. Closed \in ReaderState /\ NoJob \in JobState
  BY <1>1 DEF Closed, NoJob, ReaderState, JobState, ReaderPC, JobPC
<1>3. session \in Stamp /\ session \in Nat
  OBVIOUS
<1>4. TypeOK
  BY <1>1, <1>2, <1>3 DEF TypeOK
<1>5. Counted
  BY <1>3 DEF Counted, OnDisk, NoSnap, NoJob, Uncommitted
<1> QED
  BY <1>4, <1>5

\* Every variable has its type, whoever dies or truncates: a session's numbers
\* stay among those there can be.
THEOREM TypeCorrect == Spec => []TypeOK
<1>1. TypeOK /\ Counted /\ [Next]_vars => (TypeOK /\ Counted)'
  BY TypeStep, CountedStep
<1> QED
  BY <1>1, CountedInit, PTL DEF Spec

LEMMA IndexInit == Init => IndexInv /\ NoOrphans
<1> SUFFICES ASSUME Init PROVE IndexInv /\ NoOrphans
  OBVIOUS
<1> USE Numbers DEF Init
<1>1. OnDisk = {} /\ IsLatest(0) /\ Newest = 0
  <2>1. OnDisk = {}
    BY DEF OnDisk
  <2> QED
    BY <2>1, NewestIs DEF IsLatest
<1>2. Serial
  BY <1>1 DEF Serial, NoJob, Uncommitted
<1>3. Prepared /\ PurgeSafe /\ NewestWhole
  BY <1>1 DEF Prepared, PurgeSafe, NoJob, Uncommitted, Purging, NewestWhole
<1>4. History
  BY <1>1 DEF History, Nothing
<1>5. ASSUME NEW r \in Reader PROVE ReadsOne(r) /\ Guarded(r)
  BY DEF ReadsOne, Guarded, Closed
<1>6. NoOrphans
  BY DEF NoOrphans, Nothing
<1> QED
  BY <1>2, <1>3, <1>4, <1>5, <1>6, CountedInit, IndexAssumption DEF IndexInv

\* What makes the rest true: at every step of a session, of its purges, of every
\* PolyReader_do_open and of every death, and as long as no session truncates.
THEOREM Invariance == ASSUME MayTruncate = FALSE PROVE Spec => [](IndexInv /\ NoOrphans)
<1>1. IndexInv /\ NoOrphans /\ [Next]_vars => (IndexInv /\ NoOrphans)'
  <2> SUFFICES ASSUME IndexInv, NoOrphans, [Next]_vars PROVE (IndexInv /\ NoOrphans)'
    OBVIOUS
  <2>1. TypeOK' /\ Counted'
    BY TypeStep, CountedStep DEF IndexInv
  <2>2. Serial' /\ History' /\ NewestWhole'
    BY SerialStep, HistoryStep
  <2>3. Prepared' /\ PurgeSafe'
    BY <2>1, PreparedStep, PurgeSafeStep
  <2>4. NoOrphans'
    BY <2>2, NoOrphansStep
  <2> QED
    BY <2>1, <2>2, <2>3, <2>4, ReadsOneStep, GuardedStep DEF IndexInv
<1> QED
  BY <1>1, IndexInit, PTL DEF Spec

LEMMA WholeIsIntact ==
  ASSUME IndexInv, NEW g \in OnDisk, Whole(g)
  PROVE  SegmentsIntact(g) /\ SchemaIntact(g)
<1>1. g \in Gen /\ snapshots[g] \in Snap /\ snapshots[g].schema \in Gen
  BY DEF OnDisk, IndexInv, TypeOK, Snap
<1>2. ASSUME NEW f \in Entries(snapshots[g]) PROVE Intact(g, f)
  <2>1. f \in File /\ disk[f] # 0
    BY <1>1, EntriesAreFiles DEF Whole
  <2> QED
    BY <1>1, <2>1 DEF IndexInv, History, Intact
<1>3. <<"schema", snapshots[g].schema>> \in Entries(snapshots[g])
  BY <1>1, Numbers DEF Entries
<1> QED
  BY <1>2, <1>3 DEF SegmentsIntact, SchemaIntact

\* Whenever and wherever an Indexer dies, the snapshot with the highest
\* generation has all of its files, each of the session that committed it: what
\* Indexer_commit has renamed is never lost.
THEOREM Durability == ASSUME MayTruncate = FALSE PROVE Spec => []LatestIntact
<1>1. IndexInv => LatestIntact
  <2> SUFFICES ASSUME IndexInv, NEW g \in OnDisk, IsLatest(g)
               PROVE  SegmentsIntact(g) /\ SchemaIntact(g)
    BY DEF LatestIntact
  <2>1. g = Newest /\ g # 0
    BY NewestIs, Numbers DEF OnDisk
  <2> QED
    BY <2>1, WholeIsIntact DEF IndexInv, NewestWhole
<1> QED
  BY <1>1, Invariance, PTL

\* FilePurger does not delete what a snapshot lists that an open reader with a
\* LockFactory has locked.
THEOREM Protection == ASSUME MayTruncate = FALSE PROVE Spec => []ReaderProtected
<1>1. IndexInv => ReaderProtected
  BY WholeIsIntact DEF IndexInv, Guarded, ReaderProtected
<1> QED
  BY <1>1, Invariance, PTL

\* All files that an open reader has read belong to one commit, although
\* PolyReader_do_open opens them one by one while sessions commit and purge, and
\* whether the reader locks or not.
THEOREM OneCommit == ASSUME MayTruncate = FALSE PROVE Spec => []NoMixedView
<1>1. IndexInv => NoMixedView
  BY DEF IndexInv, ReadsOne, NoMixedView
<1> QED
  BY <1>1, Invariance, PTL

\* Each file in the index is in some snapshot, or is one that the next session
\* writes anew: nothing is left that no purge would find.
THEOREM NothingLost == ASSUME MayTruncate = FALSE PROVE Spec => []NoOrphans
BY Invariance, PTL

\* PolyReader_do_open never takes the race with an Indexer for damage: whenever it
\* fails to read a file, locking or not, it has a newer snapshot to try, so it
\* throws nothing from its choice of a snapshot until it has opened one.
THEOREM RetriesSuffice == ASSUME MayTruncate = FALSE PROVE Spec => NoFalseAlarm
<1>1. IndexInv /\ [Next]_vars =>
         [\A r \in Reader :
            rd[r].pc \in {"read", "elements"} /\ r \notin dead' => rd'[r].pc # "closed"]_vars
  <2> SUFFICES ASSUME IndexInv, [Next]_vars, NEW r \in Reader,
                      rd[r].pc \in {"read", "elements"}, r \notin dead'
               PROVE  rd'[r].pc # "closed"
    OBVIOUS
  <2>a. rd \in [Reader -> ReaderState]
    BY DEF IndexInv, TypeOK
  <2>1. ASSUME rd'[r] = rd[r] PROVE rd'[r].pc # "closed"
    BY <2>1
  <2>2. CASE ReaderStep
    <3>1. PICK q \in Reader : Open(q) \/ OpenStep(q) \/ Close(q)
      BY <2>2 DEF ReaderStep
    <3>2. CASE q # r
      BY <2>1, <3>1, <3>2, OneReader DEF IndexInv
    <3>3. CASE q = r
      <4>1. ~Open(r) /\ ~Close(r) /\ ~Pick(r) /\ ~ReadLock(r)
        BY DEF Open, Close, Pick, ReadLock
      <4>2. ASSUME (ReadSnapshot(r) /\ rd[r].gen \notin OnDisk) \/ ElementMissing(r)
            PROVE  rd'[r].pc # "closed"
        BY <4>2, FailRetries DEF Closed
      <4>3. CASE ReadSnapshot(r) /\ rd[r].gen \in OnDisk
        BY <2>a, <4>3 DEF ReadSnapshot, ReaderState
      <4>4. CASE OpenElement(r) \/ DataMissing(r)
        <5>1. PICK f \in rd[r].todo :
                 rd' = [rd EXCEPT ![r].todo = @ \ {f}, ![r].view[f] = disk[f]]
          BY <4>4 DEF OpenElement, DataMissing, Take
        <5> QED
          BY <2>a, <5>1 DEF ReaderState
      <4>5. CASE Opened(r)
        BY <2>a, <4>5 DEF Opened, ReaderState
      <4> QED
        BY <3>1, <3>3, <4>1, <4>2, <4>3, <4>4, <4>5 DEF OpenStep
    <3> QED
      BY <3>2, <3>3
  <2>3. ASSUME NEW p \in Process, Die(p) PROVE rd'[r].pc # "closed"
    <3>1. p # r
      BY <2>3 DEF Die
    <3> QED
      BY <2>1, <2>a, <2>3, <3>1 DEF Die
  <2> QED
    BY <2>1, <2>2, <2>3, Frames
<1> QED
  BY <1>1, Invariance, PTL DEF Spec, NoFalseAlarm

-----------------------------------------------------------------------------
(* Opening a reader is one step                                             *)

Choosing == {"lock", "read", "elements", "open"}

LEMMA SeenIs ==
  ASSUME IndexInv, IndexInv'
  PROVE  /\ Seen = [r \in Locking |-> IF rd[r].pc \in Choosing
                                      THEN published[rd[r].gen] ELSE Nothing]
         /\ Seen' = [r \in Locking |-> IF rd'[r].pc \in Choosing
                                       THEN published'[rd'[r].gen] ELSE Nothing]
<1>1. ASSUME NEW r \in Locking, rd[r].pc = "open"
      PROVE  rd[r].view = published[rd[r].gen]
  <2>1. /\ rd[r].view \in [File -> Stamp] /\ published[rd[r].gen] \in [File -> Stamp]
        /\ \A f \in File : rd[r].view[f] = published[rd[r].gen][f]
    BY <1>1, IndexAssumption DEF IndexInv, TypeOK, ReaderState, Contents, Guarded, OnDisk
  <2> QED
    BY <2>1
<1>2. ASSUME NEW r \in Locking, rd'[r].pc = "open"
      PROVE  rd'[r].view = published'[rd'[r].gen]
  <2>1. /\ rd'[r].view \in [File -> Stamp] /\ published'[rd'[r].gen] \in [File -> Stamp]
        /\ \A f \in File : rd'[r].view[f] = published'[rd'[r].gen][f]
    BY <1>2, IndexAssumption DEF IndexInv, TypeOK, ReaderState, Contents, Guarded, OnDisk
  <2> QED
    BY <2>1
<1> QED
  BY <1>1, <1>2 DEF Seen, Choosing

\* Opening, giving up and closing, and everything else a reader does.
LEMMA OwnSeen ==
  ASSUME TypeOK, NEW r \in Locking, Open(r) \/ OpenStep(r) \/ Close(r)
  PROVE  \/ /\ rd[r].pc = "pick" /\ rd'[r].pc \in Choosing
            /\ rd'[r].gen = Newest /\ Newest # 0
         \/ rd'[r].pc \in {"closed", "pick"}
         \/ rd[r].pc \in Choosing /\ rd'[r].pc \in Choosing /\ rd'[r].gen = rd[r].gen
<1>a. rd \in [Reader -> ReaderState] /\ r \in Reader
  BY IndexAssumption DEF TypeOK
<1> USE DEF Choosing, ReaderState
<1>1. CASE Open(r)
  BY <1>1, <1>a DEF Open, Closed
<1>2. CASE Close(r)
  BY <1>2, <1>a DEF Close, Closed
<1>3. CASE Pick(r)
  <2>1. PICK g \in Stamp :
           /\ IsLatest(g)
           /\ IF g = 0 THEN rd' = [rd EXCEPT ![r] = Closed]
                       ELSE rd' = [rd EXCEPT ![r].gen = g,
                                      ![r].pc = IF r \in Locking THEN "lock" ELSE "read"]
    BY <1>3 DEF Pick, Stamp
  <2>2. g = Newest
    BY <2>1, NewestIs
  <2>3. CASE g = 0
    BY <1>a, <2>1, <2>3 DEF Closed
  <2>4. CASE g # 0
    BY <1>a, <1>3, <2>1, <2>2, <2>4 DEF Pick
  <2> QED
    BY <2>3, <2>4
<1>4. CASE ReadLock(r)
  BY <1>4, <1>a DEF ReadLock
<1>5. ASSUME Fail(r) PROVE rd'[r].pc \in {"closed", "pick"}
  <2>1. CASE rd[r].lastGen < rd[r].gen
    BY <1>5, <1>a, <2>1 DEF Fail, Closed
  <2>2. CASE ~(rd[r].lastGen < rd[r].gen)
    BY <1>5, <1>a, <2>2 DEF Fail, Closed
  <2> QED
    BY <2>1, <2>2
<1>6. CASE ReadSnapshot(r)
  <2>1. CASE rd[r].gen \in OnDisk
    BY <1>6, <1>a, <2>1 DEF ReadSnapshot
  <2>2. CASE rd[r].gen \notin OnDisk
    BY <1>5, <1>6, <2>2 DEF ReadSnapshot
  <2> QED
    BY <2>1, <2>2
<1>7. CASE OpenElement(r) \/ DataMissing(r)
  <2>1. PICK f \in rd[r].todo :
           rd' = [rd EXCEPT ![r].todo = @ \ {f}, ![r].view[f] = disk[f]]
    BY <1>7 DEF OpenElement, DataMissing, Take
  <2>2. rd[r].pc = "elements"
    BY <1>7 DEF OpenElement, DataMissing
  <2> QED
    BY <1>a, <2>1, <2>2
<1>8. CASE ElementMissing(r)
  BY <1>5, <1>8 DEF ElementMissing
<1>9. CASE Opened(r)
  BY <1>9, <1>a DEF Opened
<1> QED
  BY <1>1, <1>2, <1>3, <1>4, <1>6, <1>7, <1>8, <1>9 DEF OpenStep

LEMMA VersionsStep ==
  ASSUME IndexInv, IndexInv', [Next]_vars
  PROVE  [Atomic!Next]_<<Newest, published, Seen>>
<1> DEFINE sees(r) == IF rd[r].pc \in Choosing THEN published[rd[r].gen] ELSE Nothing
           sees1(r) == IF rd'[r].pc \in Choosing THEN published'[rd'[r].gen] ELSE Nothing
<1>a. Seen = [r \in Locking |-> sees(r)] /\ Seen' = [r \in Locking |-> sees1(r)]
  BY SeenIs
<1>b. /\ rd \in [Reader -> ReaderState] /\ Locking \subseteq Reader
      /\ published' \in [Gen -> Contents]
  BY IndexAssumption DEF IndexInv, TypeOK
<1>c. \A r \in Locking : rd'[r] = rd[r] => sees1(r) = sees(r)
  BY WholeKept DEF Choosing
<1> HIDE DEF sees, sees1
<1>1. ASSUME rd' = rd, OtherStep PROVE UNCHANGED <<Newest, published, Seen>>
  BY <1>a, <1>c, <1>1 DEF OtherStep
<1>2. CASE RenameStep
  <2>1. /\ Newest + 1 \in Gen /\ Newest' = Newest + 1 /\ job.gen = Newest + 1
        /\ \A g \in Gen \ {Newest + 1} : published'[g] = published[g]
        /\ rd' = rd
    BY <1>2 DEF RenameStep
  <2>2. published'[job.gen] # Nothing
    <3>1. job.gen \in OnDisk' /\ job.gen \in Gen
      BY <1>2 DEF RenameStep
    <3>2. snapshots'[job.gen].schema \in Gen
      BY <3>1 DEF OnDisk, IndexInv, TypeOK, Snap
    <3>3. <<"schema", snapshots'[job.gen].schema>> \in Entries(snapshots'[job.gen]) \cap File
      BY <3>2, Numbers DEF Entries, File
    <3>4. \A f \in File : f \in Entries(snapshots'[job.gen]) => published'[job.gen][f] # 0
      BY <3>1 DEF IndexInv, History
    <3> QED
      BY <3>3, <3>4 DEF Nothing
  <2>3. Seen' = Seen
    BY <1>a, <1>c, <2>1
  <2> QED
    BY <1>b, <2>1, <2>2, <2>3 DEF Atomic!Next, Atomic!Commit
<1>3. ASSUME OtherStep, NEW r \in Locking, \A q \in Locking \ {r} : rd'[q] = rd[q],
             rd'[r].pc \in {"closed", "pick"}
      PROVE  Atomic!Next
  <2>1. sees1(r) = Nothing
    BY <1>3 DEF sees1, Choosing
  <2>2. Seen' = [Seen EXCEPT ![r] = Nothing]
    BY <1>a, <1>c, <1>3, <2>1
  <2>3. UNCHANGED <<Newest, published>>
    BY <1>3 DEF OtherStep
  <2> QED
    BY <2>2, <2>3 DEF Atomic!Next, Atomic!Close
<1>4. ASSUME NEW r \in Reader, Open(r) \/ OpenStep(r) \/ Close(r), OtherStep
      PROVE  [Atomic!Next]_<<Newest, published, Seen>>
  <2>1. \A q \in Reader \ {r} : rd'[q] = rd[q]
    BY <1>4, OneReader DEF IndexInv
  <2>2. UNCHANGED <<Newest, published>>
    BY <1>4 DEF OtherStep
  <2>3. CASE r \notin Locking
    BY <1>a, <1>b, <1>c, <2>1, <2>2, <2>3
  <2>4. CASE r \in Locking
    <3>1. CASE /\ rd[r].pc = "pick" /\ rd'[r].pc \in Choosing
               /\ rd'[r].gen = Newest /\ Newest # 0
      <4>1. sees(r) = Nothing /\ sees1(r) = published[Newest]
        BY <2>2, <3>1 DEF sees, sees1, Choosing
      <4>2. Seen' = [Seen EXCEPT ![r] = published[Newest]] /\ Seen[r] = Nothing
        BY <1>a, <1>b, <1>c, <2>1, <2>4, <4>1
      <4> QED
        BY <2>2, <2>4, <3>1, <4>2 DEF Atomic!Next, Atomic!Open
    <3>2. CASE rd'[r].pc \in {"closed", "pick"}
      BY <1>3, <1>4, <1>b, <2>1, <2>4, <3>2
    <3>3. CASE rd[r].pc \in Choosing /\ rd'[r].pc \in Choosing /\ rd'[r].gen = rd[r].gen
      <4>1. sees1(r) = sees(r)
        BY <2>2, <3>3 DEF sees, sees1
      <4> QED
        BY <1>a, <1>b, <1>c, <2>1, <2>2, <4>1
    <3> QED
      BY <1>4, <2>4, <3>1, <3>2, <3>3, OwnSeen DEF IndexInv
  <2> QED
    BY <2>3, <2>4
<1>5. ASSUME NEW p \in Process, Die(p), OtherStep
      PROVE  [Atomic!Next]_<<Newest, published, Seen>>
  <2>1. CASE p \in Locking
    <3>1. rd'[p].pc = "closed" /\ \A q \in Locking \ {p} : rd'[q] = rd[q]
      BY <1>5, <1>b, <2>1 DEF Die, Closed
    <3> QED
      BY <1>3, <1>5, <2>1, <3>1
  <2>2. CASE p \notin Locking
    <3>1. \A q \in Locking : rd'[q] = rd[q]
      BY <1>5, <1>b, <2>2 DEF Die
    <3> QED
      BY <1>a, <1>c, <1>5, <3>1 DEF OtherStep
  <2> QED
    BY <2>1, <2>2
<1> QED
  BY <1>1, <1>2, <1>4, <1>5, SnapshotsStep, Frames DEF ReaderStep

\* The index implements Versions: a commit is one step, and a reader that locks
\* sees from its choice of a snapshot until it closes the whole of the version
\* that was newest then.
THEOREM OpeningIsAtomic == ASSUME MayTruncate = FALSE PROVE Spec => VersionsSpec
<1>1. Init => Atomic!Init
  <2> SUFFICES ASSUME Init PROVE Atomic!Init
    OBVIOUS
  <2>1. Newest = 0
    <3>1. IsLatest(0)
      BY DEF Init, IsLatest, OnDisk
    <3> QED
      BY <3>1, Numbers, NewestIs
  <2>2. Seen = [r \in Locking |-> Nothing]
    BY IndexAssumption DEF Init, Seen, Closed
  <2> QED
    BY <2>1, <2>2 DEF Init, Atomic!Init
<1>2. IndexInv /\ IndexInv' /\ [Next]_vars => [Atomic!Next]_<<Newest, published, Seen>>
  BY VersionsStep
<1> QED
  BY <1>1, <1>2, Invariance, PTL DEF Spec, VersionsSpec, Atomic!Spec, Atomic!vars
=============================================================================
