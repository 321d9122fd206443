------------------------------ MODULE Deletions ------------------------------
(* The documents of an index through the sessions of an Indexer: segments,   *)
(* their deletions files, and the merging of segments (Indexer.c,            *)
(* DeletionsWriter.c, DeletionsReader.c, SegWriter.c).  Files and crashes    *)
(* are Index.tla's subject: here a session commits or it does not.           *)
EXTENDS Integers, FiniteSets

CONSTANTS
    Doc,        \* documents; each is added at most once
    Term,       \* terms
    Has(_, _),  \* Has(d, t): document d contains term t
    ByteBits,   \* bits in a byte of a deletions file; 8
    OptimizeLast, \* do clients call optimize() once, as the last thing?
    MaxSession  \* bound: indexing sessions in a behaviour

ASSUME DeletionsAssumption ==
    /\ IsFiniteSet(Doc)
    /\ \A d \in Doc, t \in Term : Has(d, t) \in BOOLEAN
    /\ ByteBits \in Nat \ {0}
    /\ OptimizeLast \in BOOLEAN
    /\ MaxSession \in Nat

Seg == 1..MaxSession
DocMax == Cardinality(Doc)
DocId == 1..DocMax

\* A deletions file, with the count that segmeta.json records for it.
DelFile == [count : 0..DocMax, bits : SUBSET DocId]
NoFile == [count |-> 0, bits |-> {}]

VARIABLES
    segs,   \* the segments in the snapshot
    docs,   \* [Seg -> [1..n -> Doc]]: the documents of a segment by doc id
    dels,   \* [Seg -> [Seg -> DelFile]]: dels[n][s], seg_n/deletions-seg_s.bv
    added,  \* the documents that were ever added
    session, \* the number of sessions so far
    job     \* the Indexer

vars == <<segs, docs, dels, added, session, job>>

NoDocs == [i \in {} |-> 0]
Unwritten == [s \in Seg |-> NoFile]

\* pc: closed, open (the client's calls), optimizing, merging
Closed == [pc |-> "closed", bits |-> [s \in Seg |-> {}], updated |-> {},
           new |-> NoDocs, count |-> 0, todo |-> {}, merged |-> {},
           optimized |-> FALSE]

Init ==
    /\ segs = {}
    /\ docs = [s \in Seg |-> NoDocs]
    /\ dels = [s \in Seg |-> Unwritten]
    /\ added = {}
    /\ session = 0
    /\ job = Closed

-----------------------------------------------------------------------------
(* DeletionsReader *)

\* DefDelReader_read_deletions: the newest segment that addresses segment s.
FileFor(s) ==
    LET holders == {n \in segs : dels[n][s] # NoFile}
    IN  IF holders = {} THEN NoFile
        ELSE dels[CHOOSE n \in holders : \A m \in holders : m <= n][s]

Deleted(s) == FileFor(s).bits
DelCount(s) == FileFor(s).count

-----------------------------------------------------------------------------
(* DelWriter_generate_doc_map and the writers' Add_Segment *)

\* Mutated form of DocMap: new ids are numbered from the old ones.
DocMapGaps(gone, max, offset) ==
    [i \in 1..max |-> IF i \in gone THEN 0 ELSE offset + i]

\* 0 for a deleted doc, a new number otherwise.
DocMap(gone, max, offset) ==
    [i \in 1..max |->
        IF i \in gone THEN 0 ELSE offset + Cardinality((1..i) \ gone)]

\* The documents of source are added to those of target under their new ids.
Absorb(target, source, map) ==
    LET moved == {map[i] : i \in DOMAIN map} \ {0}
    IN  [j \in DOMAIN target \cup moved |->
            IF j \in DOMAIN target THEN target[j]
            ELSE source[CHOOSE i \in DOMAIN map : map[i] = j]]

\* SegWriter_Add_Segment; S_adjust_doc_id counts the documents.
WithSegment(j, source, gone) ==
    LET max == Cardinality(DOMAIN source)
    IN  [j EXCEPT !.new = Absorb(@, source, DocMap(gone, max, j.count)),
                  !.count = @ + Cardinality((1..max) \ gone)]

-----------------------------------------------------------------------------
(* Indexer *)

\* Mutated form of Begin: the deletions of earlier sessions are not loaded.
BeginFresh ==
    /\ job.pc = "closed"
    /\ session < MaxSession
    /\ session' = session + 1
    /\ job' = [Closed EXCEPT !.pc = "open"]
    /\ UNCHANGED <<segs, docs, dels, added>>

\* Indexer_init and DefDelWriter_init
Begin ==
    /\ job.pc = "closed"
    /\ session < MaxSession
    /\ session' = session + 1
    /\ job' = [Closed EXCEPT !.pc = "open",
                             !.bits = [s \in Seg |-> IF s \in segs THEN Deleted(s) ELSE {}]]
    /\ UNCHANGED <<segs, docs, dels, added>>

Usable == job.pc = "open" /\ (OptimizeLast => ~job.optimized)

\* Indexer_add_doc
AddDoc(d) ==
    /\ Usable /\ d \notin added
    /\ added' = added \cup {d}
    /\ job' = [job EXCEPT !.count = @ + 1,
                          !.new = [i \in DOMAIN @ \cup {job.count + 1} |->
                                      IF i = job.count + 1 THEN d ELSE @[i]]]
    /\ UNCHANGED <<segs, docs, dels, session>>

\* Indexer_add_index, for an index of one segment: documents d and e, of
\* which those of D are not deleted.
AddIndex(d, e, D) ==
    /\ Usable /\ {d, e} \cap added = {} /\ d # e
    /\ added' = added \cup {d, e}
    /\ LET source == [i \in 1..2 |-> IF i = 1 THEN d ELSE e]
       IN  job' = WithSegment(job, source, {i \in 1..2 : source[i] \notin D})
    /\ UNCHANGED <<segs, docs, dels, session>>

\* PList_Next over the segment's postings of a term
Matches(s, t) == {i \in DOMAIN docs[s] : Has(docs[s][i], t)}

\* DefDelWriter_delete_by_term and delete_by_query
DeleteByTerm(t) ==
    /\ Usable
    /\ job' = [job EXCEPT
                 !.bits = [s \in Seg |-> IF s \in segs THEN @[s] \cup Matches(s, t) ELSE @[s]],
                 !.updated = @ \cup {s \in segs : ~(Matches(s, t) \subseteq job.bits[s])}]
    /\ UNCHANGED <<segs, docs, dels, added, session>>

\* Indexer_optimize: all segments are to be merged.
Optimize ==
    /\ Usable
    /\ job' = [job EXCEPT !.pc = "optimizing", !.todo = segs]
    /\ UNCHANGED <<segs, docs, dels, added, session>>

\* Mutated form of Orphaned: merged deletions files are not replaced.
NoneOrphaned(n) == {}

\* The targets whose newest deletions file is merged away with segment n.
Orphaned(n) ==
    {s \in segs : dels[n][s] # NoFile /\ dels[n][s].count = DelCount(s)}

\* SegWriter_Merge_Segment, with S_zap_segment.  The segment's deletions
\* include those of this session.
MergeSegment ==
    /\ job.pc \in {"optimizing", "merging"}
    /\ \E n \in job.todo :
          job' = [WithSegment(job, docs[n], job.bits[n]) EXCEPT
                    !.todo = @ \ {n},
                    !.merged = @ \cup {n},
                    !.updated = @ \cup Orphaned(n)]
    /\ UNCHANGED <<segs, docs, dels, added, session>>

Optimized ==
    /\ job.pc = "optimizing" /\ job.todo = {}
    /\ job' = [job EXCEPT !.pc = "open", !.optimized = TRUE]
    /\ UNCHANGED <<segs, docs, dels, added, session>>

\* Indexer_prepare_commit: IxManager_SegReaders_To_Merge (which may be
\* overridden) picks any of the segments, or none.
Prepare ==
    /\ job.pc = "open"
    /\ \E M \in SUBSET segs :
          /\ job.optimized => M = {}
          /\ job' = [job EXCEPT !.pc = "merging", !.todo = M]
    /\ UNCHANGED <<segs, docs, dels, added, session>>

\* What a deletions file can hold: as many bytes as the documents need.
Capacity(s) ==
    LET max == Cardinality(DOMAIN docs[s])
    IN  ByteBits * ((max + ByteBits - 1) \div ByteBits)

\* DefDelWriter_finish
Finished ==
    [s \in Seg |->
        IF s \in job.updated /\ ~job.optimized
        THEN [count |-> Cardinality(job.bits[s]),
              bits |-> {i \in job.bits[s] : i < Capacity(s)}]
        ELSE NoFile]

\* IxManager_Make_New_Segment
NewSeg == CHOOSE n \in 1..(MaxSession + 1) :
    /\ \A m \in segs : m < n
    /\ n = 1 \/ n - 1 \in segs

\* Docs or segs added, or segs merged, or the index is being initialized, or
\* deletions to write.
NeedsCommit ==
    job.count # 0 \/ job.merged # {} \/ job.optimized \/ segs = {} \/ job.updated # {}

Commit ==
    /\ job.pc = "merging" /\ job.todo = {}
    /\ IF NeedsCommit
       THEN /\ segs' = (segs \ job.merged) \cup {NewSeg}
            /\ docs' = [s \in Seg |-> IF s = NewSeg THEN job.new
                                      ELSE IF s \in job.merged THEN NoDocs ELSE docs[s]]
            /\ dels' = [s \in Seg |-> IF s = NewSeg THEN Finished
                                      ELSE IF s \in job.merged THEN Unwritten ELSE dels[s]]
       ELSE UNCHANGED <<segs, docs, dels>>
    /\ job' = Closed
    /\ UNCHANGED <<added, session>>

\* The Indexer is destroyed before commit().
Abandon ==
    /\ job.pc = "open"
    /\ job' = Closed
    /\ UNCHANGED <<segs, docs, dels, added, session>>

Next ==
    \/ Begin \/ Optimize \/ MergeSegment \/ Optimized \/ Prepare \/ Commit \/ Abandon
    \/ \E d \in Doc : AddDoc(d)
    \/ \E d, e \in Doc : \E D \in SUBSET {d, e} : AddIndex(d, e, D)
    \/ \E t \in Term : DeleteByTerm(t)

Spec == Init /\ [][Next]_vars

-----------------------------------------------------------------------------
\* Every variable holds a value of its kind: in particular the documents of a
\* segment are numbered from 1 without gaps, as DataWriters and
\* PolyReader_doc_max need them to be, through merges that leave out deleted
\* documents (DelWriter_generate_doc_map).
Numbered == UNION {[1..n -> Doc] : n \in 0..DocMax}

TypeOK ==
    /\ segs \subseteq Seg
    /\ docs \in [Seg -> Numbered]
    /\ dels \in [Seg -> [Seg -> DelFile]]
    /\ added \subseteq Doc
    /\ session \in 0..MaxSession
    /\ job \in [pc : {"closed", "open", "optimizing", "merging"},
                bits : [Seg -> SUBSET DocId], updated : SUBSET Seg,
                new : Numbered, count : 0..DocMax, todo : SUBSET Seg,
                merged : SUBSET Seg, optimized : BOOLEAN]

\* The count that DelReader_Del_Count reads from segmeta.json, and from which
\* doc_count is computed, is the number of bits that the file it names has.
CountsAgree ==
    \A n \in segs, s \in Seg : dels[n][s].count = Cardinality(dels[n][s].bits)

\* Deletions are only ever added to, across merges that take older deletions
\* files away: what a file says is gone, a newer file for the same segment
\* says too.  S_zap_segment compares counts on the strength of this.
DeletionsGrow ==
    \A m, n \in segs, s \in segs :
        m < n /\ dels[n][s] # NoFile =>
            /\ dels[m][s].bits \subseteq dels[n][s].bits
            /\ dels[m][s].count < dels[n][s].count

\* The index is the bag of documents that it is documented to be.
Copies(d, S, gone) ==
    Cardinality({x \in S \X DocId :
        x[2] \in DOMAIN docs[x[1]] \ gone[x[1]] /\ docs[x[1]][x[2]] = d})
OfIndex == [d \in Doc |-> Copies(d, segs, [s \in Seg |-> Deleted(s)])]
OfSession == [d \in Doc |->
    Cardinality({i \in DOMAIN job.new : job.new[i] = d})
        + Copies(d, segs \ job.merged, job.bits)]

C == INSTANCE Collection WITH
    committed <- OfIndex,
    pending <- IF job.pc = "closed" THEN OfIndex ELSE OfSession

CollectionSpec == C!Spec
=============================================================================
