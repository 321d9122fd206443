--------------------------- MODULE PostingsWriter ---------------------------
(* Index/PostingsWriter.c, PostingPool.c and PostingPoolQueue.c: the        *)
(* postings of a segment under construction.  Each field has pools: first   *)
(* the one that takes new postings, in memory, then those that were written *)
(* to temporary files when the memory was full, and those that stand for    *)
(* the files of another segment.  To finish a field, its pools are merged.  *)
EXTENDS TermFiles

CONSTANTS
    Field,          \* field numbers 1..n
    PostMemThresh   \* mem_thresh, in postings

\* PostPool_init
NewPool == [cache |-> <<>>, fromSeg |-> FALSE, lex |-> <<>>, posts |-> <<>>,
            base |-> 0, map |-> <<>>, postCount |-> 0, term |-> Stepper(NoText, NoInfo),
            lastDoc |-> 0, thresh |-> 0]

\* PostWriter_init: no field has a pool, the memory pool is empty.
NewPostWriter == [pools |-> [f \in Field |-> <<>>], consumed |-> 0, released |-> TRUE,
                  skips |-> <<>>, opened |-> FALSE]

\* PostPoolQ_compare_rawp, for terms that are not empty.
CompareRawp(x, y) == IF x.term # y.term THEN x.term - y.term ELSE x.doc - y.doc

\* Mutated form of AtCeiling: full even if nothing has been found yet.
AtCeilingAnyway(consumed, pool, elems) == consumed >= pool.thresh

\* Is a run's memory full?  Deleted postings take memory too.
AtCeiling(consumed, pool, elems) == consumed >= pool.thresh /\ elems # <<>>

\* LexStepper_Read_Record and Post_Reset
NextTerm(pool) ==
    LET term == ReadRecord(pool.term, Head(pool.lex))
    IN  [pool EXCEPT !.lex = Tail(@), !.term = term, !.postCount = term.info.docFreq,
                     !.lastDoc = pool.base]

\* ScorePost_read_raw and its like, and the new number of the document, or 0.
NextPosting(pool) ==
    LET record == Head(pool.posts)
        doc == pool.lastDoc + record.doc
        new == IF pool.map = <<>> THEN doc ELSE pool.map[doc - pool.base]
    IN  [pool |-> [pool EXCEPT !.posts = Tail(@), !.lastDoc = doc, !.postCount = @ - 1],
         elem |-> [term |-> pool.term.text, doc |-> new, freq |-> record.freq, aux |-> record.aux]]

\* PostPool_refill
PostPoolRefill(pool) ==
    LET AtTerm(p) == IF p.postCount > 0 \/ p.lex = <<>> THEN p ELSE NextTerm(p)
        Took(s, next) ==
            [s EXCEPT !.pool = next.pool, !.consumed = @ + 1,
                      !.elems = IF next.elem.doc = 0 THEN @ ELSE Append(@, next.elem)]
        Turn(s, now) ==
            IF s.full \/ now.postCount = 0 THEN s
            ELSE IF AtCeiling(s.consumed, now, s.elems) THEN [s EXCEPT !.pool = now, !.full = TRUE]
            ELSE Took(s, NextPosting(now))
        Filled(s) == [s.pool EXCEPT !.cache = s.elems]
    IN  Filled(FoldLeft(LAMBDA s, any : Turn(s, AtTerm(s.pool)),
                        [pool |-> pool, consumed |-> 0, elems |-> <<>>, full |-> FALSE],
                        pool.posts))

INSTANCE Sorting WITH Compare <- CompareRawp, Refill <- PostPoolRefill

\* MemPool_release_all: postings still in memory are overwritten by the next.
ReleaseAll(w) ==
    LET Lost(p) == [p EXCEPT !.term = Garbage]
        Without(pool) == [pool EXCEPT !.cache = [i \in DOMAIN @ |-> Lost(@[i])]]
    IN  [w EXCEPT !.released = TRUE,
                  !.pools = [f \in Field |-> [k \in DOMAIN @[f] |-> Without(@[f][k])]]]

\* S_flush_pools, for one field: the pool in use is written to a part of the
\* temporary files of its own, and another takes its place.
FlushPool(w, f) ==
    LET pool == w.pools[f][1]
        Stored(files) == [pool EXCEPT !.cache = <<>>, !.lex = files.dat, !.posts = files.posts]
        Flushed(files) == [w EXCEPT !.skips = files.skips,
                                    !.pools[f] = <<NewPool, Stored(files)>> \o Tail(@)]
    IN  IF w.pools[f] = <<>> \/ pool.cache = <<>> THEN w
        ELSE Flushed(WriteTermsAndPostings([NewFiles EXCEPT !.skips = w.skips],
                                           MergeSort(pool.cache), TRUE))

InOrder == [f \in Field |-> f]

\* S_flush_pools
FlushPools(w) == ReleaseAll(FoldLeft(FlushPool, w, InOrder))

\* S_add_inversion: MemPool_Grab starts the count of what is consumed again
\* after a release.
AddInversion(w, field, postings) ==
    LET pools == IF w.pools[field] = <<>> THEN <<NewPool>> ELSE w.pools[field]
        Checked(added) == IF added.consumed > PostMemThresh THEN FlushPools(added) ELSE added
    IN  Checked([w EXCEPT !.pools[field] = [pools EXCEPT ![1].cache = @ \o postings],
                          !.consumed = IF postings = <<>> THEN @
                                       ELSE (IF w.released THEN 0 ELSE @) + Len(postings),
                          !.released = @ /\ postings = <<>>])

\* PostWriter_add_inverted_doc: postings[f] for the indexed fields that the
\* document has.
PostAddInvertedDoc(w, fields, postings) ==
    FoldLeft(LAMBDA before, f : IF f \in fields THEN AddInversion(before, f, postings[f]) ELSE before,
             [w EXCEPT !.opened = TRUE], InOrder)

\* PostWriter_add_segment and PostPool_assign_seg: the other segment's files,
\* for the indexed fields that it knows.
PostAddSegment(w, other, base, map) ==
    LET assigned(f) == IF other[f].dat = <<>> THEN [NewPool EXCEPT !.fromSeg = TRUE]
                       ELSE [NewPool EXCEPT !.fromSeg = TRUE, !.lex = other[f].dat,
                                            !.posts = other[f].posts, !.base = base, !.map = map]
        pools(f) == IF w.pools[f] = <<>> THEN <<NewPool>> ELSE w.pools[f]
    IN  [w EXCEPT !.opened = TRUE,
                  !.pools = [f \in Field |-> IF f \in DOMAIN other THEN Append(pools(f), assigned(f)) ELSE @[f]]]

\* PostPool_flip
Flipped(pool, thresh) == [pool EXCEPT !.cache = MergeSort(@), !.thresh = thresh]

\* PostPoolQ_init
NewQueue(pools) ==
    [cache |-> <<>>,
     runs |-> [k \in DOMAIN pools |-> Flipped(pools[k], PostMemThresh \div Len(pools))]]

\* PostPoolQ_fetch until there is nothing left.
FetchAll(queue) ==
    LET most == FoldLeft(LAMBDA n, run : n + Len(run.cache) + Len(run.posts), 0, queue.runs)
        Fetch(ready, postings) ==
            IF ready.cache = <<>> THEN [queue |-> ready, postings |-> postings]
            ELSE [queue |-> [ready EXCEPT !.cache = Tail(@)],
                  postings |-> Append(postings, Head(ready.cache))]
    IN  FoldLeft(LAMBDA s, any : Fetch(Ready(s.queue), s.postings),
                 [queue |-> queue, postings |-> <<>>], [i \in 1..most |-> i]).postings

\* S_finish_field, LexWriter_start_field: files, if there is anything to write.
FinishField(s, f) ==
    LET With(files) == [writer |-> [s.writer EXCEPT !.skips = files.skips, !.pools[f] = <<>>],
                        files |-> [s.files EXCEPT ![f] = files]]
        Written(postings) ==
            IF postings = <<>> THEN s
            ELSE With(WriteTermsAndPostings([NewFiles EXCEPT !.skips = s.writer.skips], postings, FALSE))
    IN  Written(FetchAll(NewQueue(s.writer.pools[f])))

\* PostWriter_finish: the files of every field.
PostFinish(w) ==
    LET none == [f \in Field |-> NewFiles]
        Closed(end) == [f \in Field |-> [end.files[f] EXCEPT !.skips = end.writer.skips]]
    IN  IF ~w.opened THEN none
        ELSE Closed(FoldLeft(FinishField, [writer |-> w, files |-> none], InOrder))
=============================================================================
