--------------------------- MODULE SegmentWriting ---------------------------
(* Index/SegWriter.c with all of its DataWriters: documents and other        *)
(* segments are added to a segment, each writer does its part, and at the    *)
(* end the files of all of them speak of the same documents.                 *)
EXTENDS SortFiles, FiniteSets

CONSTANTS
    Stopword,           \* the stoplist
    Stem(_),            \* the Snowball stemmer
    Name,               \* the fields of the schema
    TypeOf,             \* [Name -> FieldType]
    Analyzers,          \* of the analyzed fields, after the tokenizer
    Content,            \* documents: functions from some of Name to texts
    OtherContents,      \* the documents of other segments, as sequences
    MaxDoc,             \* bound: documents in the segment
    MaxPools,           \* bound: pools of a field when a segment is added
    PostMemThresh, SkipInterval, IndexInterval

VARIABLES
    self,       \* the segment, its writers and, at the end, their files
    seen        \* the documents that were added, by doc id

-----------------------------------------------------------------------------
(* From the text of a field to the postings of a document: the Analyzers,   *)
(* Inversion.c, Inverter.c and the Posting classes.                         *)
(*                                                                          *)
(* A text is a sequence of words, and a word is a number, whose order is    *)
(* that of the bytes; a capital word is its lower-case form and Capital.    *)
(* A token knows its word, the place of its first character and of the one  *)
(* after its last, its position increment, and its position once inverted.  *)

Capital == 100
Lower(word) == IF word > Capital THEN word - Capital ELSE word

\* A word is one character; words are one space apart.
StartOf(i) == 2 * (i - 1)

\* Token_init
NewToken(word, start, end) == [text |-> word, start |-> start, end |-> end, posInc |-> 1, pos |-> -1]

\* kino_Tokenizer_tokenize_str: a token for every match of the pattern.
TokenizeStr(text) == [i \in DOMAIN text |-> NewToken(text[i], StartOf(i), StartOf(i) + 1)]

\* kino_CaseFolder_transform
CaseFold(tokens) == [i \in DOMAIN tokens |-> [tokens[i] EXCEPT !.text = Lower(@)]]

\* Stemmer_transform
StemAll(tokens) == [i \in DOMAIN tokens |-> [tokens[i] EXCEPT !.text = Stem(@)]]

\* Stopalizer_transform: the increments stay as they are.
WithoutStopwords(tokens) == SelectSeq(tokens, LAMBDA token : token.text \notin Stopword)

\* PolyAnalyzer_transform_text: CaseFolder and Tokenizer, whichever of them
\* is the first, then what else there is.
Transform(text, analyzers) ==
    LET Apply(tokens, analyzer) == CASE analyzer = "fold" -> CaseFold(tokens)
                                     [] analyzer = "stop" -> WithoutStopwords(tokens)
                                     [] analyzer = "stem" -> StemAll(tokens)
    IN  FoldLeft(Apply, TokenizeStr(text), analyzers)

\* Token_compare
Before(x, y) == x.text < y.text \/ (x.text = y.text /\ x.pos < y.pos)

\* Inversion_invert: positions in the order of the text, then sorted.
Invert(tokens) ==
    LET pos[i \in DOMAIN tokens] == IF i = 1 THEN 0 ELSE pos[i - 1] + tokens[i - 1].posInc
    IN  SortSeq([i \in DOMAIN tokens |-> [tokens[i] EXCEPT !.pos = pos[i]]], Before)

\* S_count_clusters and Inversion_next_cluster: the runs of one text.
Clusters(inversion) ==
    LET starts == SelectSeq([i \in DOMAIN inversion |-> i],
                            LAMBDA i : i = 1 \/ inversion[i].text # inversion[i - 1].text)
        End(k) == IF k = Len(starts) THEN Len(inversion) ELSE starts[k + 1] - 1
    IN  [k \in DOMAIN starts |-> SubSeq(inversion, starts[k], End(k))]

\* Inverter_add_field: through the analyzer, or the value as one token.
FieldInversion(text, analyzed, analyzers) ==
    Invert(IF analyzed THEN Transform(text, analyzers)
           ELSE <<NewToken(text[1], 0, StartOf(Len(text)) + 1)>>)

----------------------------------------------------------------------------
(* A RawPosting: a term, a document, how often the one is in the other, and *)
(* what its class writes besides.                                           *)

RawPosting(text, doc, freq, aux) == [term |-> text, doc |-> doc, freq |-> freq, aux |-> aux]

PosDelta(cluster, i) == cluster[i].pos - (IF i = 1 THEN 0 ELSE cluster[i - 1].pos)

\* MatchPost_add_inversion_to_pool: no positions.
MatchPostings(clusters, doc) ==
    [k \in DOMAIN clusters |-> RawPosting(clusters[k][1].text, doc, Len(clusters[k]), <<>>)]

\* ScorePost_add_inversion_to_pool: one boost for the field, then positions.
ScorePostings(clusters, doc, norm) ==
    LET Aux(cluster) == <<norm>> \o [i \in DOMAIN cluster |-> PosDelta(cluster, i)]
    IN  [k \in DOMAIN clusters |->
            RawPosting(clusters[k][1].text, doc, Len(clusters[k]), Aux(clusters[k]))]

\* RichPost_add_inversion_to_pool: a boost after every position.
RichPostings(clusters, doc, norm) ==
    LET Aux(cluster) == [j \in 1..(2 * Len(cluster)) |->
                            IF j % 2 = 1 THEN PosDelta(cluster, (j + 1) \div 2) ELSE norm]
    IN  [k \in DOMAIN clusters |->
            RawPosting(clusters[k][1].text, doc, Len(clusters[k]), Aux(clusters[k]))]

\* How many numbers of a record follow its frequency: what the read_raw of
\* each class copies.
AuxLen(class, freq) == CASE class = "match" -> 0 [] class = "score" -> 1 + freq
                         [] class = "rich" -> 2 * freq

\* The positions in aux: ScorePost_read_record and RichPost_read_record.
Positions(class, aux) ==
    LET delta == CASE class = "match" -> <<>>
                   [] class = "score" -> Tail(aux)
                   [] class = "rich" -> [i \in 1..(Len(aux) \div 2) |-> aux[2 * i - 1]]
        pos[i \in 0..Len(delta)] == IF i = 0 THEN 0 ELSE pos[i - 1] + delta[i]
    IN  [i \in DOMAIN delta |-> pos[i]]

-----------------------------------------------------------------------------
(* The segment.                                                             *)

Field == 1..Cardinality(Name)

INSTANCE PostingsWriter

-----------------------------------------------------------------------------
(* Index/DocWriter.c and Index/HighlightWriter.c, and the readers of their  *)
(* files.  Each has a file of records, one per document, and a file of      *)
(* pointers: none for document 0, one per document, one for the end.  The   *)
(* records are written item by item, and a pointer is a number of items.    *)

NewRecords == [dat |-> <<>>, ix |-> <<>>]

\* DocWriter_add_inverted_doc and HLWriter_add_inverted_doc check this.
ExpectedDoc(w) == Len(w.ix)

\* S_lazy_init of either: go past document 0.
Opened(w) == IF w.ix = <<>> THEN [w EXCEPT !.ix = <<0>>] ELSE w

AddRecord(w, record) == [dat |-> w.dat \o record, ix |-> Append(w.ix, Len(w.dat))]

\* DefDocReader_read_record and DefHLReader_read_record: between pointers.
ReadRecordOf(files, doc) == SubSeq(files.dat, files.ix[doc + 1] + 1, files.ix[doc + 2])

\* Mutated form of AddRecords: deleted documents keep their records.
AddAllRecords(w, other, map) ==
    FoldLeft(LAMBDA to, doc : AddRecord(to, ReadRecordOf(other, doc)), Opened(w),
             [i \in DOMAIN map |-> i])

\* DocWriter_add_segment and HLWriter_add_segment
AddRecords(w, other, map) ==
    FoldLeft(LAMBDA to, doc : IF map[doc] = 0 THEN to ELSE AddRecord(to, ReadRecordOf(other, doc)),
             Opened(w), [i \in DOMAIN map |-> i])

\* DocWriter_finish and HLWriter_finish: one more pointer, for the end.
FinishRecords(w) == IF w.ix = <<>> THEN w ELSE [w EXCEPT !.ix = Append(@, Len(w.dat))]

----------------------------------------------------------------------------
(* Stored fields: their number, then names and values. *)

\* DocWriter_add_inverted_doc: in the order of the field numbers.
DocRecord(values, names) ==
    <<Len(names)>> \o FoldLeft(LAMBDA r, name : r \o <<name, values[name]>>, <<>>, names)

\* kino_DefDocReader_fetch: reads on from the pointer of the document.
FetchDoc(files, doc) ==
    LET start == files.ix[doc + 1]
        Item(k) == files.dat[start + k]
        names == [k \in 1..Item(1) |-> Item(2 * k)]
    IN  [name \in Range(names) |->
            Item(2 * (CHOOSE k \in DOMAIN names : names[k] = name) + 1)]

----------------------------------------------------------------------------
(* Term vectors: for a field of a document, its terms, and for each where   *)
(* it is.                                                                   *)

\* HLWriter_tv_buf, from the clusters of an inversion; a text is written as
\* what it does not share with the one before.
TvBuf(clusters) ==
    [k \in DOMAIN clusters |->
        [text |-> clusters[k][1].text,
         after |-> IF k = 1 THEN 0 ELSE clusters[k - 1][1].text,
         posdata |-> FoldLeft(LAMBDA d, token : d \o <<token.pos, token.start, token.end>>,
                              <<>>, clusters[k])]]

\* HLWriter_add_inverted_doc: the highlightable fields.
HLRecord(buf, names) ==
    <<Len(names)>> \o FoldLeft(LAMBDA r, name : r \o <<name, buf[name]>>, <<>>, names)

\* DefHLReader_fetch: a DocVector, which keeps the buffers by field.
FetchDocVec(files, doc) == FetchDoc(files, doc)

\* S_extract_tv_cache: texts are put together again one after the other.
TvCache(buf) ==
    LET texts[k \in 0..Len(buf)] == IF k = 0 THEN 0
                                    ELSE IF buf[k].after = texts[k - 1] THEN buf[k].text ELSE -1
    IN  [text \in {texts[k] : k \in DOMAIN buf} |->
            buf[CHOOSE k \in DOMAIN buf : texts[k] = text].posdata]

\* S_extract_tv_from_tv_buf: positions, starts and ends.
TermVector(posdata) ==
    [n \in 1..(Len(posdata) \div 3) |->
        [pos |-> posdata[3 * n - 2], start |-> posdata[3 * n - 1], end |-> posdata[3 * n]]]

\* DocVec_term_vector, for a term that is in the field.
VectorOf(docVec, name, text) == TermVector(TvCache(docVec[name])[text])

-----------------------------------------------------------------------------
Norm == 0           \* boosts and norms are left out

\* Seg_add_field: the numbers are those of the order in which fields came.
NumberingsOf(names) == {n \in [1..Cardinality(names) -> names] : Range(n) = names}
Numberings == NumberingsOf(Name)
\* A segment that was written before a field was specified has no number for it.
OtherNumberings(contents) ==
    UNION {NumberingsOf(names) : names \in {n \in SUBSET Name : \A i \in DOMAIN contents : DOMAIN contents[i] \subseteq n}}
\* Seg_field_num
NumberOf(byNum, name) ==
    IF name \notin Range(byNum) THEN 0 ELSE CHOOSE f \in DOMAIN byNum : byNum[f] = name

\* SegWriter_init, with the writers that Architecture.c registers.
NewSegment(byNum) ==
    [byNum |-> byNum, count |-> 0, thrown |-> FALSE, post |-> NewPostWriter,
     docs |-> NewRecords, vectors |-> NewRecords, vals |-> [f \in DOMAIN byNum |-> <<>>]]

Init ==
    /\ self \in {[segment |-> NewSegment(byNum), finished |-> FALSE] : byNum \in Numberings}
    /\ seen = <<>>

\* The fields of a document that have a property, in the order that
\* Inverter_iter_init gives them.
NamesIn(s, content) == SelectSeq(s.byNum, LAMBDA name : name \in DOMAIN content)

InversionOf(content, name) ==
    FieldInversion(content[name], TypeOf[name].analyzed, Analyzers)

\* Post_add_inversion_to_pool, by class.
PostingsFor(content, name, doc) ==
    LET Of(clusters) ==
            CASE TypeOf[name].class = "match" -> MatchPostings(clusters, doc)
              [] TypeOf[name].class = "score" -> ScorePostings(clusters, doc, Norm)
              [] TypeOf[name].class = "rich" -> RichPostings(clusters, doc, Norm)
    IN  Of(Clusters(InversionOf(content, name)))

\* SortWriter_add_inverted_doc
SortAddDoc(vals, s, content, doc) ==
    [f \in DOMAIN vals |->
        LET name == s.byNum[f]
        IN  IF name \in DOMAIN content /\ TypeOf[name].sortable
            THEN Stored(vals[f], doc, content[name][1]) ELSE vals[f]]

\* SegWriter_add_doc and SegWriter_add_inverted_doc
WithDoc(s, content) ==
    LET doc == s.count + 1
        names == NamesIn(s, content)
        indexed == SelectSeq(names, LAMBDA name : TypeOf[name].indexed)
        stored == SelectSeq(names, LAMBDA name : TypeOf[name].stored)
        marked == SelectSeq(names, LAMBDA name : TypeOf[name].highlightable)
        numbers == {NumberOf(s.byNum, name) : name \in Range(indexed)}
        bufs == [name \in Range(marked) |-> TvBuf(Clusters(InversionOf(content, name)))]
        docs == Opened(s.docs)
        vectors == Opened(s.vectors)
    IN  [s EXCEPT !.count = doc,
                  !.thrown = @ \/ ExpectedDoc(docs) # doc \/ ExpectedDoc(vectors) # doc,
                  !.post = PostAddInvertedDoc(
                              @, numbers, [f \in numbers |-> PostingsFor(content, s.byNum[f], doc)]),
                  !.docs = AddRecord(docs, DocRecord(content, stored)),
                  !.vectors = AddRecord(vectors, HLRecord(bufs, marked)),
                  !.vals = SortAddDoc(@, s, content, doc)]

\* SegWriter_finish, and the readers that open the files of the segment.
Finished(s) ==
    [byNum |-> s.byNum, count |-> s.count, thrown |-> s.thrown,
     post |-> PostFinish(s.post), docs |-> FinishRecords(s.docs),
     vectors |-> FinishRecords(s.vectors),
     \* SortWriter_finish: a field without values has no files
     caches |-> [f \in {g \in DOMAIN s.vals : s.vals[g] # <<>>} |-> FinishSortField(s.vals[f], s.count)]]

\* SortWriter_add_segment
SortAddSegment(s, other, map) ==
    [f \in Field |->
        LET g == NumberOf(other.byNum, s.byNum[f])
        IN  IF g \notin DOMAIN other.caches THEN s.vals[f]
            ELSE LET cache == other.caches[g]
                     Turn(vals, doc) ==
                        LET value == ValueAt(cache, Ordinal(cache, doc))
                        IN  IF map[doc] = 0 \/ value = Null THEN vals
                            ELSE Stored(vals, map[doc], value)
                 IN  FoldLeft(Turn, s.vals[f], [i \in DOMAIN map |-> i])]

\* SegWriter_add_segment and S_adjust_doc_id
WithSegment(s, other, map) ==
    LET Known(f) == TypeOf[s.byNum[f]].indexed /\ NumberOf(other.byNum, s.byNum[f]) # 0
        lexicons == [f \in {g \in Field : Known(g)} |-> other.post[NumberOf(other.byNum, s.byNum[f])]]
    IN  [s EXCEPT !.count = @ + Cardinality({i \in DOMAIN map : map[i] # 0}),
                  !.post = PostAddSegment(@, lexicons, s.count, map),
                  !.docs = IF other.count = 0 THEN @ ELSE AddRecords(@, other.docs, map),
                  !.vectors = IF other.count = 0 THEN @ ELSE AddRecords(@, other.vectors, map),
                  !.vals = SortAddSegment(s, other, map)]

\* DelWriter_generate_doc_map
DocMap(gone, max, base) ==
    [i \in 1..max |-> IF i \in gone THEN 0 ELSE base + Cardinality((1..i) \ gone)]

AddDoc(content) ==
    /\ ~self.finished /\ Len(seen) < MaxDoc
    /\ self' = [self EXCEPT !.segment = WithDoc(@, content)]
    /\ seen' = Append(seen, content)

\* Another segment with documents contents, of which those of gone are deleted.
AddSegment(contents, byNum, gone) ==
    LET map == DocMap(gone, Len(contents), self.segment.count)
        kept == SelectSeq([i \in DOMAIN contents |-> i], LAMBDA i : i \notin gone)
    IN  /\ ~self.finished /\ Len(seen) + Len(kept) <= MaxDoc
        /\ \A f \in Field : Len(self.segment.post.pools[f]) < MaxPools
        /\ self' = [self EXCEPT !.segment = WithSegment(@, Finished(FoldLeft(WithDoc, NewSegment(byNum), contents)), map)]
        /\ seen' = seen \o [k \in DOMAIN kept |-> contents[kept[k]]]

Finish ==
    /\ ~self.finished
    /\ self' = [segment |-> Finished(self.segment), finished |-> TRUE]
    /\ UNCHANGED seen

Next ==
    \/ \E content \in Content : AddDoc(content)
    \/ \E contents \in OtherContents : \E byNum \in OtherNumberings(contents) :
          \E gone \in SUBSET DOMAIN contents : AddSegment(contents, byNum, gone)
    \/ Finish

-----------------------------------------------------------------------------
(* What the files have to say of the documents that were added. *)

\* The words of a field that become terms, and at which place of the text.
Words(content, name) ==
    IF name \notin DOMAIN content THEN {}
    ELSE IF ~TypeOf[name].analyzed THEN {<<1, content[name][1]>>}
    ELSE {<<i, Stem(Lower(content[name][i]))>> : i \in
             {j \in DOMAIN content[name] : Lower(content[name][j]) \notin Stopword}}
\* Stopwords do not count as positions.
PlaceOf(words, i) == Cardinality({w \in words : w[1] < i})

PostingsRight(s) ==
    \A f \in {g \in Field : TypeOf[s.byNum[g]].indexed} :
        LET name == s.byNum[f]
            words(doc) == Words(seen[doc], name)
            places(doc, term) == {PlaceOf(words(doc), w[1]) : w \in {v \in words(doc) : v[2] = term}}
            all == UNION {{w[2] : w \in words(doc)} : doc \in DOMAIN seen}
            terms == Terms(s.post[f])
        IN  /\ [k \in DOMAIN terms |-> terms[k].text] = SetToSortSeq(all, <)
            /\ \A k \in DOMAIN terms :
                  LET info == terms[k].info
                      docs == DocsOf(s.post[f], info)
                      Record(n) == s.post[f].posts[info.postFilepos + n]
                  IN  /\ docs = SetToSortSeq({doc \in DOMAIN seen : places(doc, terms[k].text) # {}}, <)
                      /\ \A n \in DOMAIN docs :
                            LET is == places(docs[n], terms[k].text)
                            IN  /\ Record(n).freq = Cardinality(is)
                                /\ TypeOf[name].class # "match" =>
                                      Positions(TypeOf[name].class, Record(n).aux) = SetToSortSeq(is, <)
                      /\ \A n \in DOMAIN SkipsOf(s.post[f], info) :
                            SkipsOf(s.post[f], info)[n] =
                                [doc |-> docs[n * SkipInterval],
                                 filepos |-> info.postFilepos + n * SkipInterval]

StoredRight(s) ==
    \A doc \in DOMAIN seen :
        FetchDoc(s.docs, doc) =
            [name \in {n \in DOMAIN seen[doc] : TypeOf[n].stored} |-> seen[doc][name]]

VectorsRight(s) ==
    \A doc \in DOMAIN seen : \A name \in {n \in DOMAIN seen[doc] : TypeOf[n].highlightable} :
        LET words == Words(seen[doc], name)
        IN  \A term \in {w[2] : w \in words} :
                Range(VectorOf(FetchDocVec(s.vectors, doc), name, term)) =
                    {[pos |-> PlaceOf(words, w[1]), start |-> StartOf(w[1]), end |-> StartOf(w[1]) + 1] :
                        w \in {v \in words : v[2] = term}}

CachesRight(s) ==
    \A f \in {g \in Field : TypeOf[s.byNum[g]].sortable} :
        LET name == s.byNum[f]
            values == [doc \in DOMAIN seen |->
                          IF name \in DOMAIN seen[doc] THEN seen[doc][name][1] ELSE Null]
        IN  IF f \notin DOMAIN s.caches THEN \A doc \in DOMAIN seen : values[doc] = Null
            ELSE \A doc \in DOMAIN seen :
                    LET ord == Ordinal(s.caches[f], doc)
                    IN  /\ s.caches[f].matches
                        /\ ValueAt(s.caches[f], ord) = values[doc]
                        /\ Find(s.caches[f], values[doc]) = ord
                        /\ \A other \in DOMAIN seen :
                              ord < Ordinal(s.caches[f], other)
                              <=> CompareValues(values[doc], values[other]) < 0

\* A finished segment has, under each document's number, that document: in
\* the postings of its terms with its positions, with skips that lead where
\* they should, in the stored fields, the term vectors and the sort caches;
\* through full memory, temporary files, merged segments with deletions, and
\* fields that have other numbers there, or none.
SegmentRight ==
    self.finished =>
        LET s == self.segment
        IN  ~s.thrown /\ PostingsRight(s) /\ StoredRight(s) /\ VectorsRight(s) /\ CachesRight(s)
=============================================================================
