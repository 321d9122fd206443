------------------------------ MODULE Queries ------------------------------
(* Query objects at work: Make_Compiler weighs a query for a whole index,   *)
(* Make_Matcher makes a Matcher of it for each segment or knows that there  *)
(* is nothing to match, and Highlight_Spans finds what of a document's text *)
(* a query is about.  The Matchers made of others are those of Matchers.tla *)
(* and stand here for the documents that they match.                        *)
EXTENDS QueryLanguage

CONSTANTS
    Collections,    \* what the segments may hold: sequences of sequences of documents
    Trees,          \* the queries
    Null, MaxWidth1, MaxWidth2

VARIABLES
    self,           \* the segments, the compiler, the documents found
    seen            \* the query, and how many segments have been searched

INSTANCE SortFiles

----------------------------------------------------------------------------
(* Weights.  Square roots are left out: a norm factor is given as the sum   *)
(* of which it is the inverse of the root, 0 if there is none.              *)

Docs(segments) == FlattenSeq(segments)

\* Sim_idf: less for a term that more documents have.
Idf(segments, field, word) ==
    LET all == Docs(segments)
    IN  1 + Len(all) - Cardinality({d \in DOMAIN all : Occurrences(<<word>>, all[d][field]) # {}})

\* TermCompiler_init and PhraseCompiler_init
Weighed(q, segments, boost) ==
    LET idf == FoldLeft(LAMBDA sum, word : sum + Idf(segments, q.field, word), 0, q.text)
    IN  [op |-> q.op, query |-> q, boost |-> boost, kids |-> <<>>, raw |-> idf * boost, norm |-> 0]

\* Sum_Of_Squared_Weights, by class of Compiler
RECURSIVE SumOfSquares(_)
SumOfSquares(c) ==
    CASE c.op \in {"term", "phrase"} -> c.raw * c.raw
      [] c.op = "not" -> 0
      [] c.op \in {"and", "or", "reqopt"} ->
            FoldLeft(LAMBDA sum, kid : sum + SumOfSquares(kid), 0, c.kids) * c.boost * c.boost
      [] OTHER -> 1

\* Apply_Norm_Factor: a leaf forgets the factor that it had.
RECURSIVE ApplyNorm(_, _)
ApplyNorm(c, sum) ==
    [c EXCEPT !.norm = IF c.op \in {"term", "phrase"} THEN sum ELSE @,
              !.kids = [i \in DOMAIN c.kids |-> ApplyNorm(c.kids[i], sum)]]

\* Compiler_normalize
Normalize(c) == ApplyNorm(c, SumOfSquares(c))

\* Make_Compiler, by class of Query
RECURSIVE Compile(_, _, _)
Compile(q, segments, boost) ==
    CASE q.op = "term" -> Normalize(Weighed(q, segments, boost))
      \* PhraseQuery_make_compiler
      [] q.op = "phrase" ->
            Normalize(Weighed(IF Len(q.text) = 1 THEN TermNode(q.field, q.text[1]) ELSE q, segments, boost))
      \* PolyCompiler_init
      [] q.op \in {"and", "or", "not", "reqopt"} ->
            Normalize([op |-> q.op, query |-> q, boost |-> boost, raw |-> 0, norm |-> 0,
                       kids |-> [i \in DOMAIN q.kids |->
                                    Compile(q.kids[i], segments, boost * q.kids[i].boost)]])
      [] OTHER -> [op |-> q.op, query |-> q, boost |-> boost, kids |-> <<>>, raw |-> 0, norm |-> 0]

----------------------------------------------------------------------------
(* Matchers.  NoMatcher is NULL, and some classes are told apart.           *)

NoMatcher == [class |-> "NULL", docs |-> {}]
MatcherOf(class, docs) == [class |-> class, docs |-> docs]
MatchAllScorer(segment) == MatcherOf("MatchAllScorer", DOMAIN segment)

\* The documents of a posting list.
Postings(segment, field, word) == {d \in DOMAIN segment : Occurrences(<<word>>, segment[d][field]) # {}}

\* TermCompiler_make_matcher
TermMatcher(q, segment) ==
    LET docs == Postings(segment, q.field, q.text[1])
    IN  IF docs = {} THEN NoMatcher ELSE MatcherOf("postings", docs)

\* SI_winnow_anchors: those anchors that a candidate follows at offset.  Both
\* are in order; the one that is behind is moved on.
RECURSIVE Winnowed(_, _, _)
Winnowed(anchors, candidates, offset) ==
    CASE anchors = <<>> \/ candidates = <<>> -> <<>>
      [] OTHER ->
            LET target == Head(anchors) + offset
            IN  CASE Head(candidates) < target -> Winnowed(anchors, Tail(candidates), offset)
                  [] Head(candidates) > target -> Winnowed(Tail(anchors), candidates, offset)
                  [] OTHER -> <<Head(anchors)>> \o Winnowed(Tail(anchors), candidates, offset)

\* The positions of a word in a text, from 0: a posting, or a TermVector.
VectorOf(word, text) == SetToSortSeq({i - 1 : i \in Occurrences(<<word>>, text)}, <)

\* PhraseScorer_calc_phrase_freq
PhraseFreq(words, text) ==
    LET Winnow(anchors, i) == Winnowed(anchors, VectorOf(words[i], text), i - 1)
    IN  Len(FoldLeft(Winnow, VectorOf(words[1], text), Tail([i \in DOMAIN words |-> i])))

\* PhraseCompiler_make_matcher: no matcher without positions.
PhraseMatcher(q, segment) ==
    IF \/ q.text = <<>> \/ q.field # "body"
       \/ \E i \in DOMAIN q.text : Postings(segment, q.field, q.text[i]) = {}
    THEN NoMatcher
    ELSE MatcherOf("PhraseScorer", {d \in DOMAIN segment : PhraseFreq(q.text, segment[d]["body"]) > 0})

\* SortReader_fetch_sort_cache: none, if no document has a value.
SortCacheOf(segment) ==
    LET Add(vals, d) == IF segment[d]["title"] = <<>> THEN vals
                        ELSE Stored(vals, d, segment[d]["title"][1])
        vals == FoldLeft(Add, <<>>, [d \in DOMAIN segment |-> d])
    IN  IF vals = <<>> THEN <<>> ELSE <<FinishSortField(vals, Len(segment))>>

\* S_find_lower_bound
LowerBound(q, cache) ==
    LET term == q.text[1][1]
        ord == Find(cache, term)
    IN  IF q.text[1] = <<>> \/ ord < 0 THEN 0
        ELSE IF ValueAt(cache, ord) # term \/ ~q.text[3] THEN ord + 1
        ELSE ord

\* S_find_upper_bound; Highest is I32_MAX.
Highest == 1000
UpperBound(q, cache) ==
    LET term == q.text[2][1]
        ord == Find(cache, term)
    IN  IF q.text[2] = <<>> THEN Highest
        ELSE IF ord < 0 THEN -1
        ELSE IF ValueAt(cache, ord) = term /\ ~q.text[4] THEN ord - 1
        ELSE ord

\* RangeCompiler_make_matcher and RangeScorer_next
RangeMatcher(q, segment) ==
    LET cache == SortCacheOf(segment)
        lower == LowerBound(q, cache[1])
        upper == UpperBound(q, cache[1])
    IN  IF cache = <<>> THEN NoMatcher
        ELSE IF lower > NumUnique(cache[1]) + 1 \/ upper < 0 THEN NoMatcher
        ELSE MatcherOf("RangeScorer", {d \in DOMAIN segment : Ordinal(cache[1], d) \in lower..upper})

\* ANDCompiler_make_matcher, for other than one child
AndMatcher(subs, segment) ==
    IF NoMatcher \in Range(subs) THEN NoMatcher
    ELSE MatcherOf("ANDScorer", {d \in DOMAIN segment : subs # <<>> /\ \A i \in DOMAIN subs : d \in subs[i].docs})

\* ORCompiler_make_matcher, for other than one child
OrMatcher(subs) ==
    LET left == SelectSeq(subs, LAMBDA sub : sub # NoMatcher)
    IN  CASE Len(left) = 0 -> NoMatcher
          [] Len(left) = 1 -> left[1]
          [] OTHER -> MatcherOf("ORScorer", UNION {left[i].docs : i \in DOMAIN left})

\* Mutated form of NotMatcher: nothing to negate, nothing to match.
NullForNull(sub, segment) ==
    IF sub = NoMatcher THEN NoMatcher
    ELSE IF sub.class = "MatchAllScorer" THEN NoMatcher
    ELSE MatcherOf("NOTScorer", DOMAIN segment \ sub.docs)

\* NOTCompiler_make_matcher
NotMatcher(sub, segment) ==
    IF sub = NoMatcher THEN MatchAllScorer(segment)
    ELSE IF sub.class = "MatchAllScorer" THEN NoMatcher
    ELSE MatcherOf("NOTScorer", DOMAIN segment \ sub.docs)

\* ReqOptCompiler_make_matcher
ReqOptMatcher(required, optional) ==
    IF required = NoMatcher \/ optional = NoMatcher THEN required
    ELSE MatcherOf("RequiredOptionalScorer", required.docs)

\* Make_Matcher, by class of Compiler
RECURSIVE MakeMatcher(_, _)
MakeMatcher(c, segment) ==
    LET subs == [i \in DOMAIN c.kids |-> MakeMatcher(c.kids[i], segment)]
    IN  CASE c.op = "term" -> TermMatcher(c.query, segment)
          [] c.op = "phrase" -> PhraseMatcher(c.query, segment)
          [] c.op = "range" -> RangeMatcher(c.query, segment)
          [] c.op \in {"and", "or"} /\ Len(subs) = 1 -> subs[1]
          [] c.op = "and" /\ Len(subs) # 1 -> AndMatcher(subs, segment)
          [] c.op = "or" /\ Len(subs) # 1 -> OrMatcher(subs)
          [] c.op = "not" -> NotMatcher(subs[1], segment)
          [] c.op = "reqopt" -> ReqOptMatcher(subs[1], subs[2])
          [] c.op = "matchall" -> MatchAllScorer(segment)
          [] c.op = "nomatch" -> MatcherOf("NoMatchScorer", {})

----------------------------------------------------------------------------
(* Spans of a text of which word i is at offset 2 * (i - 1) and has length 1 *)

Span(start, end) == [offset |-> start, length |-> end - start]
StartOf(place) == 2 * (place - 1)

\* TermCompiler_highlight_spans
TermSpans(q, text) ==
    LET vector == VectorOf(q.text[1], text)
    IN  [i \in DOMAIN vector |-> Span(StartOf(vector[i] + 1), StartOf(vector[i] + 1) + 1)]

\* PhraseCompiler_highlight_spans: the positions of the first word from which
\* the others follow; then their offsets are looked for, each from where the
\* one before was found.
PhraseSpans(q, text) ==
    LET n == Len(q.text)
        vectors == [k \in 1..n |-> VectorOf(q.text[k], text)]
        firsts == [k \in 1..n |-> {vectors[k][i] - (k - 1) : i \in DOMAIN vectors[k]} \cap Nat]
        valid == SetToSortSeq({p \in firsts[1] : \A k \in 1..n : p \in firsts[k]}, <)
        \* the first tick from a given one on with a position, or one too many
        Seek(vector, tick, position) ==
            CHOOSE i \in tick..(Len(vector) + 1) :
                /\ i = Len(vector) + 1 \/ vector[i] = position
                /\ \A j \in tick..(i - 1) : vector[j] # position
        Turn(s, position) ==
            LET i == Seek(vectors[1], s.i, position)
                j == Seek(vectors[n], s.j, position + n - 1)
                start == IF i > Len(vectors[1]) THEN 0 ELSE StartOf(position + 1)
                end == IF j > Len(vectors[n]) THEN 0 ELSE StartOf(position + n) + 1
            IN  [i |-> i + 1, j |-> j + 1, spans |-> Append(s.spans, Span(start, end))]
    IN  IF n = 0 \/ \E k \in 1..n : vectors[k] = <<>> THEN <<>>
        ELSE FoldLeft(Turn, [i |-> 1, j |-> 1, spans |-> <<>>], valid).spans

\* Highlight_Spans, by class of Compiler, for the field body
RECURSIVE HighlightSpans(_, _)
HighlightSpans(c, text) ==
    CASE c.op = "term" /\ c.query.field = "body" -> TermSpans(c.query, text)
      [] c.op = "phrase" /\ c.query.field = "body" -> PhraseSpans(c.query, text)
      [] c.op \in {"and", "or", "reqopt"} ->
            FlattenSeq([i \in DOMAIN c.kids |-> HighlightSpans(c.kids[i], text)])
      [] OTHER -> <<>>

----------------------------------------------------------------------------
Init ==
    \E segments \in Collections, q \in Trees :
        /\ self = [segments |-> segments, compiler |-> Compile(q, segments, q.boost), found |-> <<>>]
        /\ seen = [query |-> q, searched |-> 0]

\* The next segment's turn, as in Searcher_collect: its documents by number.
SearchSegment ==
    /\ seen.searched < Len(self.segments)
    /\ LET n == seen.searched + 1
       IN  /\ self' = [self EXCEPT !.found =
                          Append(@, MakeMatcher(self.compiler, self.segments[n]).docs)]
           /\ seen' = [seen EXCEPT !.searched = n]

Next == SearchSegment

----------------------------------------------------------------------------
\* The Compilers of terms and phrases in a tree.
RECURSIVE Leaves(_)
Leaves(c) ==
    IF c.op \in {"term", "phrase"} THEN {c} ELSE UNION {Leaves(c.kids[i]) : i \in DOMAIN c.kids}

\* What of a text a query is about, by the query's meaning.
RECURSIVE About(_, _)
About(q, text) ==
    CASE q.op \in {"term", "phrase"} /\ q.field = "body" /\ q.text # <<>> ->
            {Span(StartOf(i), StartOf(i + Len(q.text) - 1) + 1) : i \in Occurrences(q.text, text)}
      [] q.op \in {"and", "or", "reqopt"} -> UNION {About(q.kids[i], text) : i \in DOMAIN q.kids}
      [] OTHER -> {}

\* A RangeQuery without an upper term: S_find_upper_bound takes any ordinal,
\* and SortCache_Ordinal gives one after all values to a document without.
RECURSIVE OpenEnded(_)
OpenEnded(q) ==
    \/ q.op = "range" /\ q.text[2] = <<>>
    \/ \E i \in DOMAIN q.kids : OpenEnded(q.kids[i])

\* The documents without a value in a segment that has a value.
Valueless(segment) ==
    {d \in DOMAIN segment :
        segment[d]["title"] = <<>> /\ \E e \in DOMAIN segment : segment[e]["title"] # <<>>}

\* A document that is valueless, with a value after all others.
Ranked(segment, d) ==
    IF d \in Valueless(segment) THEN [segment[d] EXCEPT !["title"] = <<Highest>>] ELSE segment[d]

\* A search finds in each segment the documents that match the query, whatever
\* parts of it have no Matcher there, with one exception: for a RangeQuery
\* without an upper term, of which RangeQuery.bp says that "all values greater
\* than lower_term will pass", a document without a value has the greatest,
\* unless no document of its segment has a value.  A phrase is scored by how
\* often it is in a document; all terms and phrases are weighed by the norm of
\* the whole query, though each Compiler on the way normalized those below it;
\* and the spans to highlight are those of the words that the query looks for,
\* none of those that it excludes.
QueriesRight ==
    /\ \A n \in DOMAIN self.found :
          LET segment == self.segments[n]
              excepted == IF OpenEnded(seen.query) THEN Valueless(segment) ELSE {}
          IN  /\ self.found[n] \ excepted
                    = {d \in DOMAIN segment \ excepted : Holds(seen.query, segment[d])}
              /\ self.found[n] \cap excepted
                    = {d \in excepted : Holds(seen.query, Ranked(segment, d))}
    /\ \A leaf \in Leaves(self.compiler) :
          /\ leaf.norm = SumOfSquares(self.compiler)
          /\ leaf.op = "phrase" /\ leaf.query.text # <<>> =>
                \A doc \in Range(Docs(self.segments)) :
                    PhraseFreq(leaf.query.text, doc["body"])
                        = Cardinality(Occurrences(leaf.query.text, doc["body"]))
    /\ \A doc \in Range(Docs(self.segments)) :
          Range(HighlightSpans(self.compiler, doc["body"])) = About(seen.query, doc["body"])
=============================================================================
