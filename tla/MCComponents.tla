---------------------------- MODULE MCComponents ----------------------------
(* Deletions, or one of the components that have two variables: self, which *)
(* is the component's, and seen, what its client asked and was given.  A    *)
(* behaviour is of one kind; the variables of the other kinds then keep a   *)
(* fixed value.                                                             *)
EXTENDS MCDeletions

VARIABLES scope, self, seen

-----------------------------------------------------------------------------
\* Segments with a term in common or not, with postings enough for a skip, and
\* with terms enough for several blocks of the index.
MCCollections ==
    LET seg == {<<{}, {}, {1}, {2}>>, <<{1}, {}, {2}, {}>>, <<{}, {1, 2, 3}, {1}, {2}>>,
                <<{2}, {1}, {1, 2}, {3}>>, <<{}, {}, {}, {1, 2, 3, 4}>>}
    IN  [1..2 -> seg]
Lexicon == INSTANCE Lexicons WITH
    Collections <- MCCollections, Target <- 0..5, SkipInterval <- 2, IndexInterval <- 2

\* body is analyzed, highlighted and scored by; title is sorted by.
MCName == {"body", "title"}
MCTypeOf ==
    [n \in MCName |->
        LET body == n = "body"
        IN  [analyzed |-> body, indexed |-> TRUE, stored |-> TRUE, highlightable |-> body,
             sortable |-> ~body, class |-> IF body THEN "score" ELSE "match"]]
WithFields(body, title) ==
    [n \in (IF body = <<>> THEN {} ELSE {"body"}) \cup (IF title = 0 THEN {} ELSE {"title"})
        |-> IF n = "body" THEN body ELSE <<title>>]
MCContent ==
    {WithFields(<<1, 3, 2, 101>>, 1), WithFields(<<102>>, 2), WithFields(<<>>, 3), WithFields(<<3, 1>>, 0)}
MCOtherContents ==
    {<<>>, <<WithFields(<<1, 2>>, 4), WithFields(<<1>>, 2)>>, <<WithFields(<<>>, 2)>>}
\* What the stemmer makes of a word.
MCStem(word) == IF word = 2 THEN 1 ELSE word
Segmented == INSTANCE SegmentWriting WITH
    Name <- MCName, Null <- -1, TypeOf <- MCTypeOf, Analyzers <- <<"fold", "stop", "stem">>, Stopword <- {3}, Stem <- MCStem,
    Content <- MCContent, OtherContents <- MCOtherContents, MaxDoc <- 3, MaxPools <- 3,
    MaxWidth1 <- 2, MaxWidth2 <- 4, PostMemThresh <- 2, SkipInterval <- 2, IndexInterval <- 2

Stream == INSTANCE Streams WITH
    BufSize <- 3, Base <- 2, Chunks <- {<<0, 3>>, <<2, 1, 3>>}, Numbers <- {0, 2, 5}, Width <- 3,
    MaxFile <- 5, Kinds <- {"ram", "fs", "mmap"}

Some == INSTANCE MCQueries
Searched == INSTANCE Queries WITH
    Collections <- Some!MCIndexes, Trees <- Some!MCTrees, Null <- -1, MaxWidth1 <- 2, MaxWidth2 <- 4
Parsed == INSTANCE QueryParsing WITH
    Alphabet <- Some!MCAlphabet, Expressions <- Some!MCExpressions, Documents <- Some!MCDocuments, MaxLength <- 4
Highlighted == INSTANCE Highlighting WITH
    Fields <- Some!MCFields, SpansOf <- Some!MCSpansOf, ExcerptLengths <- {9, 12}


\* Two or three segments, an empty one among them.
Series == INSTANCE SeriesMatching WITH
    ByteBits <- 3, DocMaxes <- {<<2, 3>>, <<1, 2, 2>>, <<3, 0, 2>>, <<4>>, <<0, 2, 2>>},
    Infinity <- 99, MaxTick <- 6, MaxSteps <- 3

\* Two of the keys collide, and the scan for one of those goes round the end.
MCHashCode(k) == IF k <= 2 THEN 3 ELSE k - 2
Table == INSTANCE Hashes WITH
    Key <- 1..4, HashCode <- MCHashCode, LeastCapacity <- 4, MaxCapacity <- 8, MaxSteps <- 6

-----------------------------------------------------------------------------
NoComponent == self = <<>> /\ seen = <<>>

ComponentsInit ==
    \/ scope = "deletions" /\ Init /\ NoComponent
    \/ /\ Init
       /\ \/ scope = "lexicon" /\ Lexicon!Init
          \/ scope = "segment" /\ Segmented!Init
          \/ scope = "stream" /\ Stream!Init
          \/ scope = "query" /\ Searched!Init
          \/ scope = "parse" /\ Parsed!Init
          \/ scope = "highlight" /\ Highlighted!Init
          \/ scope = "series" /\ Series!Init
          \/ scope = "hash" /\ Table!Init

ComponentsNext ==
    /\ UNCHANGED scope
    /\ \/ scope = "deletions" /\ Next /\ UNCHANGED <<self, seen>>
       \/ /\ UNCHANGED vars
          /\ \/ scope = "lexicon" /\ Lexicon!Next
             \/ scope = "segment" /\ Segmented!Next
             \/ scope = "stream" /\ Stream!Next
             \/ scope = "query" /\ Searched!Next
             \/ scope = "parse" /\ Parsed!Next
             \/ scope = "highlight" /\ Highlighted!Next
             \/ scope = "series" /\ Series!Next
             \/ scope = "hash" /\ Table!Next

ComponentsSpec == ComponentsInit /\ [][ComponentsNext]_<<scope, vars, self, seen>>

\* The query parser alone.
ParseSpec == scope = "parse" /\ ComponentsSpec

\* Lexicons go through the terms of all segments, and find each: Lexicon.bp.
LexiconRight == scope = "lexicon" => Lexicon!LexiconRight

\* All files of a segment speak of the documents that were added, as its
\* writers and readers promise together: SegWriter.c.
SegmentRight == scope = "segment" => Segmented!SegmentRight

\* What is read from an InStream was written to an OutStream: InStream.c.
ReadsRight == scope = "stream" => Stream!ReadsRight

\* Each segment's Matcher of a query finds the documents that match it, with
\* the weight and the spans that are due: Compiler.bp.
QueriesRight == scope = "query" => Searched!QueriesRight

\* A query string finds what it means, and none returns the world:
\* QueryParser.bp.
ParseRight == scope = "parse" => Parsed!ParseRight

\* An excerpt is a piece of the field about its hottest location, with tags
\* around what was found: Highlighter.bp.
HighlightRight == scope = "highlight" => Highlighted!HighlightRight


\* A hash table holds what was stored and not deleted, each once: Hash.bp.
HashRight == scope = "hash" => Table!HashRight

\* A part of a query string with a minus is forbidden, however many such parts
\* there are: QueryParser.bp, "Prepented +plus and -minus".
ForbiddenRight == scope = "parse" => Parsed!ForbiddenRight
=============================================================================
