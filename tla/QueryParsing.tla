---------------------------- MODULE QueryParsing ----------------------------
(* QueryParser: from a string to a query.  Tree replaces phrases and then   *)
(* groups, innermost first, by labels, and makes a tree of what is left;    *)
(* Expand has the analyzers turn leaves into terms and phrases; Prune       *)
(* removes what would match almost everything.                              *)
(*                                                                          *)
(* A string is a sequence of lexemes, pairs of a kind and a detail: a       *)
(* character with a meaning of its own, an operator, the name of a field, a *)
(* word, or a label.  Fields are "body" and "title"; "other" is no field.   *)
EXTENDS QueryLanguage, SequencesExt

CONSTANTS
    Alphabet,       \* the lexemes that are typed
    Expressions,    \* what is typed otherwise: well-formed expressions
    Documents,
    MaxLength

VARIABLES
    self,           \* the parser's options, and the string
    seen            \* the expression that the string was written from, if any

-----------------------------------------------------------------------------
(* Characters.                                                              *)

Mark(kind) == <<kind, "">>
NoWord == "none"

Space == Mark(" ")
Quote == Mark("quote")
Backslash == Mark("backslash")
Colon == Mark(":")
Plus == Mark("+")
Minus == Mark("-")
OpenParen == Mark("(")
CloseParen == Mark(")")

Operator == {"AND", "OR", "NOT"}
IsWordlike(lexeme) == lexeme[1] \in Operator \cup {"word", "field", "http", "phrase", "group"}

\* The first of some places in a text from i on, past the end if there is none.
From(text, i, places) ==
    LET found == {j \in places : j >= i}
    IN  IF found = {} THEN Len(text) + 1 ELSE Min(found)
PlacesOf(text, lexeme) == {j \in DOMAIN text : text[j] = lexeme}
Wordlike(text) == {j \in DOMAIN text : IsWordlike(text[j])}

ViewCBTrim(text) ==
    LET kept == {i \in DOMAIN text : text[i] # Space}
    IN  IF kept = {} THEN <<>> ELSE SubSeq(text, Min(kept), Max(kept))

-----------------------------------------------------------------------------
(* Extractions: each part of the string that matches is replaced by a label *)
(* and a space.                                                             *)

Match(begin, end) == [begin |-> begin, end |-> end]
NoMatch == Match(0, 0)

\* The end of a phrase, after the quote that closes it or at the end.
RECURSIVE PhraseEnd(_, _)
PhraseEnd(text, i) ==
    IF i > Len(text) THEN Len(text) + 1
    ELSE CASE text[i] = Backslash -> PhraseEnd(text, i + 2)
           [] text[i] = Quote -> i + 1
           [] OTHER -> PhraseEnd(text, i + 1)

MatchPhrase(text) ==
    LET begin == From(text, 1, PlacesOf(text, Quote))
    IN  IF begin > Len(text) THEN NoMatch ELSE Match(begin, PhraseEnd(text, begin + 1))

\* A group that holds no other.
MatchBoolGroup(text) ==
    LET first == From(text, 1, PlacesOf(text, OpenParen))
        close == From(text, first, PlacesOf(text, CloseParen))
    IN  IF first > Len(text) THEN NoMatch
        ELSE Match(Max({i \in first..(close - 1) : text[i] = OpenParen}), Min({close, Len(text)}) + 1)

\* found is a sequence of the extracted texts, and labels are numbered by it.
RECURSIVE ExtractSomething(_, _, _)
ExtractSomething(kind, text, found) ==
    LET label == <<kind, ToString(Len(found) + 1)>>
        Extract(match) ==
            IF match = NoMatch THEN [text |-> text, found |-> found]
            ELSE ExtractSomething(
                    kind,
                    SubSeq(text, 1, match.begin - 1) \o <<label, Space>> \o SubSeq(text, match.end, Len(text)),
                    Append(found, SubSeq(text, match.begin, match.end - 1)))
    IN  Extract(IF kind = "phrase" THEN MatchPhrase(text) ELSE MatchBoolGroup(text))

Extracted(label, found) == found[CHOOSE n \in DOMAIN found : ToString(n) = label[2]]

-----------------------------------------------------------------------------
(* Elements: tokens, some of which become clauses.                          *)

ParserToken(type, text) == [type |-> type, text |-> text]
ParserClause(query, occur) == [type |-> "clause", query |-> query, occur |-> occur]
IsClause(elems, i) == i \in DOMAIN elems /\ elems[i].type = "clause"

\* How many lexemes name a field, if a colon follows them.
ConsumeField(text) ==
    LET colon == From(text, 1, DOMAIN text \ Wordlike(text))
    IN  IF colon > Len(text) \/ text[colon] # Colon \/ (text[1][1] = "http" /\ colon = 2) THEN 0 ELSE colon - 1

ConsumeAsciiToken(text) ==
    text[1][1] \in Operator /\ (Len(text) = 1 \/ text[2] = Space)

RECURSIVE Tokens(_, _)
Tokens(heedColons, text) ==
    LET Rest(n) == Tokens(heedColons, SubSeq(text, n + 1, Len(text)))
        space == From(text, 1, PlacesOf(text, Space))
        field == IF heedColons THEN ConsumeField(text) ELSE 0
    IN  CASE text = <<>> -> <<>>
          [] text # <<>> /\ text[1] = Space -> Rest(1)
          [] OTHER ->
                IF text[1] \in {Plus, Minus} \/ ConsumeAsciiToken(text)
                THEN <<ParserToken(text[1][1], <<>>)>> \o Rest(1)
                ELSE IF field > 0
                THEN <<ParserToken("field", SubSeq(text, 1, field))>> \o Rest(field + 1)
                ELSE <<ParserToken("query", SubSeq(text, 1, space - 1))>> \o Rest(space - 1)

ParseFlatString(heedColons, string) ==
    LET text == ViewCBTrim(string)
        inner == Tail(text)
        closed == inner # <<>> /\ inner[Len(inner)] = CloseParen
    IN  IF text = <<>> \/ text[1] # OpenParen THEN Tokens(heedColons, text)
        ELSE <<ParserToken("(", <<>>)>>
                \o Tokens(heedColons, IF closed THEN Front(inner) ELSE inner)
                \o (IF closed THEN <<ParserToken(")", <<>>)>> ELSE <<>>)

SpliceOutTokenTypes(elems, types) == SelectSeq(elems, LAMBDA e : e.type \notin types)

\* Apply +, -, NOT: from the clause back to the clause before it.
RECURSIVE Signed(_, _, _)
Signed(elems, i, occur) ==
    IF i = 0 \/ IsClause(elems, i) THEN occur
    ELSE Signed(elems, i - 1,
            CASE elems[i].type \in {"-", "NOT"} -> IF occur = "must_not" THEN "must" ELSE "must_not"
              [] elems[i].type = "+" -> IF occur = "should" THEN "must" ELSE occur
              [] OTHER -> occur)

ApplySigns(elems) ==
    LET Clause(i) ==
            LET occur == Signed(elems, i - 1, elems[i].occur)
                query == elems[i].query
            IN  ParserClause(IF occur = "must_not" THEN NotNode(query) ELSE query, occur)
        applied == [i \in DOMAIN elems |-> IF IsClause(elems, i) THEN Clause(i) ELSE elems[i]]
    IN  SpliceOutTokenTypes(applied, {"+", "-", "NOT"})

Splice(elems, i, n) == SubSeq(elems, 1, i - 1) \o SubSeq(elems, i + n, Len(elems))

\* Silently discard non-sensical combos of AND and OR.
RECURSIVE DiscardCombos(_, _)
DiscardCombos(elems, i) ==
    LET clause == From(elems, i + 1, {j \in DOMAIN elems : IsClause(elems, j)})
        lonely == ~IsClause(elems, i - 1) \/ ~IsClause(elems, i + 1)
        numToZap == (IF lonely THEN 1 ELSE 0) + (clause - i - 1)
    IN  IF i > Len(elems) THEN elems
        ELSE DiscardCombos(IF IsClause(elems, i) THEN elems ELSE Splice(elems, i, numToZap), i + 1)

\* Apply AND, or OR: a chain of clauses becomes one.
RECURSIVE ApplyChains(_, _, _, _)
ApplyChains(elems, i, type, occur) ==
    LET Linked(m) == \A k \in 1..m : i + 2 * k - 1 \in DOMAIN elems /\ elems[i + 2 * k - 1].type = type
        last == Max({m \in 0..Len(elems) : Linked(m)})
        chain == [k \in 1..(last + 1) |-> elems[i + 2 * (k - 1)].query]
        query == IF type = "AND" THEN AndNode(chain) ELSE OrNode(chain)
    IN  IF i + 2 > Len(elems) THEN elems
        ELSE ApplyChains(
                IF last = 0 THEN elems
                ELSE Splice([elems EXCEPT ![i] = ParserClause(query, occur)], i + 1, 2 * last),
                i + 1, type, occur)

\* The clauses that are left, put together.
Unify(elems, applyParens) ==
    LET Bin(occur) ==
            LET bin == SelectSeq(elems, LAMBDA e : e.occur = occur)
            IN  [i \in DOMAIN bin |-> bin[i].query]
        Bind(queries, MakeQuery(_)) ==
            IF Len(queries) = 1 /\ ~applyParens THEN queries[1] ELSE MakeQuery(queries)
        Both(must, required, optional) ==
            IF must # <<>> THEN ReqOptNode(required, optional) ELSE AndNode(<<required, optional>>)
        Together(must, mandatory, should) ==
            CASE mandatory = <<>> -> Bind(should, OrNode)
              [] should = <<>> -> Bind(mandatory, AndNode)
              [] OTHER -> Both(must, Bind(mandatory, AndNode), Bind(should, OrNode))
    IN  Together(Bin("must"), Bin("must") \o Bin("must_not"), Bin("should"))

\* The name of a field, as a leaf holds it.
FieldOf(text) == IF Len(text) = 1 /\ text[1][1] = "field" THEN text[1][2] ELSE "other"

\* S_do_tree.  A chain that is all there is between parentheses is not
\* wrapped again.
RECURSIVE DoTree(_, _, _, _)
DoTree(parser, string, defaultField, found) ==
    LET defaultOccur == IF parser.boolop = "AND" THEN "must" ELSE "should"
        Field(tokens, i) ==
            IF i > 1 /\ tokens[i - 1].type = "field" THEN FieldOf(tokens[i - 1].text) ELSE defaultField
        Query(text, field) ==
            CASE text[1][1] = "phrase" -> LeafNode(field, Extracted(text[1], found))
              [] text[1][1] = "group" -> DoTree(parser, Extracted(text[1], found), field, found)
              [] OTHER -> LeafNode(field, text)
        Elems(tokens) ==
            [i \in DOMAIN tokens |->
                IF tokens[i].type = "query"
                THEN ParserClause(Query(tokens[i].text, Field(tokens, i)), defaultOccur)
                ELSE tokens[i]]
        Bound(clauses, parens, applyParens) ==
            CASE clauses = <<>> ->
                    IF ~parens THEN NoMatchNode ELSE IF defaultOccur = "should" THEN OrNode(<<>>) ELSE AndNode(<<>>)
              [] Len(clauses) = 1 /\ ~applyParens -> clauses[1].query
              [] OTHER -> Unify(clauses, applyParens)
        Chained(sensible, parens) ==
            LET clauses == ApplyChains(ApplyChains(sensible, 1, "AND", defaultOccur), 1, "OR", defaultOccur)
            IN  Bound(clauses, parens, parens /\ ~(Len(clauses) = 1 /\ Len(sensible) > 1))
        Parsed(all) ==
            LET elems == Elems(SpliceOutTokenTypes(all, {"(", ")"}))
            IN  Chained(DiscardCombos(ApplySigns(SpliceOutTokenTypes(elems, {"field"})), 1),
                        all # <<>> /\ all[1].type = "(")
    IN  Parsed(ParseFlatString(parser.heedColons, string))

\* Phrases are extracted first: parentheses in them mean nothing.
Tree(parser, string) ==
    LET WithoutGroups(mod) == ExtractSomething("group", mod.text, mod.found)
        Of(mod) == DoTree(parser, mod.text, "", mod.found)
    IN  Of(WithoutGroups(ExtractSomething("phrase", string, <<>>)))

-----------------------------------------------------------------------------
(* Expand: leaves become terms and phrases, in each field.                  *)

Nothing == Node("nothing", "", <<>>, <<>>)

\* A backslash hides a colon, if colons are heeded.
Unescape(parser, text) ==
    IF ~parser.heedColons THEN text
    ELSE LET kept == {i \in DOMAIN text : ~(text[i] = Backslash /\ i < Len(text) /\ text[i + 1] = Colon)}
         IN  FoldLeftDomain(LAMBDA t, i : IF i \in kept THEN Append(t, text[i]) ELSE t, <<>>, text)

\* The word that a run of wordlike lexemes is.
WordOf(run) == IF Len(run) = 1 /\ run[1][1] = "word" THEN run[1][2] ELSE NoWord

RECURSIVE Split(_)
Split(text) ==
    LET begin == From(text, 1, Wordlike(text))
        end == From(text, begin, DOMAIN text \ Wordlike(text))
    IN  IF begin > Len(text) THEN <<>>
        ELSE <<WordOf(SubSeq(text, begin, end - 1))>> \o Split(SubSeq(text, end, Len(text)))

ExpandLeaf(parser, leaf) ==
    LET Source(trimmed, isPhrase) ==
            LET inner == Tail(trimmed)
                size == Len(inner)
                closed == size > 0 /\ inner[size] = Quote /\ ~(size > 1 /\ inner[size - 1] = Backslash)
            IN  IF ~isPhrase THEN trimmed ELSE IF closed THEN Front(inner) ELSE inner
        InField(field, isPhrase, source, words) ==
            CASE field # "body" -> <<TermNode(field, WordOf(source))>>
              [] isPhrase \/ Len(words) > 1 -> <<PhraseNode(field, words)>>
              [] OTHER -> IF words = <<>> THEN <<>> ELSE <<TermNode(field, words[1])>>
        Queries(isPhrase, source, words) ==
            IF leaf.field # "" THEN InField(leaf.field, isPhrase, source, words)
            ELSE InField("body", isPhrase, source, words) \o InField("title", isPhrase, source, words)
        Analyzed(isPhrase, source) == Queries(isPhrase, source, Split(Unescape(parser, source)))
        Trimmed(trimmed) ==
            LET isPhrase == trimmed # <<>> /\ trimmed[1] = Quote
            IN  Analyzed(isPhrase, Source(trimmed, isPhrase))
        Together(queries) ==
            CASE leaf.text = <<>> \/ queries = <<>> -> Nothing
              [] Len(queries) = 1 -> queries[1]
              [] OTHER -> OrNode(queries)
    IN  Together(Trimmed(ViewCBTrim(leaf.text)))

RECURSIVE Expand(_, _)
Expand(parser, q) ==
    LET kids == SelectSeq([i \in DOMAIN q.kids |-> Expand(parser, q.kids[i])], LAMBDA k : k # Nothing)
    IN  CASE q.op = "leaf" -> ExpandLeaf(parser, q)
          [] q.op = "not" -> IF kids = <<>> THEN MatchAllNode ELSE NotNode(kids[1])
          [] q.op \in {"and", "or", "reqopt"} ->
                IF kids = <<>> THEN NoMatchNode ELSE IF Len(kids) = 1 THEN kids[1] ELSE [q EXCEPT !.kids = kids]
          [] OTHER -> q

-----------------------------------------------------------------------------
(* Prune.                                                                   *)

RECURSIVE HasValidClauses(_)
HasValidClauses(q) ==
    /\ q.op \notin {"not", "matchall"}
    /\ q.op \in {"and", "or"} => \E i \in DOMAIN q.kids : HasValidClauses(q.kids[i])

RECURSIVE DoPrune(_)
DoPrune(q) ==
    LET kids == [i \in DOMAIN q.kids |-> DoPrune(q.kids[i])]
        Valid(kid) == IF HasValidClauses(kid) THEN kid ELSE NoMatchNode
    IN  CASE q.op = "not" ->
                IF q.kids[1] # MatchAllNode /\ ~HasValidClauses(q.kids[1]) THEN NotNode(MatchAllNode) ELSE q
          [] q.op \in {"or", "reqopt"} -> [q EXCEPT !.kids = [i \in DOMAIN kids |-> Valid(kids[i])]]
          [] q.op = "and" ->
                LET pruned == [q EXCEPT !.kids = kids]
                IN  IF HasValidClauses(pruned) THEN pruned ELSE [q EXCEPT !.kids = <<>>]
          [] OTHER -> q

\* Mutated form of Prune: a query that would match the world is let through.
PruneBelow(q) == IF q = Nothing THEN NoMatchNode ELSE DoPrune(q)

Prune(q) == IF q = Nothing \/ q.op \in {"not", "matchall"} THEN NoMatchNode ELSE DoPrune(q)

Parse(parser, string) == Prune(Expand(parser, Tree(parser, string)))

-----------------------------------------------------------------------------
(* A client types a string, or an expression as a whole.                    *)

RECURSIVE Written(_)
Written(e) ==
    LET Spaced(words) == FoldLeft(LAMBDA t, w : t \o <<Space, <<"word", w>>>>, <<>>, words)
        Unit(part) ==
            CASE part.kind = "word" -> <<<<"word", part.words[1]>>>>
              [] part.kind = "phrase" -> <<Quote>> \o Spaced(part.words) \o <<Quote>>
              [] part.kind = "group" -> <<OpenParen>> \o Written(part.group[1]) \o <<CloseParen>>
        Marked(part) == (IF part.sign = "" THEN <<>> ELSE <<Mark(part.sign)>>) \o Unit(part)
        After(i) ==
            IF i \notin DOMAIN e.between THEN <<>>
            ELSE IF e.between[i] = "" THEN <<Space>> ELSE <<Space, Mark(e.between[i]), Space>>
    IN  FoldLeftDomain(LAMBDA t, i : t \o Marked(e.parts[i]) \o After(i), <<>>, e.parts)

NoExpression == Expression(<<>>, <<>>)
Parser(boolop, heedColons, string) == [boolop |-> boolop, heedColons |-> heedColons, string |-> string]

Init ==
    \E boolop \in {"OR", "AND"}, heedColons \in BOOLEAN :
        \/ self = Parser(boolop, heedColons, <<>>) /\ seen = NoExpression
        \/ seen \in Expressions /\ self = Parser(boolop, heedColons, Written(seen))

Type ==
    /\ seen = NoExpression
    /\ Len(self.string) < MaxLength
    /\ \E lexeme \in Alphabet : self' = [self EXCEPT !.string = Append(@, lexeme)]
    /\ UNCHANGED seen

Next == Type

-----------------------------------------------------------------------------
(* Correctness.                                                             *)

\* Two parts are forbidden, none is required, and the default is OR: they are
\* put into an ANDQuery of their own, and Prune empties it.
RECURSIVE AllForbidden(_)
AllForbidden(e) ==
    \/ Must(e, self.boolop) = {} /\ Cardinality(MustNot(e)) > 1
    \/ \E i \in DOMAIN e.parts : e.parts[i].kind = "group" /\ AllForbidden(e.parts[i].group[1])

FindsWhatItMeans(query) ==
    \A doc \in Documents : Holds(query, doc) = Means(seen, self.boolop, doc)

\* Whatever else is typed may find too little but never "the world": no
\* document without any word of the string.
FindsWords(query) ==
    \A doc \in Documents :
        Holds(query, doc) => \E lexeme \in Range(self.string) : lexeme[2] \in Range(doc["body"] \o doc["title"])

\* QueryParser.bp: a well-formed expression finds what it means, with the
\* exception that ForbiddenRight is about, and no string returns the world.
ParseRight ==
    LET Right(query) == IF seen = NoExpression THEN FindsWords(query)
                        ELSE AllForbidden(seen) \/ FindsWhatItMeans(query)
    IN  Right(Parse(self, self.string))

\* QueryParser.bp: "Prepented +plus and -minus, indicating that the labeled
\* entity should be either required or forbidden".  Violated.
ForbiddenRight == seen # NoExpression => FindsWhatItMeans(Parse(self, self.string))
=============================================================================
