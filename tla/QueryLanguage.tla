--------------------------- MODULE QueryLanguage ---------------------------
(* Query objects as trees, what it means for a document to match one, and   *)
(* what a query string is to mean.  A document is a function from its       *)
(* fields to sequences of words; "body" is tokenized, with positions, and   *)
(* "title" has one word or none, has no positions and can be sorted by.     *)
EXTENDS Integers, Sequences, FiniteSets

Node(op, field, text, kids) == [op |-> op, field |-> field, text |-> text, kids |-> kids, boost |-> 1]
Unboosted(q) == [q EXCEPT !.boost = 0]

LeafNode(field, text) == Node("leaf", field, text, <<>>)
TermNode(field, word) == Node("term", field, <<word>>, <<>>)
PhraseNode(field, words) == Node("phrase", field, words, <<>>)
\* text: the lower and the upper term, each in a sequence of at most one, and
\* whether they are included.
RangeNode(lower, upper, withLower, withUpper) ==
    Unboosted(Node("range", "title", <<lower, upper, withLower, withUpper>>, <<>>))
AndNode(kids) == Node("and", "", <<>>, kids)
OrNode(kids) == Node("or", "", <<>>, kids)
NotNode(kid) == Unboosted(Node("not", "", <<>>, <<kid>>))
ReqOptNode(required, optional) == Node("reqopt", "", <<>>, <<required, optional>>)
MatchAllNode == Unboosted(Node("matchall", "", <<>>, <<>>))
NoMatchNode == Unboosted(Node("nomatch", "", <<>>, <<>>))

\* The places where a sequence of words begins in a text.
Occurrences(words, text) ==
    {i \in 1..(Len(text) - Len(words) + 1) : \A j \in DOMAIN words : text[i + j - 1] = words[j]}

\* Is a value within the range?  Where a term is not supplied, "all values"
\* on its side pass (RangeQuery.bp); a document without a value has none.
InRange(q, value) ==
    LET lower == q.text[1]
        upper == q.text[2]
    IN  /\ value # <<>>
        /\ lower # <<>> => value[1] > lower[1] \/ (q.text[3] /\ value[1] = lower[1])
        /\ upper # <<>> => value[1] < upper[1] \/ (q.text[4] /\ value[1] = upper[1])

\* Does a document match a query?
RECURSIVE Holds(_, _)
Holds(q, doc) ==
    LET Kid(i) == Holds(q.kids[i], doc)
    IN  CASE q.op = "term" -> Occurrences(q.text, doc[q.field]) # {}
          [] q.op = "phrase" ->
                /\ q.field = "body" \/ Len(q.text) = 1
                /\ q.text # <<>> /\ Occurrences(q.text, doc[q.field]) # {}
          [] q.op = "range" -> InRange(q, doc["title"])
          [] q.op = "and" -> q.kids # <<>> /\ \A i \in DOMAIN q.kids : Kid(i)
          [] q.op = "or" -> \E i \in DOMAIN q.kids : Kid(i)
          [] q.op = "not" -> ~Kid(1)
          [] q.op = "reqopt" -> Kid(1)
          [] q.op = "matchall" -> TRUE
          [] q.op = "nomatch" -> FALSE

-----------------------------------------------------------------------------
(* What a query string is to mean, apart from how it is parsed: "+plus and  *)
(* -minus", AND and OR, "logical groups" and "phrases" (QueryParser.bp).    *)

\* An expression is a sequence of parts and of what stands between them: AND,
\* OR, or nothing, "".
Expression(parts, between) == [parts |-> parts, between |-> between]

\* A part is signed, "+", "-" or not, and is a word, a phrase or a group.
Part(sign, kind, words, group) == [sign |-> sign, kind |-> kind, words |-> words, group |-> group]
Word(sign, word) == Part(sign, "word", <<word>>, <<>>)
Phrase(sign, words) == Part(sign, "phrase", words, <<>>)
Group(sign, e) == Part(sign, "group", <<>>, <<e>>)

\* AND binds tighter than OR, and OR tighter than nothing.
Joined(e, i, j, by) == \A k \in DOMAIN e.between : (i <= k /\ k < j) \/ (j <= k /\ k < i) => e.between[k] \in by
Chain(e, i) == {j \in DOMAIN e.parts : Joined(e, i, j, {"AND", "OR"})}
Alone(e, i) == Chain(e, i) = {i}

\* What clauses joined by operators are, whatever their sign, is for the
\* default to say.
Must(e, boolop) ==
    {i \in DOMAIN e.parts : IF Alone(e, i) THEN e.parts[i].sign = "+" \/ (e.parts[i].sign = "" /\ boolop = "AND")
                            ELSE boolop = "AND"}
MustNot(e) == {i \in DOMAIN e.parts : Alone(e, i) /\ e.parts[i].sign = "-"}

\* Every group and every alternative in it has a part that is not forbidden:
\* "-a" alone, "a OR -b" and "a (-b)" would match nearly everything.
RECURSIVE WellFormed(_)
WellFormed(e) ==
    LET Positive(i) == \E j \in DOMAIN e.parts : Joined(e, i, j, {"AND"}) /\ e.parts[j].sign # "-"
    IN  /\ \E i \in DOMAIN e.parts : e.parts[i].sign # "-"
        /\ \A i \in DOMAIN e.parts :
              /\ i \in MustNot(e) \/ Positive(i)
              /\ e.parts[i].sign = "+" => Alone(e, i)
              /\ e.parts[i].kind = "group" => WellFormed(e.parts[i].group[1])

RECURSIVE Means(_, _, _)
Means(e, boolop, doc) ==
    LET Unit(part) ==
            CASE part.kind = "group" -> Means(part.group[1], boolop, doc)
              [] OTHER -> Occurrences(part.words, doc["body"]) # {} \/ part.words = doc["title"]
        Fits(i) == Unit(e.parts[i]) = (e.parts[i].sign # "-")
        AllFit(i) == \A j \in DOMAIN e.parts : Joined(e, i, j, {"AND"}) => Fits(j)
        ClauseFits(i) == \E j \in Chain(e, i) : AllFit(j)
        must == Must(e, boolop)
    IN  /\ \A i \in must \cup MustNot(e) : ClauseFits(i)
        /\ must # {} \/ \E i \in DOMAIN e.parts \ MustNot(e) : ClauseFits(i)
=============================================================================
