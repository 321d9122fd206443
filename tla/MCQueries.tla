----------------------------- MODULE MCQueries -----------------------------
(* Instances for query objects, query strings and highlighting.             *)
EXTENDS QueryLanguage, SequencesExt

-----------------------------------------------------------------------------
(* Queries: two segments each, with and without documents, values and       *)
(* matches; trees of two levels and some of three.                          *)

MCDoc(body, title) == [f \in {"body", "title"} |-> IF f = "body" THEN body ELSE title]
MCSegments ==
    {<<>>,
     <<MCDoc(<<1, 2>>, <<2>>), MCDoc(<<2, 1>>, <<>>), MCDoc(<<1, 2, 1, 2>>, <<1>>)>>,
     <<MCDoc(<<1>>, <<>>), MCDoc(<<>>, <<>>)>>,
     <<MCDoc(<<>>, <<3>>), MCDoc(<<2, 2, 1, 2>>, <<1>>)>>}
MCIndexes == [1..2 -> MCSegments]

Boosted(q) == [q EXCEPT !.boost = 2]
Pairs(S) ==
    {AndNode(<<x, y>>) : x \in S, y \in S} \cup {OrNode(<<x, y>>) : x \in S, y \in S}
        \cup {ReqOptNode(x, y) : x \in S, y \in S}
Single(S) == {NotNode(x) : x \in S} \cup {AndNode(<<x>>) : x \in S}
MCTrees ==
    LET one == TermNode("body", 1)
        leaves ==
            {one, Boosted(TermNode("body", 2)), TermNode("title", 1),
             PhraseNode("body", <<1, 2>>), PhraseNode("title", <<1, 2>>), PhraseNode("body", <<2>>), PhraseNode("body", <<>>),
             RangeNode(<<2>>, <<>>, TRUE, TRUE), RangeNode(<<1>>, <<3>>, FALSE, FALSE),
             RangeNode(<<>>, <<1>>, TRUE, TRUE), RangeNode(<<4>>, <<>>, TRUE, TRUE),
             MatchAllNode, NoMatchNode}
        few == {one, Boosted(PhraseNode("body", <<1, 2>>)), NoMatchNode, MatchAllNode}
        empty == {AndNode(<<>>), OrNode(<<>>)}
        second == {Boosted(x) : x \in Single(few) \cup {AndNode(<<>>), OrNode(<<one, TermNode("body", 2)>>)}}
        phrases == {PhraseNode("body", <<1, 2, 1>>), PhraseNode("body", <<2, 2>>), PhraseNode("body", <<2, 1, 2>>)}
    IN  leaves \cup phrases \cup Pairs(leaves) \cup Single(leaves) \cup empty \cup Pairs(second) \cup Single(second)

-----------------------------------------------------------------------------
(* Strings: every string of a few lexemes, and expressions of up to three   *)
(* parts or with a group.                                                   *)

MCAlphabet ==
    {<<"word", "1">>, <<"field", "title">>}
        \cup {<<kind, "">> : kind \in {" ", "+", "-", "(", ")", "quote", ":", "backslash", "AND", "OR", "NOT"}}

MCExpressions ==
    LET Sign == {"", "+", "-"}
        Between == {"", "AND", "OR"}
        Ones == {Word(s, "1") : s \in Sign}
        Twos == {Word(s, "2") : s \in Sign} \cup {Phrase("", <<"2", "1">>), Phrase("-", <<"3">>)}
        Threes == {Word(s, "3") : s \in Sign}
        pairs == {Expression(<<x, y>>, <<b>>) : x \in Ones, y \in Twos, b \in Between}
        groups == {Group(s, e) : s \in Sign, e \in {f \in pairs : WellFormed(f)}}
    IN  {e \in {Expression(<<x>>, <<>>) : x \in Ones} \cup pairs
            \cup {Expression(<<x, y, z>>, <<b, c>>) : x \in Ones, y \in Twos, z \in Threes, b \in Between, c \in Between}
            \cup {Expression(<<x, g>>, <<b>>) : x \in Threes, g \in groups, b \in Between}
            \cup {Expression(<<g, x>>, <<b>>) : x \in Ones, g \in groups, b \in Between} : WellFormed(e)}

MCDocuments ==
    {[body |-> body, title |-> title, other |-> <<>>] :
        body \in {<<>>, <<"1">>, <<"2", "1">>, <<"2">>, <<"3">>, <<"1", "3">>, <<"2", "3">>, <<"1", "2", "3">>},
        title \in {<<>>, <<"1">>, <<"2">>}}

-----------------------------------------------------------------------------
(* Highlighting: five words of one and of four characters, with sentences   *)
(* that end or do not, and a query that finds none, one or two of them, or  *)
(* one twice.                                                               *)

MCFields ==
    {FlattenSeq(<<e[1], w[1], b[1], w[2], b[2], w[3], b[1], w[4], b[2], w[5], e[2]>>) :
        w \in [1..5 -> {<<"x">>, <<"x", "&", "x", "x">>}],
        b \in [1..2 -> {<<" ">>, <<".", " ">>}],
        e \in {<<<<>>, <<>>>>, <<<<" ">>, <<".">>>>}}

MCSpansOf(value) ==
    LET starts == {i \in DOMAIN value : value[i] = "x" /\ (i = 1 \/ value[i - 1] = " ")}
        Length(i) == Min({j \in i..(Len(value) + 1) : j > Len(value) \/ value[j] \in {" ", "."}}) - i
        Found(i) == [offset |-> i - 1, length |-> Length(i), weight |-> 1]
    IN  {<<>>} \cup {<<Found(i)>> : i \in starts} \cup {<<Found(j), Found(i)>> : i \in starts, j \in starts}
=============================================================================
