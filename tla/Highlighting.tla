---------------------------- MODULE Highlighting ----------------------------
(* Highlighter: which part of a field to show, where to cut it, and what of *)
(* it to put between tags.                                                  *)
(*                                                                          *)
(* A character is a pair of what it is, " ", ".", "&" or "x" for any other, *)
(* and where it is in the field; 0 if the Highlighter has added it.         *)
EXTENDS Integers, SequencesExt

CONSTANTS
    Fields,         \* values of the field, as sequences of "x", " ", "." and "&"
    SpansOf(_),     \* the sets of spans that queries may find in a value
    ExcerptLengths

VARIABLES
    self,           \* the value, the spans and the excerpt length
    seen            \* the excerpt, when there is one

-----------------------------------------------------------------------------
(* HeatMap: where in a string the spans are dense.  Weights are integers,   *)
(* those of spans counted in units of 1 / window^2.                         *)

Span(offset, length, weight) == [offset |-> offset, length |-> length, weight |-> weight]
End(span) == span.offset + span.length

\* Span_compare_to
SpanLess(x, y) == x.offset < y.offset \/ (x.offset = y.offset /\ x.length < y.length)
SortedSpans(spans) == SortSeq(spans, SpanLess)

\* span1 is not after span2.
CalcProximityBoost(window, span1, span2) ==
    LET gap == span2.offset - End(span1)
        distance == IF gap < 0 THEN 0 ELSE gap
    IN  IF distance > window THEN 0
        ELSE (window - distance) * (window - distance) * (span1.weight + span2.weight)

\* One boost for each pair, up to the first that is too far away.
GenerateProximityBoosts(window, spans) ==
    LET Boost(i, j) == CalcProximityBoost(window, spans[i], spans[j])
        Boosts(i) ==
            LET near == {j \in (i + 1)..Len(spans) : \A k \in (i + 1)..j : Boost(i, k) # 0}
            IN  [n \in 1..Cardinality(near) |->
                    LET other == spans[i + n]
                    IN  Span(spans[i].offset, End(other) - spans[i].offset, Boost(i, i + n))]
    IN  FlattenSeq([i \in DOMAIN spans |-> Boosts(i)])

\* One span, without a weight, for each zone between two bounds.
FlattenedButEmptySpans(spans) ==
    LET bounds == SetToSortSeq({s.offset : s \in Range(spans)} \cup {End(s) : s \in Range(spans)}, <)
    IN  [i \in 1..(Len(bounds) - 1) |-> Span(bounds[i], bounds[i + 1] - bounds[i], 0)]

\* Each source gives its weight to all from the one with its offset to the one
\* at its end; holes are left where there is no weight.
FlattenSpans(spans) ==
    LET Contribute(flattened, source) ==
            LET first == SelectInSeq(flattened, LAMBDA d : d.offset = source.offset)
                Within(j) == \A k \in first..j : flattened[k].offset # End(source)
            IN  [j \in DOMAIN flattened |->
                    IF first > 0 /\ j >= first /\ Within(j)
                    THEN [flattened[j] EXCEPT !.weight = @ + source.weight] ELSE flattened[j]]
        Weighty(d) == d.weight # 0
    IN  IF spans = <<>> THEN <<>>
        ELSE SelectSeq(FoldLeft(Contribute, FlattenedButEmptySpans(spans), spans), Weighty)

HeatMap(spans, window) ==
    LET sorted == SortedSpans(spans)
        boosts == GenerateProximityBoosts(window, sorted)
        scaled == [i \in DOMAIN sorted |-> [sorted[i] EXCEPT !.weight = @ * window * window]]
    IN  FlattenSpans(SortedSpans(boosts \o scaled))

-----------------------------------------------------------------------------
Covers(span, p) == span.offset <= p /\ p < End(span)

\* HeatMap.bp: "stores a number for each location in a string": what all spans
\* over it, and all pairs with it in their reach, add up to; and "If the two
\* spans overlap or abut, return a bonus equal to their summed scores; as they
\* move further apart, tail the bonus down until it hits 0 at the edge of the
\* window".
Heat(spans, window, p) ==
    LET Bonus(s, t) ==
            LET reach == Span(s.offset, End(t) - s.offset, 0)
                apart == Max({0, Min({window, t.offset - End(s)})})
            IN  IF Covers(reach, p) THEN (window - apart) * (window - apart) * (s.weight + t.weight) ELSE 0
        sorted == SortedSpans(spans)
        Own(i) == IF Covers(sorted[i], p) THEN window * window * sorted[i].weight ELSE 0
    IN  FoldLeftDomain(
            LAMBDA sum, i : sum + Own(i)
                + FoldLeftDomain(LAMBDA more, j : more + IF i < j THEN Bonus(sorted[i], sorted[j]) ELSE 0, 0, sorted),
            0, sorted)

HeatAt(heatMap, p) == FoldLeft(LAMBDA sum, d : sum + IF Covers(d, p) THEN d.weight ELSE 0, 0, heatMap)

-----------------------------------------------------------------------------
(* Text                                                                     *)

Kind(char) == char[1]
IsSpace(char) == Kind(char) = " "
Added(kinds) == [i \in DOMAIN kinds |-> <<kinds[i], 0>>]
Ellipsis == Added(<<".", ".", ".">>)

Nip(text, n) == SubSeq(text, n + 1, Len(text))
Truncate(text, n) == SubSeq(text, 1, Min({n, Len(text)}))
\* How many characters there are before, and up to, all that are not spaces.
LeadingSpace(text) ==
    LET first == SelectInSeq(text, LAMBDA x : ~IsSpace(x)) IN IF first = 0 THEN Len(text) ELSE first - 1
TrimTop(text) == Nip(text, LeadingSpace(text))
TrimTail(text) == Truncate(text, SelectLastInSeq(text, LAMBDA x : ~IsSpace(x)))

-----------------------------------------------------------------------------
(* Sentences                                                                *)

NoSentence == -1
MinSentenceLength == 3

\* One that is too short stays open.
CloseSentence(s, end) ==
    IF s.open = NoSentence \/ end - s.open < MinSentenceLength THEN s
    ELSE [open |-> NoSentence, found |-> Append(s.found, Span(s.open, end - s.open, 0))]

RECURSIVE ScanSentences(_, _, _, _)
ScanSentences(fragment, pos, stop, s) ==
    LET rest == Nip(fragment, 1)
        spaces == LeadingSpace(rest)
        next == pos + 1 + spaces
        closed == IF spaces > 0 THEN CloseSentence(s, pos + 1) ELSE s
        opened == IF spaces > 0 /\ next < stop /\ Len(rest) > spaces THEN [closed EXCEPT !.open = next] ELSE closed
    IN  CASE fragment = <<>> -> CloseSentence(s, pos).found
          [] fragment # <<>> /\ Kind(Head(fragment)) # "." -> ScanSentences(rest, pos + 1, stop, s)
          [] OTHER ->
                IF pos + 1 = stop /\ rest = <<>> THEN CloseSentence(s, pos + 1).found
                ELSE IF next >= stop THEN opened.found
                ELSE ScanSentences(Nip(rest, spaces), next, stop, opened)

\* From the top of the text, as Create_Excerpt asks for them.
FindSentences(text, length) ==
    LET pos == LeadingSpace(text)
    IN  ScanSentences(TrimTop(text), pos, length,
            [open |-> IF pos < length /\ Len(text) > pos THEN pos ELSE NoSentence, found |-> <<>>])

-----------------------------------------------------------------------------
(* The fragment: about the hottest location.                                *)

Slop == self.excerptLength \div 3
WindowWidth == self.excerptLength + 2 * Slop

\* The first of the greatest weight.
Hottest(heatMap) ==
    LET hot == {i \in DOMAIN heatMap : \A j \in DOMAIN heatMap : heatMap[j].weight <= heatMap[i].weight}
    IN  IF hot = {} THEN 0 ELSE heatMap[Min(hot)].offset

\* The field from top on, without leading space: its offset and its text.
FragmentFrom(field, top, length) ==
    LET rest == Nip(field, top)
    IN  [top |-> top + LeadingSpace(rest), text |-> Truncate(TrimTop(rest), length)]

FindBestFragment(field, heatMap) ==
    LET best == Hottest(heatMap)
        window == FragmentFrom(field, best - Slop, self.excerptLength)
        overrun == self.excerptLength - Len(window.text)
    IN  IF best < Slop THEN FragmentFrom(field, 0, WindowWidth)
        ELSE CASE overrun = 0 -> FragmentFrom(field, window.top, WindowWidth)
               [] overrun > window.top -> FragmentFrom(field, 0, Len(field))
               [] OTHER -> FragmentFrom(field, window.top - overrun, self.excerptLength)

-----------------------------------------------------------------------------
(* The excerpt: cut at the edges of sentences, or at spaces.                *)

HasHeat(heatMap, offset, length) ==
    LET end == offset + length
    IN  /\ length # 0
        /\ \/ heatMap = <<>>
           \/ \E i \in DOMAIN heatMap :
                 LET span == heatMap[i]
                 IN  /\ \A j \in 1..(i - 1) : heatMap[j].offset <= end
                     /\ \/ Covers(span, offset)
                        \/ span.offset < end /\ end <= End(span)
                        \/ offset <= span.offset /\ end >= End(span)

MinLength(field) ==
    IF Len(field) * 10000 < self.excerptLength * 6666 THEN Len(field) ELSE (self.excerptLength * 6666) \div 10000

\* The sentences to start at: with enough after them in the fragment.
StartingEdges(field, fragment, heatMap, sentences) ==
    {i \in DOMAIN sentences :
        LET candidate == sentences[i].offset
            charsLeft == Len(Truncate(Nip(fragment.text, candidate - fragment.top), self.excerptLength))
        IN  /\ fragment.top <= candidate
            /\ \A j \in 1..i : sentences[j].offset <= fragment.top + WindowWidth
            /\ charsLeft >= MinLength(field)
            /\ HasHeat(heatMap, candidate, charsLeft)}

\* The last edge that is not too far, if the excerpt is long enough with it or
\* nothing comes behind it.
EndingEdges(field, fragment, start, heatMap, sentences) ==
    {i \in DOMAIN sentences :
        LET charsLeft == End(sentences[i]) - start
        IN  /\ \A j \in i..Len(sentences) : End(sentences[j]) > start
            /\ charsLeft <= self.excerptLength
            /\ \/ charsLeft > MinLength(field) /\ HasHeat(heatMap, start, End(sentences[i]))
               \/ TrimTail(Nip(Nip(fragment.text, start - fragment.top), charsLeft)) = <<>>}

\* Skip to behind a space, to make room for an ellipsis.
RECURSIVE SkipToSpace(_, _, _, _)
SkipToSpace(temp, start, length, ends) ==
    LET here == [text |-> Tail(temp), start |-> start + 1]
    IN  IF \/ Len(temp) = 1
           \/ IsSpace(Head(temp)) /\ (~ends \/ length - 1 <= self.excerptLength)
        THEN here ELSE SkipToSpace(here.text, here.start, length - 1, ends)

\* Mutated form of Beginning: where the excerpt starts is not moved back by
\* the ellipsis in front of it.
BeginningUnmoved(field, start, length, edge, ends) ==
    LET back == IF start > 0 THEN 1 ELSE 0
        skipped == SkipToSpace(Nip(field, start - back), start - back, length + 4 + back, ends)
    IN  IF edge THEN [start |-> start, text |-> Truncate(Nip(field, start), length)]
        ELSE [start |-> skipped.start,
              text |-> Ellipsis \o Added(<<" ">>) \o Truncate(skipped.text, self.excerptLength - 4)]

Beginning(field, start, length, edge, ends) ==
    LET back == IF start > 0 THEN 1 ELSE 0
        skipped == SkipToSpace(Nip(field, start - back), start - back, length + 4 + back, ends)
    IN  IF edge THEN [start |-> start, text |-> Truncate(Nip(field, start), length)]
        ELSE [start |-> skipped.start - 4,
              text |-> Ellipsis \o Added(<<" ">>) \o Truncate(skipped.text, self.excerptLength - 4)]

\* Back to the last space, and over the punctuation before it.
LopToSpace(text) ==
    LET space == SelectLastInSeq(text, IsSpace)
        trimmed == TrimTail(Truncate(text, space - 1))
    IN  IF space = 0 THEN <<>>
        ELSE Truncate(trimmed, SelectLastInSeq(trimmed, LAMBDA x : Kind(x) # "."))

RawExcerpt(field, fragment, heatMap, sentences) ==
    LET Cut(begun, ends, end) ==
            [start |-> begun.start,
             text |-> IF ~ends THEN LopToSpace(Truncate(begun.text, self.excerptLength - 2)) \o Ellipsis
                      ELSE IF end < begun.start THEN begun.text    \* a huge size_t
                      ELSE Truncate(begun.text, end - begun.start)]
        Ended(start, edge, ends, end) ==
            LET length == IF ends THEN end - start ELSE self.excerptLength
            IN  IF length = 0 THEN [start |-> start, text |-> <<>>]
                ELSE Cut(Beginning(field, start, length, edge, ends), ends, end)
        Started(start, edge) ==
            LET ending == EndingEdges(field, fragment, start, heatMap, sentences)
            IN  Ended(start, edge, ending # {}, IF ending = {} THEN 0 ELSE End(sentences[Max(ending)]))
        starting == StartingEdges(field, fragment, heatMap, sentences)
    IN  Started(IF starting = {} THEN fragment.top ELSE sentences[Min(starting)].offset, starting # {})

-----------------------------------------------------------------------------
(* Tags and entities                                                        *)

PreTag == <<"<strong>", 0>>
PostTag == <<"</strong>", 0>>

Encode(text) == [i \in DOMAIN text |-> IF Kind(text[i]) = "&" THEN <<"&amp;", text[i][2]>> ELSE text[i]]

RECURSIVE HighlightSpans(_, _, _, _)
HighlightSpans(spans, temp, lastEnd, top) ==
    LET start == Head(spans).offset - top
        gap == IF start > lastEnd THEN start - lastEnd ELSE 0
        marked == Nip(temp, gap)
        length == Head(spans).length
    IN  CASE spans = <<>> -> Encode(temp)
          [] spans # <<>> /\ Head(spans).offset < top -> HighlightSpans(Tail(spans), temp, lastEnd, top)
          [] OTHER ->
                Encode(Truncate(temp, gap))
                \o (IF length > 0 THEN <<PreTag>> \o Encode(Truncate(marked, length)) \o <<PostTag>> ELSE <<>>)
                \o HighlightSpans(Tail(spans), Nip(marked, length), start + length, top)

HighlightExcerpt(spans, rawExcerpt, top) == TrimTail(HighlightSpans(spans, rawExcerpt, 0, top))

CreateExcerpt ==
    LET field == [i \in DOMAIN self.value |-> <<self.value[i], i>>]
        Excerpt(heatMap, fragment, sentences, raw) ==
            [heatMap |-> heatMap, fragment |-> fragment, sentences |-> sentences, raw |-> raw,
             highlighted |-> IF self.value = <<>> THEN <<>>
                             ELSE HighlightExcerpt(SortedSpans(self.spans), raw.text, raw.start)]
        Raw(heatMap, fragment, sentences) ==
            Excerpt(heatMap, fragment, sentences, RawExcerpt(field, fragment, heatMap, sentences))
        From(heatMap, fragment) ==
            Raw(heatMap, fragment, FindSentences(field, fragment.top + WindowWidth))
        About(heatMap) == From(heatMap, FindBestFragment(field, heatMap))
    IN  /\ seen = <<>>
        /\ seen' = About(HeatMap(self.spans, (self.excerptLength * 2) \div 3))
        /\ UNCHANGED self

Init ==
    /\ \E value \in Fields : \E spans \in SpansOf(value), length \in ExcerptLengths :
          self = [value |-> value, spans |-> spans, excerptLength |-> length]
    /\ seen = <<>>

Next == CreateExcerpt

-----------------------------------------------------------------------------
(* Correctness. *)

Window == (self.excerptLength * 2) \div 3

\* The heat map adds up what the spans give each location, and the fragment is
\* about a location where it is greatest.
HeatRight ==
    /\ \A p \in 0..Len(self.value) : HeatAt(seen.heatMap, p) = Heat(self.spans, Window, p)
    /\ self.spans # <<>> =>
          LET fragment == seen.fragment
              inside == fragment.top..(fragment.top + Len(fragment.text) - 1)
          IN  \E p \in inside : \A other \in 0..Len(self.value) :
                 HeatAt(seen.heatMap, p) >= HeatAt(seen.heatMap, other)

\* "Maximum length of the excerpt, in characters": Highlighter.bp.  It is one
\* piece of the field, at the offset that is returned, and maybe ellipses.
ExcerptRight ==
    /\ Len(seen.raw.text) <= self.excerptLength
    /\ \A i \in DOMAIN seen.raw.text :
          LET place == seen.raw.text[i][2] IN place # 0 => place = seen.raw.start + i

Tagged(i) ==
    LET Count(tag) == Cardinality({j \in 1..i : seen.highlighted[j] = tag}) IN Count(PreTag) > Count(PostTag)

Disjoint(spans) == \A i, j \in DOMAIN spans : i = j \/ End(spans[i]) <= spans[j].offset \/ End(spans[j]) <= spans[i].offset

\* "surround search terms with highlighting tags": without them it is the
\* excerpt, encoded, and they surround what is in a span.  Spans that overlap
\* are not highlighted where they are, and a term right before the excerpt has
\* the ellipsis highlighted.
TagsRight ==
    LET Text(text) == SelectSeq(TrimTail(text), LAMBDA x : x \notin {PreTag, PostTag})
    IN  /\ TrimTail(Text(seen.highlighted)) = TrimTail(Encode(seen.raw.text))
        /\ Disjoint(self.spans) =>
              \A i \in DOMAIN seen.highlighted :
                 LET place == seen.highlighted[i][2]
                 IN  place # 0 =>
                        (Tagged(i) <=> \E j \in DOMAIN self.spans : Covers(self.spans[j], place - 1))

HighlightRight == seen # <<>> => HeatRight /\ ExcerptRight /\ TagsRight
=============================================================================
